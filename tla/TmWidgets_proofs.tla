--------------------------- MODULE TmWidgets_proofs ---------------------------
(***************************************************************************)
(* What a row tells is true, in any order of ticks and drawings:           *)
(* - the uptime, for every uptime;                                         *)
(* - the shares of the CPU, for any modulus of the counters and whatever   *)
(*   they gain, as long as it is not so much in MaxSteps readings that a   *)
(*   difference is no longer what was gained;                              *)
(* - loads, memory, disk and network, for every amount there is a letter   *)
(*   for: UnitCuts says what the divisions leave, UnitIs that the loop     *)
(*   stops at the unit the amount asks for, FourCharsReads what the cut of *)
(*   the text costs.                                                       *)
(* Texts fit their places but for the ones TextsFit lists.  Rows, areas    *)
(* and lines do not touch, for any geometry; and drawing only what has     *)
(* changed shows the same as drawing everything, for any widths and texts: *)
(* RowInv says cell by cell what the screen shows, DrawTextIs what one     *)
(* drawing changes, and DrawRowIs, by induction along the items, what a    *)
(* drawing of the row leaves.                                              *)
(***************************************************************************)
EXTENDS TmWidgets, TmInduction, FiniteSetTheorems

\* Every step is about the row that was chosen.
LEMMA RowKept == ASSUME [WidgetNext]_widgetVars PROVE row' = row
  <1>1. ASSUME NEW new, Update(new) PROVE row' = row
    BY <1>1 DEF Update
  <1>2. ASSUME NEW n, DateTick(n) \/ FreqTick(n) \/ StateTick(n) PROVE row' = row
    BY <1>1, <1>2 DEF DateTick, FreqTick, StateTick
  <1>3. ASSUME NEW u, UptimeTick(u) \/ LoadTick(u) PROVE row' = row
    BY <1>1, <1>3 DEF UptimeTick, LoadTick
  <1>4. ASSUME NEW s, UsageTick(s) \/ UsageUnknown(s) PROVE row' = row
    BY <1>1, <1>4 DEF UsageTick, UsageUnknown
  <1>5. ASSUME NEW n, TempTick(n) \/ MemTick(n) \/ DiskTick(n) \/ NetTick(n) PROVE row' = row
    BY <1>1, <1>5 DEF TempTick, MemTick, DiskTick, NetTick
  <1>6. ASSUME CallbackFails \/ DrawAll \/ \E i \in DOMAIN texts : DrawOne(i) PROVE row' = row
    BY <1>6 DEF CallbackFails, DrawAll, DrawOne
  <1> QED  BY <1>2, <1>3, <1>4, <1>5, <1>6 DEF WidgetNext, widgetVars

\* A printed number reads as the number.
LEMMA DecimalReads == ASSUME NEW n PROVE Decimal(n).value = n
  BY DEF Decimal, Text

\* The row has its seven items, and their texts are of the last uptime read.
UptimeInv ==
    row = "uptime" =>
        /\ DOMAIN texts = 1 .. 7
        /\ seen = <<>> \/ \E u \in Nat :
              /\ seen = <<u>>
              /\ texts[2] = Decimal(Uptime(u).days)
              /\ texts[4] = Decimal(Uptime(u).hours)
              /\ texts[6] = Decimal(Uptime(u).minutes)

LEMMA UptimeInitInv == WidgetInit => UptimeInv
  <1> SUFFICES ASSUME WidgetInit, row = "uptime" PROVE UptimeInv
    BY DEF UptimeInv
  <1>1. Items("uptime") = ClockItems["uptime"]
    BY DEF Items, ClockItems
  <1>2. DOMAIN Items("uptime") = 1 .. 7
    BY <1>1 DEF ClockItems
  <1>3. DOMAIN texts = 1 .. 7 /\ seen = <<>>
    BY <1>2 DEF WidgetInit
  <1> QED  BY <1>3 DEF UptimeInv

\* What Update leaves as it was.
LEMMA UpdateKeeps ==
    ASSUME NEW new, Update(new)
    PROVE  row' = row /\ DOMAIN texts' = DOMAIN texts
  BY DEF Update

\* The texts an uptime tick sets.
LEMMA UpdateThree ==
    ASSUME NEW a, NEW b, NEW c, Update(At(<<2, 4, 6>>, <<a, b, c>>)), DOMAIN texts = 1 .. 7
    PROVE  texts'[2] = a /\ texts'[4] = b /\ texts'[6] = c
  <1> DEFINE new == At(<<2, 4, 6>>, <<a, b, c>>)
  <1>1. /\ 2 \in DOMAIN new /\ 4 \in DOMAIN new /\ 6 \in DOMAIN new
        /\ new[2] = a /\ new[4] = b /\ new[6] = c
    <2>1. DOMAIN <<2, 4, 6>> = 1 .. 3 OBVIOUS
    <2>2. (CHOOSE n \in 1 .. 3 : <<2, 4, 6>>[n] = 2) = 1 OBVIOUS
    <2>3. (CHOOSE n \in 1 .. 3 : <<2, 4, 6>>[n] = 4) = 2 OBVIOUS
    <2>4. (CHOOSE n \in 1 .. 3 : <<2, 4, 6>>[n] = 6) = 3 OBVIOUS
    <2>5. {<<2, 4, 6>>[n] : n \in 1 .. 3} = {2, 4, 6} OBVIOUS
    <2> QED  BY <2>1, <2>2, <2>3, <2>4, <2>5 DEF At
  <1>2. texts' = [i \in DOMAIN texts |-> IF i \in DOMAIN new THEN new[i] ELSE texts[i]]
    BY DEF Update
  <1> QED  BY <1>1, <1>2

LEMMA UptimeStepInv == UptimeInv /\ [WidgetNext]_widgetVars => UptimeInv'
  <1> SUFFICES ASSUME UptimeInv, [WidgetNext]_widgetVars PROVE UptimeInv'  OBVIOUS
  <1>1. CASE row # "uptime"
    <2>1. row' = row
      BY RowKept
    <2> QED  BY <1>1, <2>1 DEF UptimeInv
  <1>2. ASSUME row = "uptime", UNCHANGED <<row, texts, seen>> PROVE UptimeInv'
    BY <1>2 DEF UptimeInv
  <1>3. ASSUME row = "uptime", NEW u \in Uptimes, UptimeTick(u) PROVE UptimeInv'
    <2>1. Update(At(<<2, 4, 6>>, <<Decimal(Uptime(u).days), Decimal(Uptime(u).hours),
                                   Decimal(Uptime(u).minutes)>>))
          /\ seen' = <<u>> /\ u \in Nat
      BY <1>3, UptimeAssumption DEF UptimeTick
    <2>2. DOMAIN texts = 1 .. 7
      BY <1>3 DEF UptimeInv
    <2>3. row' = row /\ DOMAIN texts' = 1 .. 7
      BY <2>1, <2>2, UpdateKeeps
    <2>4. /\ texts'[2] = Decimal(Uptime(u).days)
          /\ texts'[4] = Decimal(Uptime(u).hours)
          /\ texts'[6] = Decimal(Uptime(u).minutes)
      BY <2>1, <2>2, UpdateThree
    <2> QED  BY <2>1, <2>3, <2>4 DEF UptimeInv
  <1>4. ASSUME row = "uptime", WidgetNext
        PROVE  UNCHANGED <<row, texts, seen>> \/ \E u \in Uptimes : UptimeTick(u)
    BY <1>4 DEF WidgetNext, CallbackFails, DateTick, FreqTick, StateTick, LoadTick, UsageTick,
                UsageUnknown, TempTick, MemTick, DiskTick, NetTick, DrawOne, DrawAll
  <1> QED  BY <1>1, <1>2, <1>3, <1>4 DEF widgetVars

\* Days, hours and minutes together are always the uptime in minutes, for any
\* uptime sysinfo may tell (tm_clock_uptime_update).
THEOREM UptimeAlwaysTrue == WidgetSpec => []UptimeTrue
  <1>1. UptimeInv => UptimeTrue
    <2> SUFFICES ASSUME UptimeInv, row = "uptime", seen # <<>> PROVE UptimeTrue
      BY DEF UptimeTrue
    <2>1. PICK u \in Nat : /\ seen = <<u>>
                           /\ texts[2] = Decimal(Uptime(u).days)
                           /\ texts[4] = Decimal(Uptime(u).hours)
                           /\ texts[6] = Decimal(Uptime(u).minutes)
      BY DEF UptimeInv
    <2>2. /\ texts[2].value = Uptime(u).days /\ texts[4].value = Uptime(u).hours
          /\ texts[6].value = Uptime(u).minutes /\ seen[1] = u
      BY <2>1, DecimalReads
    <2>3. PICK d \in Int, h \in Int, m \in Int :
             /\ d = u \div 86400 /\ h = ((u \div 60) \div 60) % 24 /\ m = (u \div 60) % 60
      OBVIOUS
    <2>4. h \in 0 .. 23 /\ m \in 0 .. 59 /\ 1440 * d + 60 * h + m = u \div 60
      BY <2>3
    <2>5. Uptime(u).days = d /\ Uptime(u).hours = h /\ Uptime(u).minutes = m
      BY <2>3 DEF Uptime
    <2> QED  BY <2>2, <2>4, <2>5 DEF UptimeTrue
  <1> QED  BY <1>1, UptimeInitInv, UptimeStepInv, PTL DEF WidgetSpec

-----------------------------------------------------------------------------
(* The shares of the CPU.                                                  *)

LEMMA NoMultipleBetween ==
    ASSUME NEW m \in Nat \ {0}, NEW j \in Int, -m < m * j, m * j < m
    PROVE  j = 0
  <1>1. CASE j >= 1
    <2>1. m * j = m * (j - 1) + m /\ m * (j - 1) >= 0  BY <1>1
    <2> QED  BY <2>1
  <1>2. CASE j <= -1
    <2>1. m * j = m * (j + 1) - m /\ m * (j + 1) <= 0  BY <1>2
    <2> QED  BY <2>1
  <1> QED  BY <1>1, <1>2

LEMMA DivMod ==
    ASSUME NEW a \in Int, NEW m \in Nat \ {0}
    PROVE  /\ a \div m \in Int /\ a % m \in Int
           /\ a = m * (a \div m) + (a % m) /\ 0 <= a % m /\ a % m < m
  OBVIOUS

\* A number that differs from a small one by whole moduli is it, modulo m.
LEMMA ModOf ==
    ASSUME NEW a \in Int, NEW b \in Int, NEW m \in Nat \ {0}, NEW k \in Int,
           0 <= a, a < m, b = a + m * k
    PROVE  b % m = a
  <1>1. PICK q \in Int, r \in Int : /\ q = b \div m /\ r = b % m
                                    /\ b = m * q + r /\ 0 <= r /\ r < m
    BY DivMod
  <1>2. m * (k - q) = m * k - m * q
    OBVIOUS
  <1>3. k - q \in Int /\ m * (k - q) = r - a
    BY <1>1, <1>2
  <1>4. k - q = 0
    BY <1>1, <1>3, NoMultipleBetween
  <1> QED  BY <1>1, <1>3, <1>4

\* A sum modulo m is the sum, up to whole moduli.
LEMMA ModDiffers ==
    ASSUME NEW a \in Int, NEW m \in Nat \ {0}
    PROVE  \E k \in Int : a % m = a + m * k
  <1>1. PICK q \in Int : q = a \div m /\ a = m * q + (a % m)
    BY DivMod
  <1>2. -q \in Int /\ m * (-q) = -(m * q)
    OBVIOUS
  <1>3. a % m = a + m * (-q)
    BY <1>1, <1>2, DivMod
  <1> QED  BY <1>2, <1>3

\* A share of a total, in thousandths, is printed to the nearest.
LEMMA RoundedShare ==
    ASSUME NEW n, NEW d, n \in Nat, d \in Nat, d # 0, n <= d
    PROVE  /\ Rounded(n, d, 1000) \in 0 .. 1000
           /\ 2 * Abs(Rounded(n, d, 1000) * d - 1000 * n) <= d
  <1>1. CASE n = d
    <2>1. n \div d = 1 /\ n % d = 0
      BY <1>1
    <2>2. (1000 * (n % d)) \div d = 0 /\ (1000 * (n % d)) % d = 0
      BY <2>1
    <2>3. Rounded(n, d, 1000) = 1000
      BY <2>1, <2>2 DEF Rounded
    <2> QED  BY <1>1, <2>3 DEF Abs
  <1>2. CASE n < d
    <2>1. n \div d = 0 /\ n % d = n
      BY <1>2
    <2>2. PICK q \in Int, r \in Int : /\ q = (1000 * n) \div d /\ r = (1000 * n) % d
                                      /\ 1000 * n = d * q + r /\ 0 <= r /\ r < d
      BY DivMod
    <2>3. q \in 0 .. 999
      <3>1. ASSUME q <= -1 PROVE FALSE
        <4>1. d * q = d * (q + 1) - d /\ d * (q + 1) <= 0  BY <3>1
        <4> QED  BY <2>2, <4>1
      <3>2. ASSUME q >= 1000 PROVE FALSE
        <4>1. d * q = d * (q - 1000) + 1000 * d /\ d * (q - 1000) >= 0  BY <3>2
        <4> QED  BY <1>2, <2>2, <4>1
      <3> QED  BY <3>1, <3>2
    <2>4. Rounded(n, d, 1000) = IF 2 * r > d \/ (2 * r = d /\ q % 2 = 1) THEN q + 1 ELSE q
      BY <2>1, <2>2, <2>3 DEF Rounded
    <2>5. q * d = d * q /\ (q + 1) * d = d * q + d
      OBVIOUS
    <2>6. CASE Rounded(n, d, 1000) = q + 1 /\ 2 * r >= d
      BY <2>2, <2>3, <2>5, <2>6 DEF Abs
    <2>7. CASE Rounded(n, d, 1000) = q /\ 2 * r <= d
      <3>1. q * d - 1000 * n = -r
        BY <2>2, <2>3, <2>5
      <3>2. Abs(-r) = r
        BY <2>2 DEF Abs
      <3> QED  BY <2>3, <2>7, <3>1, <3>2
    <2> QED  BY <2>2, <2>4, <2>6, <2>7
  <1> QED  BY <1>1, <1>2

\* The text of a share reads as it.
LEMMA ShareReads ==
    ASSUME NEW dif, NEW g, NEW n \in Nat, NEW d \in Nat, n <= d,
           dif[g] = n, CpuTotal(dif) = d
    PROVE  LET v == UsageText(g, dif).value
           IN  IF d = 0 THEN v = NaN ELSE 2 * Abs(v * d - 1000 * n) <= d
  <1>1. CASE d = 0
    BY <1>1 DEF UsageText, Text
  <1>2. CASE d # 0
    <2>1. PICK t : t = Rounded(n, d, 1000)
      OBVIOUS
    <2>2. t \in 0 .. 1000 /\ 2 * Abs(t * d - 1000 * n) <= d
      BY <1>2, <2>1, RoundedShare
    <2>3. UsageText(g, dif).value = t
      BY <1>2, <2>1, <2>2 DEF UsageText, Text
    <2> QED  BY <1>2, <2>2, <2>3
  <1> QED  BY <1>1, <1>2

\* What is left of a product when a factor is.
LEMMA Cancel ==
    ASSUME NEW m \in Nat \ {0}, NEW a \in Int, NEW w \in Int, m * a <= m * w
    PROVE  a <= w
  <1> SUFFICES ASSUME a - w >= 1 PROVE FALSE  OBVIOUS
  <1>1. m * (a - w) = m * a - m * w
    OBVIOUS
  <1>2. m * (a - w) = m * (a - w - 1) + m /\ m * (a - w - 1) >= 0
    OBVIOUS
  <1> QED  BY <1>1, <1>2

\* Kernel and widget agree up to the wraps, and what was gained since the
\* last kept file is a part of what MaxSteps readings may gain.
UsageInv ==
    row = "usage" =>
        /\ DOMAIN texts = 1 .. 7
        /\ steps \in 0 .. MaxSteps
        /\ \A g \in Groups :
              /\ cpu[g] \in Int /\ stat[g] \in Int /\ gained[g] \in Int
              /\ 6 * (MaxSteps * gained[g]) <= steps * Word
              /\ \E k \in Int : stat[g] = cpu[g] + gained[g] + Word * k

LEMMA UsageInitInv == WidgetInit => UsageInv /\ UsageTrue
  <1> SUFFICES ASSUME WidgetInit, row = "usage" PROVE UsageInv /\ UsageTrue
    BY DEF UsageInv, UsageTrue
  <1>1. DOMAIN Items("usage") = 1 .. 7
    BY DEF Items, ClockItems, UsageItems
  <1>2. DOMAIN texts = 1 .. 7 /\ seen = <<>> /\ steps = 0
    BY <1>1 DEF WidgetInit
  <1>3. PICK n \in {0, Word - 2} : /\ cpu = [g \in Groups |-> n]
                                  /\ stat = [g \in Groups |-> n]
    BY DEF WidgetInit
  <1>4. \A g \in Groups : cpu[g] = n /\ stat[g] = n /\ gained[g] = 0
    BY <1>3 DEF WidgetInit
  <1>5. n \in Int /\ n = n + 0 + Word * 0 /\ 6 * (MaxSteps * 0) <= 0 * Word
    BY WordAssumption, StepAssumption
  <1>6. \A g \in Groups : \E k \in Int : stat[g] = cpu[g] + gained[g] + Word * k
    BY <1>4, <1>5
  <1>7. steps \in 0 .. MaxSteps
    BY <1>2, StepAssumption
  <1> QED  BY <1>2, <1>4, <1>5, <1>6, <1>7 DEF UsageInv, UsageTrue

\* One more reading: what is gained stays a part of what may be gained.
LEMMA GainBounded ==
    ASSUME UsageInv, row = "usage", steps < MaxSteps,
           NEW s \in CpuSteps, NEW g \in Groups
    PROVE  /\ s[g] \in Int
           /\ gained[g] + s[g] \in Int
           /\ 6 * (MaxSteps * (gained[g] + s[g])) <= (steps + 1) * Word
           /\ 6 * (gained[g] + s[g]) <= Word
  <1>1. /\ s[g] \in Int /\ 6 * (MaxSteps * s[g]) <= Word /\ MaxSteps \in Nat /\ Word \in Nat
    BY StepAssumption, WordAssumption DEF Groups
  <1>2. /\ gained[g] \in Int /\ steps \in 0 .. MaxSteps
        /\ 6 * (MaxSteps * gained[g]) <= steps * Word
    BY DEF UsageInv
  <1>3. PICK a \in Int, b \in Int, n \in Nat : a = gained[g] /\ b = s[g] /\ n = steps
    BY <1>1, <1>2
  <1>4. MaxSteps * (a + b) = MaxSteps * a + MaxSteps * b /\ (n + 1) * Word = n * Word + Word
    BY <1>1
  <1>5. 6 * (MaxSteps * (a + b)) <= (n + 1) * Word
    BY <1>1, <1>2, <1>3, <1>4
  <1>6. (n + 1) * Word <= MaxSteps * Word
    <2>1. MaxSteps * Word = (n + 1) * Word + (MaxSteps - n - 1) * Word
      BY <1>1
    <2>2. (MaxSteps - n - 1) * Word >= 0
      BY <1>1, <1>3
    <2> QED  BY <1>1, <2>1, <2>2
  <1>7. 6 * (a + b) <= Word
    <2>1. MaxSteps * (6 * (a + b)) = 6 * (MaxSteps * (a + b))
      BY <1>1
    <2>2. MaxSteps * (6 * (a + b)) <= MaxSteps * Word
      BY <1>1, <1>5, <1>6, <2>1
    <2>3. MaxSteps \in Nat \ {0}
      BY <1>1, <1>2
    <2>4. 6 * (a + b) \in Int /\ Word \in Int
      BY <1>1
    <2> QED  BY <2>2, <2>3, <2>4, Cancel
  <1> QED  BY <1>1, <1>3, <1>5, <1>7

\* One more reading: stat and what was gained still agree, up to the wraps.
LEMMA StatFollows ==
    ASSUME UsageInv, row = "usage", NEW s, NEW g \in Groups, s[g] \in Int,
           NEW now, now = (stat[g] + s[g]) % Word
    PROVE  /\ now \in Int
           /\ \E k \in Int : now = cpu[g] + (gained[g] + s[g]) + Word * k
           /\ 0 <= gained[g] + s[g] /\ gained[g] + s[g] < Word =>
                 (now - cpu[g]) % Word = gained[g] + s[g]
  <1>1. PICK a \in Int, b \in Int, c \in Int : a = cpu[g] /\ b = stat[g] /\ c = gained[g]
    BY DEF UsageInv
  <1>2. PICK k \in Int : b = a + c + Word * k
    BY <1>1 DEF UsageInv
  <1>3. PICK d \in Int : d = s[g]
    OBVIOUS
  <1>4. b + d \in Int /\ Word \in Nat \ {0}
    BY WordAssumption
  <1>5. PICK j \in Int : (b + d) % Word = b + d + Word * j
    BY <1>4, ModDiffers
  <1>6. Word * (k + j) = Word * k + Word * j /\ k + j \in Int
    BY <1>4
  <1>7. now = a + (c + d) + Word * (k + j)
    BY <1>1, <1>2, <1>3, <1>4, <1>5, <1>6
  <1>8. Word * (k + j) \in Int
    BY <1>4
  <1>9. now \in Int /\ now - a \in Int /\ c + d \in Int /\ now - a = c + d + Word * (k + j)
    BY <1>7, <1>8
  <1>10. ASSUME 0 <= c + d, c + d < Word PROVE (now - a) % Word = c + d
    <2>1. PICK e \in Int, n \in Int, q \in Int : e = c + d /\ n = now - a /\ q = k + j
      BY <1>6, <1>9
    <2>2. n = e + Word * q /\ 0 <= e /\ e < Word
      BY <1>9, <1>10, <2>1
    <2>3. n % Word = e
      BY <1>4, <2>2, ModOf
    <2> QED  BY <2>1, <2>3
  <1> QED  BY <1>1, <1>3, <1>6, <1>7, <1>9, <1>10

\* The ticks keep what agrees.
LEMMA UsageKeeps ==
    ASSUME UsageInv, row = "usage", NEW s \in CpuSteps, steps < MaxSteps,
           steps' = steps + 1, row' = row, DOMAIN texts' = DOMAIN texts,
           stat' = [g \in Groups |-> (stat[g] + s[g]) % Word],
           \/ cpu' = cpu /\ gained' = [g \in Groups |-> gained[g] + s[g]]
           \/ cpu' = stat' /\ gained' = [g \in Groups |-> 0]
    PROVE  UsageInv'
  <1>1. steps' \in 0 .. MaxSteps
    BY StepAssumption DEF UsageInv
  <1>2. ASSUME NEW g \in Groups
        PROVE  /\ cpu'[g] \in Int /\ stat'[g] \in Int /\ gained'[g] \in Int
               /\ 6 * (MaxSteps * gained'[g]) <= steps' * Word
               /\ \E k \in Int : stat'[g] = cpu'[g] + gained'[g] + Word * k
    <2>1. /\ s[g] \in Int /\ gained[g] + s[g] \in Int
          /\ 6 * (MaxSteps * (gained[g] + s[g])) <= (steps + 1) * Word
      BY GainBounded
    <2>2. stat'[g] = (stat[g] + s[g]) % Word
      OBVIOUS
    <2>3. /\ stat'[g] \in Int
          /\ \E k \in Int : stat'[g] = cpu[g] + (gained[g] + s[g]) + Word * k
      BY <2>1, <2>2, StatFollows
    <2>4. CASE cpu' = cpu /\ gained' = [h \in Groups |-> gained[h] + s[h]]
      BY <2>1, <2>3, <2>4 DEF UsageInv
    <2>5. CASE cpu' = stat' /\ gained' = [h \in Groups |-> 0]
      <3>1. cpu'[g] = stat'[g] /\ gained'[g] = 0
        BY <2>5
      <3>2. PICK x \in Int : x = stat'[g]
        BY <2>3
      <3>3. x = x + 0 + Word * 0 /\ 6 * (MaxSteps * 0) <= (steps + 1) * Word
        <4>1. (steps + 1) * Word >= 0
          BY WordAssumption, StepAssumption DEF UsageInv
        <4> QED  BY <4>1, WordAssumption, StepAssumption
      <3> QED  BY <2>3, <3>1, <3>2, <3>3
    <2> QED  BY <2>4, <2>5
  <1> QED  BY <1>1, <1>2 DEF UsageInv

\* What a tick that is not overtaken by its own counters writes.
LEMMA UsageShows ==
    ASSUME UsageInv, row = "usage", NEW s \in CpuSteps, UsageTick(s)
    PROVE  UsageTrue'
  <1>1. /\ steps < MaxSteps /\ row' = "usage" /\ phase = "run"
        /\ seen' = [g \in Groups |-> gained[g] + s[g]]
    BY DEF UsageTick, Update
  <1>2. SUFFICES ASSUME \A g \in Groups : seen'[g] >= 0 PROVE UsageTrue'
    <2>1. ASSUME NEW g \in Groups PROVE seen'[g] \in Int
      BY <1>1, GainBounded
    <2> QED  BY <2>1 DEF UsageTrue
  <1>3. PICK dif : dif = CpuDif(cpu, stat')
    OBVIOUS
  <1>4. ASSUME NEW g \in Groups
        PROVE  /\ seen'[g] \in Nat /\ 6 * seen'[g] <= Word
               /\ dif[g] = seen'[g]
    <2>1. /\ seen'[g] = gained[g] + s[g] /\ seen'[g] \in Int /\ 6 * seen'[g] <= Word
          /\ s[g] \in Int
      BY <1>1, GainBounded
    <2>2. stat'[g] = (stat[g] + s[g]) % Word
      BY DEF UsageTick
    <2>3. 0 <= seen'[g] /\ seen'[g] < Word
      BY <1>2, <2>1, WordAssumption
    <2>4. (stat'[g] - cpu[g]) % Word = seen'[g]
      BY <2>1, <2>2, <2>3, StatFollows
    <2> QED  BY <1>3, <2>1, <2>3, <2>4 DEF CpuDif
  <1>5. PICK u \in Nat, y \in Nat, i \in Nat :
          /\ u = seen'["us"] /\ y = seen'["sy"] /\ i = seen'["id"]
          /\ dif["us"] = u /\ dif["sy"] = y /\ dif["id"] = i
          /\ 6 * u <= Word /\ 6 * y <= Word /\ 6 * i <= Word
    BY <1>4 DEF Groups
  <1>6. CpuTotal(dif) = u + y + i
    <2>1. u + y + i \in Nat /\ u + y + i < Word
      BY <1>5, WordAssumption
    <2>2. (u + y + i) % Word = u + y + i
      BY <2>1, WordAssumption
    <2> QED  BY <1>5, <2>2 DEF CpuTotal
  <1>7. ~ShareOverflows(dif)
    BY <1>4, WordAssumption DEF ShareOverflows
  <1>8. /\ phase' = "run"
        /\ Update(At(<<2, 4, 6>>, <<UsageText("us", dif), UsageText("sy", dif),
                                    UsageText("id", dif)>>))
    BY <1>1, <1>3, <1>7 DEF UsageTick
  <1>9. DOMAIN texts = 1 .. 7
    BY DEF UsageInv
  <1>10. /\ texts'[2] = UsageText("us", dif) /\ texts'[4] = UsageText("sy", dif)
         /\ texts'[6] = UsageText("id", dif)
    BY <1>8, <1>9, UpdateThree
  <1>11. PICK d \in Nat : d = u + y + i
    OBVIOUS
  <1>12. u <= d /\ y <= d /\ i <= d /\ CpuTotal(dif) = d
    BY <1>6, <1>11
  <1>13. /\ IF d = 0 THEN texts'[2].value = NaN
            ELSE 2 * Abs(texts'[2].value * d - 1000 * u) <= d
         /\ IF d = 0 THEN texts'[4].value = NaN
            ELSE 2 * Abs(texts'[4].value * d - 1000 * y) <= d
         /\ IF d = 0 THEN texts'[6].value = NaN
            ELSE 2 * Abs(texts'[6].value * d - 1000 * i) <= d
    BY <1>5, <1>10, <1>12, ShareReads
  <1>14. d = seen'["us"] + seen'["sy"] + seen'["id"]
    BY <1>5, <1>11
  <1> QED  BY <1>5, <1>8, <1>13, <1>14 DEF UsageTrue, Groups

LEMMA UsageStepInv ==
    UsageInv /\ UsageTrue /\ [WidgetNext]_widgetVars => UsageInv' /\ UsageTrue'
  <1> SUFFICES ASSUME UsageInv, UsageTrue, [WidgetNext]_widgetVars
               PROVE  UsageInv' /\ UsageTrue'
    OBVIOUS
  <1>1. CASE row # "usage"
    <2>1. row' = row
      BY RowKept
    <2> QED  BY <1>1, <2>1 DEF UsageInv, UsageTrue
  <1>2. ASSUME row = "usage", UNCHANGED <<row, texts, seen, cpu, stat, gained, steps>>,
               phase' # "undefined" \/ phase' = phase
        PROVE  UsageInv' /\ UsageTrue'
    <2>1. UsageInv'
      BY <1>2 DEF UsageInv
    <2>2. UsageTrue'
      BY <1>2 DEF UsageTrue
    <2> QED  BY <2>1, <2>2
  <1>3. ASSUME row = "usage", NEW s \in CpuSteps, UsageTick(s) PROVE UsageInv' /\ UsageTrue'
    <2>1. /\ steps < MaxSteps /\ steps' = steps + 1 /\ row' = row
          /\ DOMAIN texts' = DOMAIN texts
          /\ stat' = [g \in Groups |-> (stat[g] + s[g]) % Word]
          /\ cpu' = stat' /\ gained' = [g \in Groups |-> 0]
      BY <1>3, UpdateKeeps DEF UsageTick, CpuKeeps
    <2>2. UsageInv'
      BY <1>3, <2>1, UsageKeeps
    <2> QED  BY <1>3, <2>2, UsageShows
  <1>4. ASSUME row = "usage", NEW s \in CpuSteps, UsageUnknown(s) PROVE UsageInv' /\ UsageTrue'
    <2>1. /\ steps < MaxSteps /\ steps' = steps + 1
          /\ UNCHANGED <<row, texts, phase, seen>>
          /\ stat' = [g \in Groups |-> (stat[g] + s[g]) % Word]
          /\ cpu' = cpu /\ gained' = [g \in Groups |-> gained[g] + s[g]]
      BY <1>4 DEF UsageUnknown
    <2>2. UsageInv'
      BY <1>4, <2>1, UsageKeeps
    <2>3. UsageTrue'
      BY <1>4, <2>1 DEF UsageTrue
    <2> QED  BY <2>2, <2>3
  <1>5. ASSUME row = "usage", WidgetNext
        PROVE  \/ /\ UNCHANGED <<row, texts, seen, cpu, stat, gained, steps>>
                  /\ phase' # "undefined" \/ phase' = phase
               \/ \E s \in CpuSteps : UsageTick(s) \/ UsageUnknown(s)
    BY <1>5 DEF WidgetNext, CallbackFails, DateTick, FreqTick, StateTick, UptimeTick, LoadTick,
                TempTick, MemTick, DiskTick, NetTick, DrawOne, DrawAll
  <1>6. CASE UNCHANGED widgetVars
    <2>1. CASE row = "usage"
      BY <1>2, <1>6, <2>1 DEF widgetVars
    <2> QED  BY <1>1, <2>1
  <1> QED  BY <1>1, <1>2, <1>3, <1>4, <1>5, <1>6

\* The shares on the screen are always, to the nearest tenth of a percent,
\* what the groups have gained, though the counters wrap at any modulus and
\* files of an unknown format come in between (tm_cpu_item_usage_update).
THEOREM UsageAlwaysTrue == WidgetSpec => []UsageTrue
  BY UsageInitInv, UsageStepInv, PTL DEF WidgetSpec

-----------------------------------------------------------------------------
(* Rows, areas and origins.                                                *)

LEMMA GeoStepInv == geo \in Geometries /\ [WidgetNext]_widgetVars => (geo \in Geometries)'
  <1>1. ASSUME NEW new, Update(new) PROVE geo' = geo
    BY <1>1 DEF Update
  <1>2. ASSUME NEW n, DateTick(n) \/ FreqTick(n) \/ StateTick(n) PROVE geo' = geo
    BY <1>1, <1>2 DEF DateTick, FreqTick, StateTick
  <1>3. ASSUME NEW u, UptimeTick(u) \/ LoadTick(u) PROVE geo' = geo
    BY <1>1, <1>3 DEF UptimeTick, LoadTick
  <1>4. ASSUME NEW s, UsageTick(s) \/ UsageUnknown(s) PROVE geo' = geo
    BY <1>1, <1>4 DEF UsageTick, UsageUnknown
  <1>5. ASSUME NEW n, TempTick(n) \/ MemTick(n) \/ DiskTick(n) \/ NetTick(n) PROVE geo' = geo
    BY <1>1, <1>5 DEF TempTick, MemTick, DiskTick, NetTick
  <1>6. ASSUME CallbackFails \/ DrawAll \/ \E i \in DOMAIN texts : DrawOne(i) PROVE geo' = geo
    BY <1>6 DEF CallbackFails, DrawAll, DrawOne
  <1> QED  BY <1>2, <1>3, <1>4, <1>5, <1>6 DEF WidgetNext, widgetVars

\* The margin between the rows of a geometry, and the areas, in numbers.
LEMMA MarginIs ==
    ASSUME NEW g \in Geometries
    PROVE  \E m \in Nat : m >= 1 /\ MarginIcon(g) = m /\ Margin(g) = 2 * m /\ m % 2 = 0
  <1>1. g.font \in Nat /\ g.font >= 2
    BY GeometryAssumption
  <1>2. PICK h \in Nat : h = g.font \div 2 /\ h >= 1
    BY <1>1
  <1>3. PICK m \in Nat : m = h + (h % 2) /\ m >= 1 /\ m % 2 = 0
    BY <1>2
  <1>4. Margin(g) = 2 * m
    BY <1>2, <1>3 DEF Margin
  <1>5. (2 * m) \div 2 = m
    BY <1>3
  <1> QED  BY <1>3, <1>4, <1>5 DEF MarginIcon

LEMMA AreaIs ==
    ASSUME NEW g \in Geometries
    PROVE  \A o \in Drawn : AreaHeight(o, g) \in Nat /\ AreaHeight(o, g) % 2 = 0
  <1>1. PICK m \in Nat : MarginIcon(g) = m /\ m % 2 = 0
    BY MarginIs
  <1>2. PICK f \in Nat, i \in Nat, t \in Nat : f = g.font /\ i = g.icon /\ t = g.temps
    BY GeometryAssumption
  <1>3. PICK tf \in Nat : tf = t * f
    OBVIOUS
  <1>4. t * (2 * f) = 2 * tf
    BY <1>3
  <1>5. /\ ClockArea(g) = 2 * i + m + 2 * f /\ CpuArea(g) = 2 * i + m + 2 * tf
        /\ MemArea(g) = 2 * i /\ DiskArea(g) = 2 * i /\ NetArea(g) = 2 * i + m + 4 * f
    BY <1>1, <1>2, <1>4 DEF ClockArea, CpuArea, MemArea, DiskArea, NetArea, BelowIcon, IconHeight, Font
  <1> QED  BY <1>1, <1>5 DEF AreaHeight, Drawn, Clock, Cpu, Mem, Disk, Net
\* Each object begins where the one above it ends, two margins further down.
LEMMA OriginIs ==
    ASSUME NEW g \in Geometries
    PROVE  /\ Origin(Clock, g) \in Nat
           /\ \A o \in Drawn \ {Clock} :
                Origin(o, g) = Origin(o - 1, g) + AreaHeight(o - 1, g) + 2 * MarginIcon(g)
  <1>1. PICK m \in Nat : MarginIcon(g) = m /\ Margin(g) = 2 * m /\ m % 2 = 0
    BY MarginIs
  <1>2. PICK a \in [1 .. 5 -> Nat] : \A o \in 1 .. 5 : a[o] = AreaHeight(o, g) /\ a[o] % 2 = 0
    <2> DEFINE A == [o \in 1 .. 5 |-> AreaHeight(o, g)]
    <2>1. A \in [1 .. 5 -> Nat] /\ \A o \in 1 .. 5 : A[o] = AreaHeight(o, g) /\ A[o] % 2 = 0
      BY AreaIs DEF Drawn, Clock, Net
    <2> HIDE DEF A
    <2> QED  BY <2>1
  <1> DEFINE E == [p \in 1 .. 5 |->
                     CASE p = 1 -> 3 * m
                       [] p = 2 -> 3 * m + a[1] + 2 * m
                       [] p = 3 -> 3 * m + a[1] + a[2] + 4 * m
                       [] p = 4 -> 3 * m + a[1] + a[2] + a[3] + 6 * m
                       [] p = 5 -> 3 * m + a[1] + a[2] + a[3] + a[4] + 8 * m]
             Eq(y, o) == y = [p \in 1 .. o |->
                                IF p = 1 THEN Margin(g) + MarginIcon(g)
                                ELSE y[p - 1] + AreaHeight(p - 1, g) + 2 * MarginIcon(g)]
  <1>3. /\ E[1] = 3 * m
        /\ \A p \in 2 .. 5 : E[p] = E[p - 1] + a[p - 1] + 2 * m
        /\ \A p \in 1 .. 5 : E[p] \in Nat /\ E[p] % 2 = 0
    <2>1. /\ E[1] = 3 * m /\ E[2] = 3 * m + a[1] + 2 * m /\ E[3] = 3 * m + a[1] + a[2] + 4 * m
          /\ E[4] = 3 * m + a[1] + a[2] + a[3] + 6 * m
          /\ E[5] = 3 * m + a[1] + a[2] + a[3] + a[4] + 8 * m
      OBVIOUS
    <2>2. PICK b \in Nat, c \in Nat, d \in Nat, e \in Nat : b = a[1] /\ c = a[2] /\ d = a[3] /\ e = a[4]
                 /\ b % 2 = 0 /\ c % 2 = 0 /\ d % 2 = 0 /\ e % 2 = 0
      BY <1>2
    <2> HIDE DEF E
    <2>3. \A p \in 2 .. 5 : p = 2 \/ p = 3 \/ p = 4 \/ p = 5
      OBVIOUS
    <2>4. \A p \in 2 .. 5 : E[p] = E[p - 1] + a[p - 1] + 2 * m
      BY <2>1, <2>2, <2>3
    <2>5. \A p \in 1 .. 5 : p = 1 \/ p = 2 \/ p = 3 \/ p = 4 \/ p = 5
      OBVIOUS
    <2>6. \A p \in 1 .. 5 : E[p] \in Nat
      BY <2>1, <2>2, <2>5
    <2>7. E[1] % 2 = 0 /\ E[2] % 2 = 0 /\ E[3] % 2 = 0
      BY <1>1, <2>1, <2>2
    <2>8. E[4] % 2 = 0 /\ E[5] % 2 = 0
      BY <1>1, <2>1, <2>2
    <2> QED  BY <2>1, <2>4, <2>5, <2>6, <2>7, <2>8
  <1> HIDE DEF E
  <1>4. ASSUME NEW o \in 1 .. 5
        PROVE  Origin(o, g) = E[o]
    <2>1. Eq([p \in 1 .. o |-> E[p]], o)
      <3> DEFINE f == [p \in 1 .. o |-> E[p]]
      <3>1. ASSUME NEW p \in 1 .. o
            PROVE  E[p] = IF p = 1 THEN Margin(g) + MarginIcon(g)
                          ELSE f[p - 1] + AreaHeight(p - 1, g) + 2 * MarginIcon(g)
        <4>1. CASE p = 1
          BY <1>1, <1>3, <4>1
        <4>2. CASE p # 1
          <5>1. p - 1 \in 1 .. o /\ p - 1 \in 1 .. 5 /\ p \in 2 .. 5
            BY <4>2
          <5>2. f[p - 1] = E[p - 1] /\ a[p - 1] = AreaHeight(p - 1, g)
            BY <1>2, <5>1
          <5> HIDE DEF f
          <5> QED  BY <1>1, <1>3, <4>2, <5>1, <5>2
        <4> QED  BY <4>1, <4>2
      <3> HIDE DEF f
      <3>2. [p \in 1 .. o |-> E[p]]
              = [p \in 1 .. o |-> IF p = 1 THEN Margin(g) + MarginIcon(g)
                                  ELSE f[p - 1] + AreaHeight(p - 1, g) + 2 * MarginIcon(g)]
        BY <3>1, Zenon
      <3> QED  BY <3>2, Zenon DEF f
    <2>2. PICK y : Eq(y, o) /\ Origin(o, g) = 2 * (y[o] \div 2)
      <3> DEFINE Y == CHOOSE y : Eq(y, o)
      <3>1. Eq(Y, o)
        BY <2>1, Zenon
      <3>2. Origin(o, g) = 2 * (Y[o] \div 2)
        BY Zenon DEF Origin, Clock
      <3> HIDE DEF Y, Eq
      <3> QED  BY <3>1, <3>2
    <2>3. \A p \in 1 .. o : y[p] = IF p = 1 THEN Margin(g) + MarginIcon(g)
                                   ELSE y[p - 1] + AreaHeight(p - 1, g) + 2 * MarginIcon(g)
      BY <2>2, Zenon
    <2> HIDE DEF Eq
    <2>4. y[1] = E[1]
      BY <1>1, <1>3, <2>3
    <2>5. ASSUME NEW p \in 2 .. o, y[p - 1] = E[p - 1]
          PROVE  y[p] = E[p]
      BY <1>1, <1>2, <1>3, <2>3, <2>5
    <2>6. o >= 2 => y[2] = E[2]
      BY <2>4, <2>5
    <2>7. o >= 3 => y[3] = E[3]
      BY <2>5, <2>6
    <2>8. o >= 4 => y[4] = E[4]
      BY <2>5, <2>7
    <2>9. o >= 5 => y[5] = E[5]
      BY <2>5, <2>8
    <2>10. o = 1 \/ o = 2 \/ o = 3 \/ o = 4 \/ o = 5
      OBVIOUS
    <2>11. y[o] = E[o]
      BY <2>4, <2>6, <2>7, <2>8, <2>9, <2>10
    <2>12. ASSUME NEW n \in Nat, n % 2 = 0 PROVE 2 * (n \div 2) = n
      BY <2>12
    <2> QED  BY <1>3, <2>2, <2>11, <2>12
  <1> QED  BY <1>1, <1>2, <1>3, <1>4 DEF Drawn, Clock, Net

\* The rows of an object are one below the other inside its area.
LEMMA RowsInside ==
    ASSUME NEW g \in Geometries, g.icon >= 2 * g.font, NEW o \in Drawn, NEW y \in RowTops(o, g)
    PROVE  /\ 0 <= y /\ y + Font(g) <= AreaHeight(o, g)
           /\ \A z \in RowTops(o, g) : y < z => y + Font(g) <= z
  <1>1. PICK m \in Nat : MarginIcon(g) = m
    BY MarginIs
  <1>2. PICK f \in Nat, i \in Nat, t \in Nat : f = g.font /\ i = g.icon /\ t = g.temps /\ i >= 2 * f
    BY GeometryAssumption
  <1>3. /\ Font(g) = 2 * f /\ IconRows(g) = {i - 2 * f, i} /\ BelowIcon(g) = 2 * i + m
        /\ IconHeight(g) = 2 * i
    BY <1>1, <1>2 DEF Font, IconRows, BelowIcon, IconHeight
  <1>4. CASE o = Cpu
    <2>1. PICK C : C = {2 * i + m + n * (2 * f) : n \in 0 .. t - 1}
      OBVIOUS
    <2>2. RowTops(o, g) = {i - 2 * f, i} \cup C
      BY <1>2, <1>3, <1>4, <2>1 DEF RowTops, Clock, Cpu, Mem, Disk, Net
    <2>3. AreaHeight(o, g) = 2 * i + m + t * (2 * f)
      BY <1>2, <1>3, <1>4 DEF AreaHeight, CpuArea, Clock, Cpu, Mem, Disk, Net
    <2>4. t * (2 * f) \in Nat
      OBVIOUS
    <2>5. ASSUME NEW n \in 0 .. t - 1, NEW k \in Int, k > n
          PROVE  n * (2 * f) + 2 * f <= k * (2 * f)
      <3>1. (k - n - 1) * (2 * f) >= 0
        BY <2>5
      <3>2. k * (2 * f) = n * (2 * f) + 2 * f + (k - n - 1) * (2 * f)
        OBVIOUS
      <3> QED  BY <3>1, <3>2
    <2>6. ASSUME NEW n \in 0 .. t - 1 PROVE n * (2 * f) \in Nat
      OBVIOUS
    <2>7. ASSUME NEW z \in C
          PROVE  /\ z >= 2 * i + m /\ z \in Int /\ z + 2 * f <= 2 * i + m + t * (2 * f)
                 /\ \A x \in C : z < x => z + 2 * f <= x
      <3>1. PICK n \in 0 .. t - 1 : z = 2 * i + m + n * (2 * f)
        BY <2>1
      <3>2. n * (2 * f) + 2 * f <= t * (2 * f)
        BY <2>5
      <3>3. ASSUME NEW x \in C, z < x PROVE z + 2 * f <= x
        <4>1. PICK k \in 0 .. t - 1 : x = 2 * i + m + k * (2 * f)
          BY <2>1
        <4>2. CASE k > n
          <5>1. n * (2 * f) + 2 * f <= k * (2 * f)
            BY <2>5, <4>2
          <5> QED  BY <2>6, <3>1, <4>1, <5>1
        <4>3. CASE k <= n
          <5>1. (n - k) * (2 * f) >= 0
            BY <4>3
          <5>2. n * (2 * f) = k * (2 * f) + (n - k) * (2 * f)
            OBVIOUS
          <5> QED  BY <2>6, <3>1, <3>3, <4>1, <5>1, <5>2
        <4> QED  BY <4>2, <4>3
      <3> QED  BY <2>4, <2>6, <3>1, <3>2, <3>3
    <2> QED  BY <1>2, <1>3, <2>2, <2>3, <2>4, <2>7
  <1>5. CASE o # Cpu
    <2>1. \/ o = Clock /\ RowTops(o, g) = {i - 2 * f, i, 2 * i + m} /\ AreaHeight(o, g) = 2 * i + m + 2 * f
          \/ o = Mem /\ RowTops(o, g) = {i - 2 * f, i} /\ AreaHeight(o, g) = 2 * i
          \/ o = Disk /\ RowTops(o, g) = {i - 2 * f} /\ AreaHeight(o, g) = 2 * i
          \/ o = Net /\ RowTops(o, g) = {i - 2 * f, i, 2 * i + m, 2 * i + m + 2 * f}
                     /\ AreaHeight(o, g) = 2 * i + m + 4 * f
      BY <1>2, <1>3, <1>5 DEF RowTops, AreaHeight, ClockArea, MemArea, DiskArea, NetArea, Drawn,
           Clock, Cpu, Mem, Disk, Net
    <2> QED  BY <1>2, <1>3, <2>1
  <1> QED  BY <1>4, <1>5

\* No two rows, areas or lines of the window ever touch, for any font of at
\* least two pixels, any icons that are twice as high and any number of
\* temperatures (tm_generate_object_origin and the get_area of the widgets).
THEOREM AreasAlwaysDisjoint == WidgetSpec => []AreasDisjoint
  <1>1. WidgetInit => geo \in Geometries
    BY DEF WidgetInit
  <1>2. geo \in Geometries => AreasDisjoint
    <2> SUFFICES ASSUME geo \in Geometries, geo.icon >= 2 * geo.font
                 PROVE  AreasDisjoint
      BY DEF AreasDisjoint
    <2>1. ASSUME NEW o \in Drawn, NEW y \in RowTops(o, geo)
          PROVE  /\ 0 <= y /\ y + Font(geo) <= AreaHeight(o, geo)
                 /\ \A z \in RowTops(o, geo) : y < z => y + Font(geo) <= z
      BY RowsInside
    <2>2. PICK m \in Nat : m >= 1 /\ MarginIcon(geo) = m
      BY MarginIs
    <2>3. \A o \in Drawn : Origin(o, geo) \in Nat /\ AreaHeight(o, geo) \in Nat
      <3>1. \A o \in Drawn : AreaHeight(o, geo) \in Nat
        BY AreaIs
      <3>2. ASSUME NEW o \in Drawn \ {Clock}, Origin(o - 1, geo) \in Nat
            PROVE  Origin(o, geo) \in Nat
        <4>1. o - 1 \in Drawn
          BY DEF Drawn, Clock, Net
        <4> QED  BY <2>2, <3>1, <3>2, <4>1, OriginIs
      <3>3. Origin(1, geo) \in Nat
        BY OriginIs DEF Clock
      <3>4. Origin(2, geo) \in Nat
        BY <3>2, <3>3 DEF Drawn, Clock, Net
      <3>5. Origin(3, geo) \in Nat
        BY <3>2, <3>4 DEF Drawn, Clock, Net
      <3>6. Origin(4, geo) \in Nat
        BY <3>2, <3>5 DEF Drawn, Clock, Net
      <3>7. Origin(5, geo) \in Nat
        BY <3>2, <3>6 DEF Drawn, Clock, Net
      <3>8. \A o \in Drawn : o = 1 \/ o = 2 \/ o = 3 \/ o = 4 \/ o = 5
        BY DEF Drawn, Clock, Net
      <3> QED  BY <3>1, <3>3, <3>4, <3>5, <3>6, <3>7, <3>8
    <2>4. ASSUME NEW o \in Drawn \ {Clock}
          PROVE  /\ Origin(o - 1, geo) + AreaHeight(o - 1, geo) < LineAbove(o, geo)
                 /\ LineAbove(o, geo) < Origin(o, geo)
      <3>1. o - 1 \in Drawn
        BY DEF Drawn, Clock, Net
      <3>2. Origin(o, geo) = Origin(o - 1, geo) + AreaHeight(o - 1, geo) + 2 * m
        BY <2>2, OriginIs
      <3> QED  BY <2>2, <2>3, <3>1, <3>2 DEF LineAbove
    <2> QED  BY <2>1, <2>4 DEF AreasDisjoint
  <1> QED  BY <1>1, <1>2, GeoStepInv, PTL DEF WidgetSpec

-----------------------------------------------------------------------------
(* Partial redraws.                                                        *)

IsText(t) == t.digits \in Nat /\ t.dots \in Nat

\* What tm_item_init is given: the text of a fixed item fits it.
GoodItem(x) ==
    /\ x.width \in Nat /\ IsText(x.text)
    /\ IF x.kind = "changeable" THEN x.width = 0 /\ TextWidth(x.text) = 0
                                ELSE TextWidth(x.text) <= x.width

LEMMA TextIs == ASSUME NEW t, IsText(t) PROVE TextWidth(t) \in Nat
  <1>1. PICK a \in Nat, b \in Nat, d \in Nat, e \in Nat :
          a = t.digits /\ b = t.dots /\ d = DigitWidth /\ e = DotWidth
    BY LayoutAssumption DEF IsText
  <1>2. a * d \in Nat /\ b * e \in Nat
    OBVIOUS
  <1> QED  BY <1>1, <1>2 DEF TextWidth

LEMMA ItemsGood ==
    /\ GoodItem(Label(1)) /\ GoodItem(Label(2)) /\ GoodItem(Two) /\ GoodItem(Three)
    /\ GoodItem(Unit) /\ GoodItem(Changeable) /\ GoodItem(RightLabel(1, 2))
    /\ \A x \in {Label(1), Label(2), Two, Three, Unit, RightLabel(1, 2)} : x.kind # "changeable"
  <1>1. PICK d \in Nat, e \in Nat : d = DigitWidth /\ e = DotWidth
    BY LayoutAssumption
  <1>2. TextWidth(NoText) = 0 /\ IsText(NoText)
    BY <1>1 DEF TextWidth, NoText, Text, IsText
  <1>3. ASSUME NEW n \in {1, 2} PROVE TextWidth(Text(n, 0, 0)) = n * d /\ IsText(Text(n, 0, 0))
    BY <1>1 DEF TextWidth, Text, IsText
  <1>4. GoodItem(Label(1)) /\ GoodItem(Label(2))
    BY <1>1, <1>3 DEF GoodItem, Label, Item
  <1>5. GoodItem(Two) /\ GoodItem(Three) /\ GoodItem(Unit) /\ GoodItem(Changeable)
    BY <1>1, <1>2 DEF GoodItem, Two, Three, Unit, Changeable, Item
  <1>6. GoodItem(RightLabel(1, 2))
    BY <1>1, <1>3 DEF GoodItem, RightLabel, Item
  <1>7. \A x \in {Label(1), Label(2), Two, Three, Unit, RightLabel(1, 2)} : x.kind # "changeable"
    BY DEF Label, Two, Three, Unit, RightLabel, Item
  <1> QED  BY <1>4, <1>5, <1>6, <1>7

\* A row has items, all of them good; a changeable one is the last.
LEMMA ItemsAre ==
    ASSUME NEW r \in RowNames
    PROVE  \E n \in Nat \ {0} :
              /\ Len(Items(r)) = n /\ DOMAIN Items(r) = 1 .. n
              /\ \A i \in 1 .. n : GoodItem(Items(r)[i])
              /\ \A i \in 1 .. n : Items(r)[i].kind = "changeable" => i = n
  <1> DEFINE Known == {Label(1), Label(2), Two, Three, Unit, RightLabel(1, 2)}
             Fine(s) == \E n \in Nat \ {0} :
              /\ Len(s) = n /\ DOMAIN s = 1 .. n
              /\ \A i \in 1 .. n : GoodItem(s[i])
              /\ \A i \in 1 .. n : s[i].kind = "changeable" => i = n
  <1>1. \A x \in Known : GoodItem(x) /\ x.kind # "changeable"
    BY ItemsGood
  <1>2. ASSUME NEW n \in Nat \ {0}, NEW s, Len(s) = n, DOMAIN s = 1 .. n, \A i \in 1 .. n : s[i] \in Known
        PROVE  Fine(s)
    <2> HIDE DEF Known
    <2> QED  BY <1>1, <1>2
  <1>3. Fine(<<Changeable>>)
    <2>1. Len(<<Changeable>>) = 1 /\ DOMAIN <<Changeable>> = 1 .. 1
          /\ \A i \in 1 .. 1 : <<Changeable>>[i] = Changeable /\ i = 1
      OBVIOUS
    <2> QED  BY <2>1, ItemsGood
  <1>4. Fine(<<Label(2), Changeable>>)
    <2>1. PICK a, b : a = Label(2) /\ b = Changeable /\ GoodItem(a) /\ GoodItem(b) /\ a.kind # "changeable"
      BY ItemsGood
    <2>2. Len(<<a, b>>) = 2 /\ DOMAIN <<a, b>> = 1 .. 2 /\ <<a, b>>[1] = a /\ <<a, b>>[2] = b
      OBVIOUS
    <2>3. \A i \in 1 .. 2 : i = 1 \/ i = 2
      OBVIOUS
    <2>4. Fine(<<a, b>>)
      BY <2>1, <2>2, <2>3
    <2> QED  BY <2>1, <2>4
  <1>5. PICK l, l2, w, t, u, q : /\ l = Label(1) /\ l2 = Label(2) /\ w = Two /\ t = Three /\ u = Unit
                                 /\ q = RightLabel(1, 2) /\ Known = {l, l2, w, t, u, q}
    OBVIOUS
  <1> HIDE DEF Known, Fine
  <1>6. Fine(<<l, w, l, w, l, w, l>>)
    <2>1. /\ Len(<<l, w, l, w, l, w, l>>) = 7 /\ DOMAIN <<l, w, l, w, l, w, l>> = 1 .. 7
          /\ \A i \in 1 .. 7 : <<l, w, l, w, l, w, l>>[i] \in Known
      BY <1>5
    <2>2. 7 \in Nat \ {0}
      OBVIOUS
    <2> QED  BY <2>1, <2>2, <1>2, Zenon
  <1>7. Fine(<<l, t, l, t, l, t>>)
    <2>1. /\ Len(<<l, t, l, t, l, t>>) = 6 /\ DOMAIN <<l, t, l, t, l, t>> = 1 .. 6
          /\ \A i \in 1 .. 6 : <<l, t, l, t, l, t>>[i] \in Known
      BY <1>5
    <2>2. 6 \in Nat \ {0}
      OBVIOUS
    <2> QED  BY <2>1, <2>2, <1>2, Zenon
  <1>8. Fine(<<l, t, l, t, l, t, l>>)
    <2>1. /\ Len(<<l, t, l, t, l, t, l>>) = 7 /\ DOMAIN <<l, t, l, t, l, t, l>> = 1 .. 7
          /\ \A i \in 1 .. 7 : <<l, t, l, t, l, t, l>>[i] \in Known
      BY <1>5
    <2>2. 7 \in Nat \ {0}
      OBVIOUS
    <2> QED  BY <2>1, <2>2, <1>2, Zenon
  <1>9. Fine(<<l2, w, l>>)
    <2>1. /\ Len(<<l2, w, l>>) = 3 /\ DOMAIN <<l2, w, l>> = 1 .. 3
          /\ \A i \in 1 .. 3 : <<l2, w, l>>[i] \in Known
      BY <1>5
    <2>2. 3 \in Nat \ {0}
      OBVIOUS
    <2> QED  BY <2>1, <2>2, <1>2, Zenon
  <1>10. Fine(<<t, u, l, t, u>>)
    <2>1. /\ Len(<<t, u, l, t, u>>) = 5 /\ DOMAIN <<t, u, l, t, u>> = 1 .. 5
          /\ \A i \in 1 .. 5 : <<t, u, l, t, u>>[i] \in Known
      BY <1>5
    <2>2. 5 \in Nat \ {0}
      OBVIOUS
    <2> QED  BY <2>1, <2>2, <1>2, Zenon
  <1>11. Fine(<<l, t, u, l, t, u>>)
    <2>1. /\ Len(<<l, t, u, l, t, u>>) = 6 /\ DOMAIN <<l, t, u, l, t, u>> = 1 .. 6
          /\ \A i \in 1 .. 6 : <<l, t, u, l, t, u>>[i] \in Known
      BY <1>5
    <2>2. 6 \in Nat \ {0}
      OBVIOUS
    <2> QED  BY <2>1, <2>2, <1>2, Zenon
  <1>12. Fine(<<q, t, u, l, t, u>>)
    <2>1. /\ Len(<<q, t, u, l, t, u>>) = 6 /\ DOMAIN <<q, t, u, l, t, u>> = 1 .. 6
          /\ \A i \in 1 .. 6 : <<q, t, u, l, t, u>>[i] \in Known
      BY <1>5
    <2>2. 6 \in Nat \ {0}
      OBVIOUS
    <2> QED  BY <2>1, <2>2, <1>2, Zenon
  <1>13. \/ Items(r) = <<Changeable>> \/ Items(r) = <<l, w, l, w, l, w, l>>
         \/ Items(r) = <<l, t, l, t, l, t>> \/ Items(r) = <<l, t, l, t, l, t, l>>
         \/ Items(r) = <<l2, w, l>> \/ Items(r) = <<t, u, l, t, u>>
         \/ Items(r) = <<l, t, u, l, t, u>> \/ Items(r) = <<l2, Changeable>>
         \/ Items(r) = <<q, t, u, l, t, u>>
    <2>1. DOMAIN ClockItems = {"date", "uptime", "load"}
      BY DEF ClockItems
    <2>2. r \in {"date", "uptime", "load"} => Items(r) = ClockItems[r]
      BY <2>1 DEF Items
    <2>3. r \in {"date", "uptime", "load"} => \/ Items(r) = <<Changeable>>
            \/ Items(r) = <<l, w, l, w, l, w, l>> \/ Items(r) = <<l, t, l, t, l, t>>
      BY <1>5, <2>2 DEF ClockItems
    <2>4. r = "usage" => Items(r) = UsageItems
      BY <2>1 DEF Items
    <2>5. r = "freq" => Items(r) = FreqItems
      BY <2>1 DEF Items
    <2>6. r = "temp" => Items(r) = TempItems
      BY <2>1 DEF Items
    <2>7. r = "ram" => Items(r) = MemItems
      BY <2>1 DEF Items
    <2>8. r = "disk" => Items(r) = DiskItems
      BY <2>1 DEF Items
    <2>9. r = "state" => Items(r) = StateItems
      BY <2>1 DEF Items
    <2>10. r = "addr" => Items(r) = AddrItems
      BY <2>1 DEF Items
    <2>11. r = "net" => Items(r) = RateItems
      BY <2>1 DEF Items
    <2>12. r \in {"date", "uptime", "load", "usage", "freq", "temp", "ram", "disk", "state", "addr", "net"}
      BY DEF RowNames
    <2> QED
      BY <1>5, <2>3, <2>4, <2>5, <2>6, <2>7, <2>8, <2>9, <2>10, <2>11, <2>12, Zenon
         DEF UsageItems, FreqItems, TempItems, MemItems, DiskItems, StateItems, AddrItems, RateItems
  <1>14. Fine(Items(r))
    BY <1>3, <1>4, <1>5, <1>6, <1>7, <1>8, <1>9, <1>10, <1>11, <1>12, <1>13, Zenon
  <1> QED  BY <1>14 DEF Fine

\* Widths add up.
LEMMA RunningSum ==
    ASSUME NEW n \in Nat, NEW w \in [1 .. n -> Nat]
    PROVE  \E X \in [1 .. n -> Nat] :
              \A j \in 1 .. n : X[j] = IF j = 1 THEN 0 ELSE X[j - 1] + w[j - 1]
  <1> DEFINE Sums(k) == {X \in [1 .. k -> Nat] :
                           \A j \in 1 .. k : X[j] = IF j = 1 THEN 0 ELSE X[j - 1] + w[j - 1]}
             Has == {k \in Nat : k <= n => Sums(k) # {}}
  <1>1. 0 \in Has
    <2>1. [j \in 1 .. 0 |-> 0] \in Sums(0)
      OBVIOUS
    <2> QED  BY <2>1
  <1>2. ASSUME NEW k \in Nat, k \in Has
        PROVE  k + 1 \in Has
    <2> SUFFICES ASSUME k + 1 <= n PROVE Sums(k + 1) # {}
      OBVIOUS
    <2>1. PICK X \in [1 .. k -> Nat] : \A j \in 1 .. k : X[j] = IF j = 1 THEN 0 ELSE X[j - 1] + w[j - 1]
      BY <1>2
    <2> DEFINE Y == [j \in 1 .. k + 1 |-> IF j = 1 THEN 0 ELSE X[j - 1] + w[j - 1]]
    <2>2. \A j \in 1 .. k + 1 : j # 1 => j - 1 \in 1 .. k /\ j - 1 \in 1 .. n
      OBVIOUS
    <2>3. Y \in [1 .. k + 1 -> Nat]
      BY <2>2
    <2>4. \A j \in 1 .. k : Y[j] = X[j]
      BY <2>1
    <2>5. \A j \in 1 .. k + 1 : Y[j] = IF j = 1 THEN 0 ELSE X[j - 1] + w[j - 1]
      OBVIOUS
    <2> HIDE DEF Y
    <2>6. \A j \in 1 .. k + 1 : Y[j] = IF j = 1 THEN 0 ELSE Y[j - 1] + w[j - 1]
      BY <2>2, <2>4, <2>5
    <2> QED  BY <2>3, <2>6
  <1> HIDE DEF Has
  <1>3. n \in Has
    BY <1>1, <1>2, NatSetInduction
  <1> QED  BY <1>3 DEF Has

\* item->x is where the items before it end.
LEMMA LeftIs ==
    ASSUME NEW r \in RowNames, NEW n \in Nat, Len(Items(r)) = n,
           \A i \in 1 .. n : GoodItem(Items(r)[i])
    PROVE  /\ \A i \in 1 .. n : Left(r, i) \in Nat
           /\ \A i \in 1 .. n, k \in 1 .. n :
                i < k => Left(r, i) + Items(r)[i].width <= Left(r, k)
  <1>1. PICK w \in [1 .. n -> Nat] : \A i \in 1 .. n : w[i] = Items(r)[i].width
    <2> DEFINE W == [i \in 1 .. n |-> Items(r)[i].width]
    <2>1. W \in [1 .. n -> Nat] /\ \A i \in 1 .. n : W[i] = Items(r)[i].width
      BY DEF GoodItem
    <2> HIDE DEF W
    <2> QED  BY <2>1
  <1>2. PICK X \in [1 .. n -> Nat] :
              \A j \in 1 .. n : X[j] = IF j = 1 THEN 0 ELSE X[j - 1] + w[j - 1]
    BY RunningSum
  <1> DEFINE Eq(x, i) == x = [j \in 1 .. i |-> IF j = 1 THEN 0 ELSE x[j - 1] + Items(r)[j - 1].width]
  <1>3. ASSUME NEW i \in 1 .. n
        PROVE  Left(r, i) = X[i]
    <2> DEFINE f == [j \in 1 .. i |-> X[j]]
    <2>1. ASSUME NEW j \in 1 .. i
          PROVE  X[j] = IF j = 1 THEN 0 ELSE f[j - 1] + Items(r)[j - 1].width
      <3>1. CASE j = 1
        BY <1>2, <3>1
      <3>2. CASE j # 1
        <4>1. j - 1 \in 1 .. i /\ j - 1 \in 1 .. n
          BY <3>2
        <4>2. f[j - 1] = X[j - 1] /\ w[j - 1] = Items(r)[j - 1].width
          BY <1>1, <4>1
        <4> HIDE DEF f
        <4> QED  BY <1>2, <3>2, <4>2
      <3> QED  BY <3>1, <3>2
    <2> HIDE DEF f
    <2>2. [j \in 1 .. i |-> X[j]]
            = [j \in 1 .. i |-> IF j = 1 THEN 0 ELSE f[j - 1] + Items(r)[j - 1].width]
      BY <2>1, Zenon
    <2>3. Eq(f, i)
      BY <2>2, Zenon DEF f
    <2>4. PICK x : Eq(x, i) /\ Left(r, i) = x[i]
      <3> DEFINE Y == CHOOSE x : Eq(x, i)
      <3>1. Eq(Y, i)
        BY <2>3, Zenon
      <3>2. Left(r, i) = Y[i]
        BY Zenon DEF Left
      <3> HIDE DEF Y, Eq
      <3> QED  BY <3>1, <3>2
    <2>5. \A j \in 1 .. i : x[j] = IF j = 1 THEN 0 ELSE x[j - 1] + Items(r)[j - 1].width
      BY <2>4, Zenon
    <2> HIDE DEF Eq
    <2> DEFINE Same == {j \in Nat : j \in 1 .. i => x[j] = X[j]}
    <2>6. 0 \in Same
      OBVIOUS
    <2>7. ASSUME NEW j \in Nat, j \in Same PROVE j + 1 \in Same
      BY <1>1, <1>2, <2>5, <2>7
    <2> HIDE DEF Same
    <2>8. i \in Same
      <3>1. i \in Nat
        OBVIOUS
      <3> QED  BY <2>6, <2>7, <3>1, NatSetInduction
    <2> QED  BY <2>4, <2>8 DEF Same
  <1>4. ASSUME NEW i \in 1 .. n, NEW k \in 1 .. n, i < k
        PROVE  X[i] + w[i] <= X[k]
    <2> DEFINE Behind == {j \in Nat : i + 1 + j <= n => X[i] + w[i] <= X[i + 1 + j]}
    <2>1. 0 \in Behind
      BY <1>2
    <2>2. ASSUME NEW j \in Nat, j \in Behind PROVE j + 1 \in Behind
      <3> SUFFICES ASSUME i + 1 + (j + 1) <= n PROVE X[i] + w[i] <= X[i + 1 + (j + 1)]
        OBVIOUS
      <3>1. i + 1 + j \in 1 .. n /\ i + 1 + (j + 1) \in 1 .. n /\ i + 1 + (j + 1) - 1 = i + 1 + j
        OBVIOUS
      <3>2. X[i + 1 + (j + 1)] = X[i + 1 + j] + w[i + 1 + j]
        BY <1>2, <3>1
      <3>3. X[i] + w[i] <= X[i + 1 + j]
        BY <2>2, <3>1
      <3>4. X[i] \in Nat /\ w[i] \in Nat /\ X[i + 1 + j] \in Nat /\ w[i + 1 + j] \in Nat
        BY <3>1
      <3> QED  BY <3>2, <3>3, <3>4
    <2> HIDE DEF Behind
    <2>3. k - i - 1 \in Behind
      <3>1. k - i - 1 \in Nat
        BY <1>4
      <3> QED  BY <2>1, <2>2, <3>1, NatSetInduction
    <2>4. i + 1 + (k - i - 1) = k
      OBVIOUS
    <2> QED  BY <2>3, <2>4 DEF Behind
  <1> QED  BY <1>1, <1>2, <1>3, <1>4

\* The cells of a row that belong to an item, and what they show of a text.
Reach(r, i) ==
    IF Items(r)[i].kind = "changeable" THEN Left(r, i) .. RowWidth - SideIcon - 1
    ELSE Left(r, i) .. Left(r, i) + Items(r)[i].width - 1

CellOf(r, i, t, c) ==
    IF c \in TextLeft(r, i, t) .. TextLeft(r, i, t) + TextWidth(t) - 1 THEN <<i, t>> ELSE Blank

Fits(r, i, t) ==
    IF Items(r)[i].kind = "changeable"
    THEN TextWidth(t) = 0 \/ Left(r, i) + TextWidth(t) <= RowWidth - SideIcon
    ELSE TextWidth(t) <= Items(r)[i].width

WidthFits(r, i, width) ==
    /\ width \in Nat
    /\ IF Items(r)[i].kind = "changeable"
       THEN width = 0 \/ Left(r, i) + width <= RowWidth - SideIcon
       ELSE width = Items(r)[i].width

LEMMA ReachesApart ==
    ASSUME NEW r \in RowNames, NEW n \in Nat, Len(Items(r)) = n,
           \A i \in 1 .. n : GoodItem(Items(r)[i]),
           \A i \in 1 .. n : Items(r)[i].kind = "changeable" => i = n,
           NEW i \in 1 .. n, NEW k \in 1 .. n, NEW c \in Reach(r, i), c \in Reach(r, k)
    PROVE  i = k
  <1> SUFFICES ASSUME NEW a \in 1 .. n, NEW b \in 1 .. n, a < b, c \in Reach(r, a), c \in Reach(r, b)
               PROVE  FALSE
    OBVIOUS
  <1>1. Items(r)[a].kind # "changeable"
    OBVIOUS
  <1>2. /\ Left(r, a) \in Nat /\ Left(r, b) \in Nat /\ Left(r, a) + Items(r)[a].width <= Left(r, b)
        /\ Items(r)[a].width \in Nat
    BY LeftIs DEF GoodItem
  <1>3. c \in Int /\ c >= Left(r, b)
    BY <1>2, LayoutAssumption DEF Reach, GoodItem
  <1>4. c <= Left(r, a) + Items(r)[a].width - 1
    BY <1>1, <1>2 DEF Reach
  <1> QED  BY <1>2, <1>3, <1>4

\* A drawing of a text that fits sets the cells of its item and no others.
LEMMA DrawTextIs ==
    ASSUME NEW r \in RowNames, NEW n \in Nat, Len(Items(r)) = n,
           \A i \in 1 .. n : GoodItem(Items(r)[i]),
           NEW i \in 1 .. n, NEW t, IsText(t), Fits(r, i, t), NEW width, WidthFits(r, i, width),
           NEW scr, NEW c \in Cells
    PROVE  LET D == DrawText(r, scr, i, t, width)
           IN  /\ c \notin Reach(r, i) => D[c] = scr[c]
               /\ (c \in Reach(r, i) /\ (Items(r)[i].kind = "changeable" /\ c >= Left(r, i) + width
                                         => scr[c] = Blank))
                    => D[c] = CellOf(r, i, t, c)
  <1>1. PICK x \in Nat, w \in Nat, tw \in Nat, rw \in Nat, si \in Nat :
          x = Left(r, i) /\ w = Items(r)[i].width /\ tw = TextWidth(t) /\ rw = RowWidth /\ si = SideIcon
    BY LeftIs, TextIs, LayoutAssumption DEF GoodItem
  <1>2. c \in Int /\ width \in Nat
    BY LayoutAssumption DEF Cells, WidthFits
  <1>3. PICK dx \in Int : dx = TextLeft(r, i, t) /\ (dx = IF Items(r)[i].kind = "right" THEN x + w - tw ELSE x)
    BY <1>1 DEF TextLeft
  <1>4. DrawText(r, scr, i, t, width)[c]
          = IF c \in dx .. dx + tw - 1 THEN <<i, t>>
            ELSE IF c \in x .. x + width - 1 THEN Blank ELSE scr[c]
    BY <1>1, <1>3 DEF DrawText
  <1>5. CellOf(r, i, t, c) = IF c \in dx .. dx + tw - 1 THEN <<i, t>> ELSE Blank
    BY <1>1, <1>3 DEF CellOf
  <1>6. CASE Items(r)[i].kind = "changeable"
    <2>1. /\ dx = x /\ (tw = 0 \/ x + tw <= rw - si) /\ (width = 0 \/ x + width <= rw - si)
          /\ Reach(r, i) = x .. rw - si - 1
      BY <1>1, <1>3, <1>6 DEF Fits, WidthFits, Reach
    <2>2. c \notin Reach(r, i) => c \notin dx .. dx + tw - 1 /\ c \notin x .. x + width - 1
      BY <1>2, <2>1
    <2>3. c \in Reach(r, i) => c \in x .. x + width - 1 \/ c >= x + width
      BY <1>2, <2>1
    <2> QED  BY <1>1, <1>4, <1>5, <1>6, <2>2, <2>3
  <1>7. CASE Items(r)[i].kind # "changeable"
    <2>1. tw <= w /\ width = w /\ Reach(r, i) = x .. x + w - 1
      BY <1>1, <1>7 DEF Fits, WidthFits, Reach
    <2>2. c \notin Reach(r, i) => c \notin dx .. dx + tw - 1 /\ c \notin x .. x + width - 1
      BY <1>2, <1>3, <2>1
    <2>3. c \in Reach(r, i) => c \in x .. x + width - 1
      BY <2>1
    <2> QED  BY <1>4, <1>5, <2>2, <2>3
  <1> QED  BY <1>6, <1>7
\* What the screen shows when all of a row is drawn.
LEMMA DrawRowIs ==
    ASSUME NEW r \in RowNames, NEW n \in Nat \ {0}, Len(Items(r)) = n,
           \A i \in 1 .. n : GoodItem(Items(r)[i]),
           \A i \in 1 .. n : Items(r)[i].kind = "changeable" => i = n,
           NEW ts, NEW ws,
           \A i \in 1 .. n : IsText(ts[i]) /\ Fits(r, i, ts[i]) /\ WidthFits(r, i, ws[i])
    PROVE  LET D == DrawRow(r, ts, ws)
           IN  /\ D = [c \in Cells |-> D[c]]
               /\ \A c \in Cells : (\A i \in 1 .. n : c \notin Reach(r, i)) => D[c] = Emptied[c]
               /\ \A i \in 1 .. n : \A c \in Cells : c \in Reach(r, i) => D[c] = CellOf(r, i, ts[i], c)
  <1> DEFINE Eq(f, k) == f = [i \in 0 .. k |-> IF i = 0 THEN Emptied
                                               ELSE DrawText(r, f[i - 1], i, ts[i], ws[i])]
             Has == {k \in Nat : \E f : Eq(f, k)}
  <1>1. 0 \in Has
    <2> DEFINE f == [i \in 0 .. 0 |-> Emptied]
    <2>1. \A i \in 0 .. 0 : Emptied = IF i = 0 THEN Emptied ELSE DrawText(r, f[i - 1], i, ts[i], ws[i])
      OBVIOUS
    <2>2. Eq(f, 0)
      BY <2>1, Zenon
    <2> HIDE DEF f, Eq
    <2> QED  BY <2>2
  <1>2. ASSUME NEW k \in Nat, k \in Has
        PROVE  k + 1 \in Has
    <2>1. PICK f : Eq(f, k)
      BY <1>2
    <2> DEFINE g == [i \in 0 .. k + 1 |-> IF i = 0 THEN Emptied
                                          ELSE DrawText(r, f[i - 1], i, ts[i], ws[i])]
    <2>2. ASSUME NEW i \in 0 .. k
          PROVE  g[i] = f[i]
      <3>1. i \in 0 .. k + 1
        OBVIOUS
      <3> QED  BY <2>1, <3>1, Zenon
    <2>3. ASSUME NEW i \in 0 .. k + 1, i # 0
          PROVE  g[i - 1] = f[i - 1]
      <3>1. i - 1 \in 0 .. k
        BY <2>3
      <3> HIDE DEF g
      <3> QED  BY <2>2, <3>1
    <2>4. \A i \in 0 .. k + 1 :
            (IF i = 0 THEN Emptied ELSE DrawText(r, f[i - 1], i, ts[i], ws[i]))
              = (IF i = 0 THEN Emptied ELSE DrawText(r, g[i - 1], i, ts[i], ws[i]))
      <3> HIDE DEF g
      <3> QED  BY <2>3
    <2>5. Eq(g, k + 1)
      BY <2>4, Zenon
    <2> HIDE DEF g, Eq
    <2> QED  BY <2>5
  <1> HIDE DEF Has
  <1>3. n \in Has
    BY <1>1, <1>2, NatSetInduction
  <1>4. PICK d : Eq(d, n) /\ DrawRow(r, ts, ws) = d[n]
    <2> DEFINE Y == CHOOSE f : Eq(f, n)
    <2>1. Eq(Y, n)
      BY <1>3, Zenon DEF Has
    <2>2. DrawRow(r, ts, ws) = Y[n]
      BY Zenon DEF DrawRow
    <2> HIDE DEF Y, Eq
    <2> QED  BY <2>1, <2>2
  <1>5. \A i \in 0 .. n : d[i] = IF i = 0 THEN Emptied ELSE DrawText(r, d[i - 1], i, ts[i], ws[i])
    BY <1>4, Zenon
  <1> HIDE DEF Eq
  <1> DEFINE Right == {k \in Nat : k <= n =>
                /\ \A c \in Cells : (\A i \in 1 .. k : c \notin Reach(r, i)) => d[k][c] = Emptied[c]
                /\ \A i \in 1 .. k : \A c \in Cells : c \in Reach(r, i) => d[k][c] = CellOf(r, i, ts[i], c)}
  <1>6. 0 \in Right
    BY <1>5
  <1>7. ASSUME NEW k \in Nat, k \in Right
        PROVE  k + 1 \in Right
    <2> SUFFICES ASSUME k + 1 <= n, NEW c \in Cells
                 PROVE  /\ (\A i \in 1 .. k + 1 : c \notin Reach(r, i)) => d[k + 1][c] = Emptied[c]
                        /\ \A i \in 1 .. k + 1 : c \in Reach(r, i) => d[k + 1][c] = CellOf(r, i, ts[i], c)
      OBVIOUS
    <2>1. k + 1 \in 1 .. n /\ k + 1 \in 0 .. n /\ k + 1 # 0 /\ (k + 1) - 1 = k
      OBVIOUS
    <2>2. PICK m \in 1 .. n : m = k + 1
      BY <2>1
    <2>3. d[m] = DrawText(r, d[k], m, ts[m], ws[m])
      BY <1>5, <2>1, <2>2
    <2>4. /\ (\A i \in 1 .. k : c \notin Reach(r, i)) => d[k][c] = Emptied[c]
          /\ \A i \in 1 .. k : c \in Reach(r, i) => d[k][c] = CellOf(r, i, ts[i], c)
      BY <1>7, <2>1
    <2>5. IsText(ts[m]) /\ Fits(r, m, ts[m]) /\ WidthFits(r, m, ws[m])
      OBVIOUS
    <2>6. /\ c \notin Reach(r, m) => d[m][c] = d[k][c]
          /\ (c \in Reach(r, m) /\ (Items(r)[m].kind = "changeable" /\ c >= Left(r, m) + ws[m]
                                      => d[k][c] = Blank))
               => d[m][c] = CellOf(r, m, ts[m], c)
      BY <2>3, <2>5, DrawTextIs
    <2>7. ASSUME c \in Reach(r, m), Items(r)[m].kind = "changeable"
          PROVE  d[k][c] = Blank
      <3>1. \A i \in 1 .. k : c \notin Reach(r, i)
        <4> SUFFICES ASSUME NEW i \in 1 .. k, c \in Reach(r, i) PROVE FALSE
          OBVIOUS
        <4>1. i \in 1 .. n /\ i # m
          BY <2>2
        <4> QED  BY <2>7, <4>1, ReachesApart
      <3>2. c < RowWidth - SideIcon
        <4>1. Left(r, m) \in Nat
          BY LeftIs
        <4>2. PICK rw \in Nat, si \in Nat, x \in Nat : rw = RowWidth /\ si = SideIcon /\ x = Left(r, m)
          BY <4>1, LayoutAssumption
        <4>3. c \in x .. rw - si - 1
          BY <2>7, <4>2 DEF Reach
        <4> QED  BY <4>2, <4>3
      <3> QED  BY <2>4, <3>1, <3>2 DEF Emptied
    <2>8. c \in Reach(r, m) => d[m][c] = CellOf(r, m, ts[m], c)
      BY <2>6, <2>7
    <2>9. ASSUME NEW i \in 1 .. k, c \in Reach(r, i)
          PROVE  d[m][c] = CellOf(r, i, ts[i], c)
      <3>1. i \in 1 .. n /\ i # m
        BY <2>2
      <3>2. c \notin Reach(r, m)
        BY <2>9, <3>1, ReachesApart
      <3> QED  BY <2>4, <2>6, <2>9, <3>2
    <2>10. \A i \in 1 .. k + 1 : i \in 1 .. k \/ i = m
      BY <2>2
    <2> QED  BY <2>2, <2>4, <2>6, <2>8, <2>9, <2>10
  <1> HIDE DEF Right
  <1>8. n \in Right
    BY <1>6, <1>7, NatSetInduction
  <1>9. d[n] = [c \in Cells |-> d[n][c]]
    <2>1. d[n] = DrawText(r, d[n - 1], n, ts[n], ws[n])
      BY <1>5
    <2> QED  BY <2>1 DEF DrawText
  <1> QED  BY <1>4, <1>8, <1>9 DEF Right

\* As long as no text was too wide, the cells of an item that is not on the
\* list show its text, those of a changeable one beyond its last width are
\* empty, and all others are as the icons left them.
Places == 1 .. Len(Items(row))

RowTyped ==
    /\ row \in RowNames
    /\ DOMAIN texts = Places
    /\ widths = [i \in Places |-> widths[i]]
    /\ dirty \subseteq Places
    /\ \A i \in Places : IsText(texts[i])

AllFit == \A i \in Places : Fits(row, i, texts[i]) /\ WidthFits(row, i, widths[i])

CellsOK ==
    /\ screen = [c \in Cells |-> screen[c]]
    /\ \A c \in Cells : (\A i \in Places : c \notin Reach(row, i)) => screen[c] = Emptied[c]
    /\ \A i \in Places : \A c \in Cells : c \in Reach(row, i) =>
          /\ i \notin dirty => screen[c] = CellOf(row, i, texts[i], c)
          /\ Items(row)[i].kind = "changeable" /\ c >= Left(row, i) + widths[i] => screen[c] = Blank

RowInv == RowTyped /\ (~wide => AllFit /\ (drawn => CellsOK))

LEMMA RowInitInv == WidgetInit => RowInv
  <1> SUFFICES ASSUME WidgetInit PROVE RowInv
    OBVIOUS
  <1>1. row \in RowNames
    BY DEF WidgetInit
  <1>2. PICK n \in Nat \ {0} :
          /\ Len(Items(row)) = n /\ DOMAIN Items(row) = 1 .. n
          /\ \A i \in 1 .. n : GoodItem(Items(row)[i])
    BY <1>1, ItemsAre
  <1>3. /\ texts = [i \in 1 .. n |-> Items(row)[i].text]
        /\ widths = [i \in 1 .. n |-> Items(row)[i].width]
        /\ dirty = {} /\ screen = Emptied /\ drawn = FALSE
    BY <1>2 DEF WidgetInit
  <1>5. RowTyped
    BY <1>1, <1>2, <1>3 DEF RowTyped, Places, GoodItem
  <1>6. AllFit
    BY <1>2, <1>3 DEF AllFit, Places, GoodItem, Fits, WidthFits
  <1> QED  BY <1>3, <1>5, <1>6 DEF RowInv

\* The texts are texts.
LEMMA AtIs ==
    ASSUME NEW places, NEW new, NEW i \in DOMAIN At(places, new)
    PROVE  \E n \in DOMAIN places : At(places, new)[i] = new[n]
  <1>1. \E n \in DOMAIN places : places[n] = i
    BY DEF At
  <1> QED  BY <1>1 DEF At

LEMMA MadeOfIs == \A n \in Nat : \A m \in Nat : \A v : IsText(Text(n, m, v))
  BY DEF IsText, Text

LEMMA DecimalIs == ASSUME NEW n PROVE IsText(Decimal(n))
  <1>1. PICK S \in SUBSET Tens : Decimal(n) = Text((IF n < 0 THEN 2 ELSE 1) + Cardinality(S), 0, n)
    <2> DEFINE S == {p \in Tens : p <= (IF n < 0 THEN -n ELSE n)}
    <2>1. S \in SUBSET Tens
      OBVIOUS
    <2>2. Decimal(n) = Text((IF n < 0 THEN 2 ELSE 1) + Cardinality(S), 0, n)
      BY Zenon DEF Decimal
    <2> HIDE DEF S
    <2> QED  BY <2>1, <2>2
  <1>2. Cardinality(S) \in Nat
    <2>1. PICK a \in Int, b \in Int : a = 10 /\ b = 100000000
      BY SMT
    <2>2. IsFiniteSet(Tens)
      <3>1. IsFiniteSet(a .. b)
        BY FS_Interval
      <3>2. Tens \subseteq a .. b
        <4> SUFFICES ASSUME NEW p \in Tens PROVE p \in a .. b
          OBVIOUS
        <4>1. p \in Int /\ a <= p /\ p <= b
          BY <2>1, SMT DEF Tens
        <4> QED  BY <4>1
      <3> QED  BY <3>1, <3>2, FS_Subset
    <2>3. IsFiniteSet(S)
      BY <2>2, FS_Subset
    <2> QED  BY <2>3, FS_CardinalityType
  <1>3. (IF n < 0 THEN 2 ELSE 1) + Cardinality(S) \in Nat
    BY <1>2
  <1> QED  BY <1>1, <1>3, MadeOfIs

LEMMA FourCharsIs == ASSUME NEW h PROVE IsText(FourChars(h))
  BY MadeOfIs DEF FourChars

LEMMA AmountTextIs == ASSUME NEW n, NEW d, NEW base PROVE IsText(AmountText(n, d, base))
  BY FourCharsIs DEF AmountText

LEMMA UnitTextIs == ASSUME NEW n, NEW d, NEW base PROVE IsText(UnitText(n, d, base))
  BY MadeOfIs DEF UnitText

LEMMA UsageTextIs == ASSUME NEW g, NEW dif PROVE IsText(UsageText(g, dif))
  BY MadeOfIs DEF UsageText

LEMMA NewTexts ==
    ASSUME NEW places, NEW new, \A n \in DOMAIN places : IsText(new[n])
    PROVE  \A i \in DOMAIN At(places, new) : IsText(At(places, new)[i])
  BY AtIs

\* What a step does to a row.
LEMMA StepKinds ==
    ASSUME WidgetNext
    PROVE  \/ UNCHANGED <<row, texts, widths, dirty, screen, drawn, wide>>
           \/ \E new : Update(new) /\ \A i \in DOMAIN new : IsText(new[i])
           \/ \E i \in DOMAIN texts : DrawOne(i)
           \/ DrawAll
  <1> DEFINE Good == \E new : Update(new) /\ \A i \in DOMAIN new : IsText(new[i])
             Same == UNCHANGED <<row, texts, widths, dirty, screen, drawn, wide>>
  <1>1. ASSUME NEW a, IsText(a), NEW p, Update(At(<<p>>, <<a>>)) PROVE Good
    <2>1. \A n \in DOMAIN <<p>> : IsText(<<a>>[n])
      BY <1>1
    <2> QED  BY <1>1, <2>1, NewTexts, Zenon
  <1>2. ASSUME NEW a, NEW b, NEW c, IsText(a), IsText(b), IsText(c),
               Update(At(<<2, 4, 6>>, <<a, b, c>>))
        PROVE  Good
    <2>1. \A n \in DOMAIN <<2, 4, 6>> : IsText(<<a, b, c>>[n])
      BY <1>2
    <2> QED  BY <1>2, <2>1, NewTexts, Zenon
  <1>3. ASSUME NEW places, DOMAIN places = 1 .. 4, NEW a, NEW b, NEW c, NEW d,
               IsText(a), IsText(b), IsText(c), IsText(d), Update(At(places, <<a, b, c, d>>))
        PROVE  Good
    <2>1. \A n \in 1 .. 4 : IsText(<<a, b, c, d>>[n])
      BY <1>3
    <2> QED  BY <1>3, <2>1, NewTexts, Zenon
  <1> HIDE DEF Good
  <1>4. ASSUME NEW m \in Lengths, DateTick(m) \/ FreqTick(m) \/ StateTick(m) PROVE Good
    <2>1. IsText(Text(m, 0, 0)) /\ IsText(NoText)
      BY LengthAssumption, MadeOfIs DEF NoText
    <2>2. \E a, p : IsText(a) /\ Update(At(<<p>>, <<a>>))
      BY <1>4, <2>1, Zenon DEF DateTick, FreqTick, StateTick
    <2> QED  BY <1>1, <2>2
  <1>5. ASSUME NEW u, UptimeTick(u) PROVE Good
    BY <1>2, <1>5, DecimalIs, Zenon DEF UptimeTick
  <1>6. ASSUME NEW l, LoadTick(l) PROVE Good
    <2>1. \A n \in DOMAIN <<2, 4, 6>> : IsText([k \in 1 .. 3 |-> LoadText(l[k])][n])
      BY FourCharsIs DEF LoadText
    <2>2. Update(At(<<2, 4, 6>>, [k \in 1 .. 3 |-> LoadText(l[k])]))
      BY <1>6, Zenon DEF LoadTick
    <2> QED  BY <2>1, <2>2, NewTexts, Zenon DEF Good
  <1>7. ASSUME NEW s, UsageTick(s) \/ UsageUnknown(s) PROVE Good \/ Same
    <2>1. CASE UsageUnknown(s)
      BY <2>1, Zenon DEF UsageUnknown
    <2>2. CASE UsageTick(s)
      <3>1. \/ Same
            \/ Update(At(<<2, 4, 6>>, <<UsageText("us", CpuDif(cpu, stat')),
                                        UsageText("sy", CpuDif(cpu, stat')),
                                        UsageText("id", CpuDif(cpu, stat'))>>))
        BY <2>2, Zenon DEF UsageTick
      <3> QED  BY <1>2, <3>1, UsageTextIs, Zenon
    <2> QED  BY <1>7, <2>1, <2>2
  <1>8. ASSUME NEW m, TempTick(m) PROVE Good
    BY <1>1, <1>8, DecimalIs, Zenon DEF TempTick
  <1>9. ASSUME NEW places, DOMAIN places = 1 .. 4, NEW n, NEW d, NEW m, NEW e, NEW b,
               Update(At(places, <<AmountText(n, d, b), UnitText(n, d, b),
                                   AmountText(m, e, b), UnitText(m, e, b)>>))
        PROVE  Good
    BY <1>3, <1>9, AmountTextIs, UnitTextIs
  <1>10. ASSUME NEW lines, MemTick(lines) PROVE Good
    <2>1. PICK places : places = <<1, 2, 4, 5>>
      OBVIOUS
    <2>a. PICK n : n = Kilo(MemUsed(lines))
      OBVIOUS
    <2>b. PICK m : m = Kilo(MemTotal(lines))
      OBVIOUS
    <2>c. PICK d, b : d = 1 /\ b = 1024
      OBVIOUS
    <2>2. Update(At(places, <<AmountText(n, d, b), UnitText(n, d, b),
                              AmountText(m, d, b), UnitText(m, d, b)>>))
      BY <1>10, <2>1, <2>a, <2>b, <2>c DEF MemTick
    <2>3. DOMAIN places = 1 .. 4
      BY <2>1
    <2> QED  BY <1>9, <2>2, <2>3, Zenon
  <1>11. ASSUME NEW fs, DiskTick(fs) PROVE Good
    <2>1. PICK places : places = <<2, 3, 5, 6>>
      OBVIOUS
    <2>a. PICK n : n = DiskUsed(fs)
      OBVIOUS
    <2>b. PICK m : m = DiskTotal(fs)
      OBVIOUS
    <2>c. PICK d, b : d = 1 /\ b = 1024
      OBVIOUS
    <2>2. Update(At(places, <<AmountText(n, d, b), UnitText(n, d, b),
                              AmountText(m, d, b), UnitText(m, d, b)>>))
      BY <1>11, <2>1, <2>a, <2>b, <2>c DEF DiskTick
    <2>3. DOMAIN places = 1 .. 4
      BY <2>1
    <2> QED  BY <1>9, <2>2, <2>3, Zenon
  <1>12. ASSUME NEW m, NetTick(m) PROVE Good
    <2>1. PICK places : places = <<2, 3, 5, 6>>
      OBVIOUS
    <2>a. PICK a, b : a = RateText(m[1], Interval) /\ b = UnitText(8000 * m[1], Interval, 1000)
      OBVIOUS
    <2>b. PICK c, d : c = AmountText(m[2], 1, 1000) /\ d = UnitText(m[2], 1, 1000)
      OBVIOUS
    <2>2. Update(At(places, <<a, b, c, d>>))
      BY <1>12, <2>1, <2>a, <2>b DEF NetTick
    <2>3. DOMAIN places = 1 .. 4
      BY <2>1
    <2>4. IsText(a) /\ IsText(b) /\ IsText(c) /\ IsText(d)
      BY <2>a, <2>b, AmountTextIs, UnitTextIs DEF RateText
    <2> QED  BY <1>3, <2>2, <2>3, <2>4, Zenon
  <1>13. CallbackFails => Same
    BY Zenon DEF CallbackFails
  <1> HIDE DEF Same
  <1>14. Good \/ Same \/ DrawAll \/ \E i \in DOMAIN texts : DrawOne(i)
    BY <1>4, <1>5, <1>6, <1>7, <1>8, <1>9, <1>10, <1>11, <1>12, <1>13, Zenon DEF WidgetNext
  <1> QED  BY <1>14, Zenon DEF Good, Same

\* What the invariant says, with the number of items at hand.
LEMMA RowKnown ==
    ASSUME RowTyped
    PROVE  \E n \in Nat \ {0} :
              /\ Places = 1 .. n /\ Len(Items(row)) = n
              /\ \A i \in 1 .. n : GoodItem(Items(row)[i])
              /\ \A i \in 1 .. n : Items(row)[i].kind = "changeable" => i = n
  BY ItemsAre DEF RowTyped, Places

LEMMA UpdateRow ==
    ASSUME RowInv, NEW new, Update(new), \A i \in DOMAIN new : IsText(new[i])
    PROVE  RowInv'
  <1>1. RowTyped
    BY DEF RowInv
  <1>2. /\ row' = row /\ widths' = widths /\ screen' = screen /\ drawn' = drawn
        /\ texts' = [i \in Places |-> IF i \in DOMAIN new THEN new[i] ELSE texts[i]]
        /\ dirty' = dirty \cup {i \in Places : texts'[i] # texts[i]}
        /\ wide' = (wide \/ \E i \in Places : TooWide(row, i, texts'[i]))
        /\ Places' = Places
    BY <1>1 DEF Update, RowTyped, Places
  <1>3. \A i \in Places : IsText(texts'[i])
    BY <1>1, <1>2 DEF RowTyped
  <1>4. RowTyped'
    BY <1>1, <1>2, <1>3 DEF RowTyped
  <1>5. SUFFICES ASSUME ~wide' PROVE AllFit' /\ (drawn => CellsOK')
    BY <1>2, <1>4 DEF RowInv
  <1>6. ~wide /\ \A i \in Places : ~TooWide(row, i, texts'[i])
    BY <1>2, <1>5
  <1>7. AllFit'
    <2>1. ASSUME NEW i \in Places PROVE Fits(row, i, texts'[i])
      <3>1. PICK x \in Nat, w \in Nat, tw \in Nat, rw \in Nat, si \in Nat :
               /\ x = Left(row, i) /\ w = Items(row)[i].width /\ tw = TextWidth(texts'[i])
               /\ rw = RowWidth /\ si = SideIcon
        <4>1. Left(row, i) \in Nat /\ Items(row)[i].width \in Nat
          BY <1>1, RowKnown, LeftIs DEF RowTyped, GoodItem
        <4>2. TextWidth(texts'[i]) \in Nat
          BY <1>3, TextIs
        <4> QED  BY <4>1, <4>2, LayoutAssumption
      <3> QED  BY <1>6, <3>1 DEF TooWide, Fits
    <2>2. \A i \in Places : WidthFits(row, i, widths[i])
      BY <1>6 DEF RowInv, AllFit
    <2> QED  BY <1>2, <2>1, <2>2 DEF AllFit
  <1>8. ASSUME drawn PROVE CellsOK'
    <2>1. CellsOK
      BY <1>6, <1>8 DEF RowInv
    <2>2. ASSUME NEW i \in Places, i \notin dirty'
          PROVE  i \notin dirty /\ texts'[i] = texts[i]
      BY <1>2, <2>2
    <2> QED  BY <1>2, <2>1, <2>2 DEF CellsOK
  <1> QED  BY <1>7, <1>8

\* The width a drawing leaves behind.
LEMMA WidthDrawnIs ==
    ASSUME RowTyped, NEW i \in Places, Fits(row, i, texts[i]), WidthFits(row, i, widths[i])
    PROVE  LET w == WidthDrawn(row, i, texts[i], widths[i])
           IN  /\ WidthFits(row, i, w)
               /\ \A c \in Cells : Items(row)[i].kind = "changeable" /\ c >= Left(row, i) + w
                     => CellOf(row, i, texts[i], c) = Blank
  <1>1. TextWidth(texts[i]) \in Nat
    BY TextIs DEF RowTyped
  <1>2. WidthFits(row, i, WidthDrawn(row, i, texts[i], widths[i]))
    BY <1>1 DEF WidthDrawn, WidthFits, Fits
  <1>3. ASSUME NEW c \in Cells, Items(row)[i].kind = "changeable", c >= Left(row, i) + TextWidth(texts[i])
        PROVE  CellOf(row, i, texts[i], c) = Blank
    <2>1. Left(row, i) \in Nat
      BY RowKnown, LeftIs DEF RowTyped
    <2>2. PICK x \in Nat, tw \in Nat : x = Left(row, i) /\ tw = TextWidth(texts[i])
      BY <1>1, <2>1
    <2>3. c \in Int
      BY LayoutAssumption DEF Cells
    <2>4. c \notin x .. x + tw - 1
      BY <1>3, <2>2, <2>3
    <2> QED  BY <1>3, <2>2, <2>4 DEF CellOf, TextLeft
  <1> QED  BY <1>2, <1>3 DEF WidthDrawn

LEMMA DrawOneRow ==
    ASSUME RowInv, NEW m \in DOMAIN texts, DrawOne(m)
    PROVE  RowInv'
  <1>1. RowTyped
    BY DEF RowInv
  <1>2. /\ m \in Places /\ Places' = Places /\ dirty' = dirty \ {m}
        /\ UNCHANGED <<row, texts, wide, drawn>>
        /\ screen' = DrawText(row, screen, m, texts[m], widths[m])
        /\ widths' = [widths EXCEPT ![m] = WidthDrawn(row, m, texts[m], widths[m])]
    BY <1>1 DEF DrawOne, RowTyped, Places
  <1>3. /\ widths' = [i \in Places |-> widths'[i]]
        /\ widths'[m] = WidthDrawn(row, m, texts[m], widths[m])
        /\ \A i \in Places : i # m => widths'[i] = widths[i]
    BY <1>1, <1>2 DEF RowTyped
  <1>4. RowTyped'
    BY <1>1, <1>2, <1>3 DEF RowTyped
  <1>5. SUFFICES ASSUME ~wide PROVE AllFit' /\ (drawn => CellsOK')
    BY <1>2, <1>4 DEF RowInv
  <1>6. AllFit
    BY <1>5 DEF RowInv
  <1>7. /\ WidthFits(row, m, widths'[m])
        /\ \A c \in Cells : Items(row)[m].kind = "changeable" /\ c >= Left(row, m) + widths'[m]
              => CellOf(row, m, texts[m], c) = Blank
    BY <1>1, <1>2, <1>3, <1>6, WidthDrawnIs DEF AllFit
  <1>8. AllFit'
    BY <1>2, <1>3, <1>6, <1>7 DEF AllFit
  <1>9. ASSUME drawn PROVE CellsOK'
    <2>1. CellsOK
      BY <1>5, <1>9 DEF RowInv
    <2>2. PICK n \in Nat \ {0} :
              /\ Places = 1 .. n /\ Len(Items(row)) = n
              /\ \A i \in 1 .. n : GoodItem(Items(row)[i])
              /\ \A i \in 1 .. n : Items(row)[i].kind = "changeable" => i = n
      BY <1>1, RowKnown
    <2>3. row \in RowNames /\ IsText(texts[m])
      BY <1>1, <1>2 DEF RowTyped
    <2>4. ASSUME NEW c \in Cells
          PROVE  /\ c \notin Reach(row, m) => screen'[c] = screen[c]
                 /\ c \in Reach(row, m) => screen'[c] = CellOf(row, m, texts[m], c)
      <3>1. Fits(row, m, texts[m]) /\ WidthFits(row, m, widths[m])
        BY <1>2, <1>6 DEF AllFit
      <3>2. /\ c \notin Reach(row, m) => screen'[c] = screen[c]
            /\ (c \in Reach(row, m) /\ (Items(row)[m].kind = "changeable" /\ c >= Left(row, m) + widths[m]
                                          => screen[c] = Blank))
                 => screen'[c] = CellOf(row, m, texts[m], c)
        BY <1>2, <2>2, <2>3, <3>1, DrawTextIs
      <3>3. c \in Reach(row, m) /\ Items(row)[m].kind = "changeable" /\ c >= Left(row, m) + widths[m]
              => screen[c] = Blank
        BY <1>2, <2>1 DEF CellsOK
      <3> QED  BY <3>2, <3>3
    <2>5. screen' = [c \in Cells |-> screen'[c]]
      BY <1>2 DEF DrawText
    <2>6. ASSUME NEW c \in Cells, \A i \in Places : c \notin Reach(row, i)
          PROVE  screen'[c] = Emptied[c]
      BY <1>2, <2>1, <2>4, <2>6 DEF CellsOK
    <2>7. ASSUME NEW i \in Places, NEW c \in Cells, c \in Reach(row, i)
          PROVE  /\ i \notin dirty' => screen'[c] = CellOf(row, i, texts[i], c)
                 /\ Items(row)[i].kind = "changeable" /\ c >= Left(row, i) + widths'[i] => screen'[c] = Blank
      <3>1. CASE i = m
        BY <1>7, <2>4, <2>7, <3>1
      <3>2. CASE i # m
        <4>1. c \notin Reach(row, m)
          BY <1>2, <2>2, <2>3, <2>7, <3>2, ReachesApart
        <4>2. screen'[c] = screen[c] /\ widths'[i] = widths[i] /\ (i \notin dirty' => i \notin dirty)
          BY <1>2, <1>3, <2>4, <3>2, <4>1
        <4> QED  BY <2>1, <2>7, <4>2 DEF CellsOK
      <3> QED  BY <3>1, <3>2
    <2> QED  BY <1>2, <2>5, <2>6, <2>7 DEF CellsOK
  <1> QED  BY <1>8, <1>9

LEMMA DrawAllRow ==
    ASSUME RowInv, DrawAll
    PROVE  RowInv'
  <1>1. RowTyped
    BY DEF RowInv
  <1>2. /\ Places' = Places /\ dirty' = {}
        /\ UNCHANGED <<row, texts, wide>>
        /\ screen' = DrawRow(row, texts, widths)
        /\ widths' = [i \in Places |-> WidthDrawn(row, i, texts[i], widths[i])]
    BY <1>1 DEF DrawAll, RowTyped, Places
  <1>3. RowTyped'
    BY <1>1, <1>2 DEF RowTyped
  <1>4. SUFFICES ASSUME ~wide PROVE AllFit' /\ CellsOK'
    BY <1>2, <1>3 DEF RowInv
  <1>5. AllFit
    BY <1>4 DEF RowInv
  <1>6. ASSUME NEW i \in Places
        PROVE  /\ WidthFits(row, i, widths'[i])
               /\ \A c \in Cells : Items(row)[i].kind = "changeable" /\ c >= Left(row, i) + widths'[i]
                     => CellOf(row, i, texts[i], c) = Blank
    BY <1>1, <1>2, <1>5, WidthDrawnIs DEF AllFit
  <1>7. AllFit'
    BY <1>2, <1>5, <1>6 DEF AllFit
  <1>8. PICK n \in Nat \ {0} :
            /\ Places = 1 .. n /\ Len(Items(row)) = n
            /\ \A i \in 1 .. n : GoodItem(Items(row)[i])
            /\ \A i \in 1 .. n : Items(row)[i].kind = "changeable" => i = n
    BY <1>1, RowKnown
  <1>9. /\ row \in RowNames
        /\ \A i \in 1 .. n : IsText(texts[i]) /\ Fits(row, i, texts[i]) /\ WidthFits(row, i, widths[i])
    BY <1>1, <1>5, <1>8 DEF RowTyped, AllFit
  <1>10. /\ screen' = [c \in Cells |-> screen'[c]]
         /\ \A c \in Cells : (\A i \in Places : c \notin Reach(row, i)) => screen'[c] = Emptied[c]
         /\ \A i \in Places : \A c \in Cells : c \in Reach(row, i) =>
               screen'[c] = CellOf(row, i, texts[i], c)
    BY <1>2, <1>8, <1>9, DrawRowIs
  <1>11. CellsOK'
    BY <1>2, <1>6, <1>10 DEF CellsOK
  <1> QED  BY <1>7, <1>11

LEMMA RowStepInv == RowInv /\ [WidgetNext]_widgetVars => RowInv'
  <1> SUFFICES ASSUME RowInv, [WidgetNext]_widgetVars PROVE RowInv'
    OBVIOUS
  <1>1. ASSUME UNCHANGED <<row, texts, widths, dirty, screen, drawn, wide>> PROVE RowInv'
    BY <1>1 DEF RowInv, RowTyped, AllFit, CellsOK, Places
  <1>2. CASE UNCHANGED widgetVars
    BY <1>1, <1>2 DEF widgetVars
  <1>3. CASE WidgetNext
    BY <1>1, <1>3, StepKinds, UpdateRow, DrawOneRow, DrawAllRow, Zenon
  <1> QED  BY <1>2, <1>3

\* Drawing only what is on the list always leaves the row as drawing all of
\* it would, unless a text was too wide, for any fonts, widths, numbers and
\* any order of callbacks and drawings (tm_x_draw_text_one).
THEOREM RedrawAlwaysComplete == WidgetSpec => []RedrawComplete
  <1>1. RowInv => RedrawComplete
    <2> SUFFICES ASSUME RowInv, drawn, dirty = {}, ~wide
                 PROVE  screen = DrawRow(row, texts, widths)
      BY DEF RedrawComplete
    <2>1. RowTyped /\ AllFit /\ CellsOK
      BY DEF RowInv
    <2>2. PICK n \in Nat \ {0} :
            /\ Places = 1 .. n /\ Len(Items(row)) = n
            /\ \A i \in 1 .. n : GoodItem(Items(row)[i])
            /\ \A i \in 1 .. n : Items(row)[i].kind = "changeable" => i = n
      BY <2>1, RowKnown
    <2>3. /\ row \in RowNames
          /\ \A i \in 1 .. n : IsText(texts[i]) /\ Fits(row, i, texts[i]) /\ WidthFits(row, i, widths[i])
      BY <2>1, <2>2 DEF RowTyped, AllFit
    <2>4. PICK D : D = DrawRow(row, texts, widths)
      OBVIOUS
    <2>5. /\ D = [c \in Cells |-> D[c]]
          /\ \A c \in Cells : (\A i \in Places : c \notin Reach(row, i)) => D[c] = Emptied[c]
          /\ \A i \in Places : \A c \in Cells : c \in Reach(row, i) => D[c] = CellOf(row, i, texts[i], c)
      BY <2>2, <2>3, <2>4, DrawRowIs
    <2>6. ASSUME NEW c \in Cells PROVE screen[c] = D[c]
      <3>1. CASE \A i \in Places : c \notin Reach(row, i)
        BY <2>1, <2>5, <3>1 DEF CellsOK
      <3>2. ASSUME NEW i \in Places, c \in Reach(row, i) PROVE screen[c] = D[c]
        BY <2>1, <2>5, <3>2 DEF CellsOK
      <3> QED  BY <3>1, <3>2
    <2>7. screen = [c \in Cells |-> screen[c]]
      BY <2>1 DEF CellsOK
    <2> QED  BY <2>4, <2>5, <2>6, <2>7
  <1> QED  BY <1>1, RowInitInv, RowStepInv, PTL DEF WidgetSpec

-----------------------------------------------------------------------------
(***************************************************************************)
(* Amounts.                                                                *)
(***************************************************************************)
\* Every division cuts, but what is left is the amount in the unit, cut once.
LEMMA UnitSteps ==
    ASSUME NEW base \in Nat \ {0}
    PROVE  /\ \A k \in Units : UnitSize(base)[k] = IF k = 0 THEN 1 ELSE base * UnitSize(base)[k - 1]
           /\ \A n : \A k \in Units :
                Divided(n, base)[k] = IF k = 0 THEN n ELSE Divided(n, base)[k - 1] \div base
  <1> DEFINE EqS(f, m) == f = [k \in 0 .. m |-> IF k = 0 THEN 1 ELSE base * f[k - 1]]
             HasS == {m \in Nat : \E f : EqS(f, m)}
  <1>1. 0 \in HasS
    <2> DEFINE f == [k \in 0 .. 0 |-> 1]
    <2>1. \A k \in 0 .. 0 : 1 = IF k = 0 THEN 1 ELSE base * f[k - 1]
      OBVIOUS
    <2>2. EqS(f, 0)
      BY <2>1, Zenon
    <2> HIDE DEF f, EqS
    <2> QED  BY <2>2
  <1>2. ASSUME NEW m \in Nat, m \in HasS PROVE m + 1 \in HasS
    <2>1. PICK f : EqS(f, m)
      BY <1>2
    <2> DEFINE g == [k \in 0 .. m + 1 |-> IF k = 0 THEN 1 ELSE base * f[k - 1]]
    <2>2. ASSUME NEW k \in 0 .. m PROVE g[k] = f[k]
      <3>1. k \in 0 .. m + 1
        OBVIOUS
      <3> QED  BY <2>1, <3>1, Zenon
    <2>3. ASSUME NEW k \in 0 .. m + 1, k # 0 PROVE g[k - 1] = f[k - 1]
      <3>1. k - 1 \in 0 .. m
        BY <2>3
      <3> HIDE DEF g
      <3> QED  BY <2>2, <3>1
    <2>4. \A k \in 0 .. m + 1 : (IF k = 0 THEN 1 ELSE base * f[k - 1])
                                  = (IF k = 0 THEN 1 ELSE base * g[k - 1])
      <3> HIDE DEF g
      <3> QED  BY <2>3
    <2>5. EqS(g, m + 1)
      BY <2>4, Zenon
    <2> HIDE DEF g, EqS
    <2> QED  BY <2>5
  <1> HIDE DEF HasS
  <1>3. 6 \in HasS
    <2>1. PICK six \in Nat : six = 6
      OBVIOUS
    <2>2. six \in HasS
      BY <1>1, <1>2, NatSetInduction
    <2> QED  BY <2>1, <2>2
  <1>4. EqS(UnitSize(base), 6)
    BY <1>3, Zenon DEF UnitSize, HasS, Units
  <1>5. \A k \in Units : UnitSize(base)[k] = IF k = 0 THEN 1 ELSE base * UnitSize(base)[k - 1]
    BY <1>4, Zenon DEF Units
  <1>6. ASSUME NEW n
        PROVE  \A k \in Units : Divided(n, base)[k] = IF k = 0 THEN n ELSE Divided(n, base)[k - 1] \div base
    <2> DEFINE Eq(f, m) == f = [k \in 0 .. m |-> IF k = 0 THEN n ELSE f[k - 1] \div base]
               Has == {m \in Nat : \E f : Eq(f, m)}
    <2>1. 0 \in Has
      <3> DEFINE f == [k \in 0 .. 0 |-> n]
      <3>1. \A k \in 0 .. 0 : n = IF k = 0 THEN n ELSE f[k - 1] \div base
        OBVIOUS
      <3>2. Eq(f, 0)
        BY <3>1, Zenon
      <3> HIDE DEF f, Eq
      <3> QED  BY <3>2
    <2>2. ASSUME NEW m \in Nat, m \in Has PROVE m + 1 \in Has
      <3>1. PICK f : Eq(f, m)
        BY <2>2
      <3> DEFINE g == [k \in 0 .. m + 1 |-> IF k = 0 THEN n ELSE f[k - 1] \div base]
      <3>2. ASSUME NEW k \in 0 .. m PROVE g[k] = f[k]
        <4>1. k \in 0 .. m + 1
          OBVIOUS
        <4> QED  BY <3>1, <4>1, Zenon
      <3>3. ASSUME NEW k \in 0 .. m + 1, k # 0 PROVE g[k - 1] = f[k - 1]
        <4>1. k - 1 \in 0 .. m
          BY <3>3
        <4> HIDE DEF g
        <4> QED  BY <3>2, <4>1
      <3>4. \A k \in 0 .. m + 1 : (IF k = 0 THEN n ELSE f[k - 1] \div base)
                                    = (IF k = 0 THEN n ELSE g[k - 1] \div base)
        <4> HIDE DEF g
        <4> QED  BY <3>3
      <3>5. Eq(g, m + 1)
        BY <3>4, Zenon
      <3> HIDE DEF g, Eq
      <3> QED  BY <3>5
    <2> HIDE DEF Has
    <2>3. 6 \in Has
      <3>1. PICK six \in Nat : six = 6
        OBVIOUS
      <3>2. six \in Has
        BY <2>1, <2>2, NatSetInduction
      <3> QED  BY <3>1, <3>2
    <2>4. Eq(Divided(n, base), 6)
      BY <2>3, Zenon DEF Divided, Has, Units
    <2> QED  BY <2>4, Zenon DEF Units
  <1> QED  BY <1>5, <1>6

LEMMA TimesMonotone ==
    ASSUME NEW a \in Int, NEW b \in Int, NEW u \in Nat, a <= b
    PROVE  a * u <= b * u
  <1>1. PICK c \in Nat : b = a + c
    <2>1. b - a \in Nat /\ b = a + (b - a)
      OBVIOUS
    <2> QED  BY <2>1
  <1>2. b * u = a * u + c * u /\ c * u \in Nat /\ a * u \in Int
    BY <1>1
  <1> QED  BY <1>2

\* Below x units, when it is cut to units.
LEMMA CutBelow ==
    ASSUME NEW n \in Int, NEW q \in Int, NEW u \in Nat, NEW x \in Int,
           q * u <= n, n < (q + 1) * u
    PROVE  q < x <=> n < x * u
  <1>1. CASE q < x
    <2>1. (q + 1) * u <= x * u
      BY <1>1, TimesMonotone
    <2>2. (q + 1) * u \in Int /\ x * u \in Int
      OBVIOUS
    <2> QED  BY <1>1, <2>1, <2>2
  <1>2. CASE x <= q
    <2>1. x * u <= q * u
      BY <1>2, TimesMonotone
    <2>2. q * u \in Int /\ x * u \in Int
      OBVIOUS
    <2> QED  BY <1>2, <2>1, <2>2
  <1> QED  BY <1>1, <1>2

LEMMA DivBelow ==
    ASSUME NEW n \in Nat, NEW u \in Nat \ {0}, NEW x \in Int
    PROVE  n \div u < x <=> n < x * u
  <1>1. PICK q \in Int, r \in Int : q = n \div u /\ r = n % u /\ n = u * q + r /\ 0 <= r /\ r < u
    BY DivMod
  <1>2. q * u = u * q /\ (q + 1) * u = u * q + u
    OBVIOUS
  <1>3. q * u <= n /\ n < (q + 1) * u
    BY <1>1, <1>2
  <1> QED  BY <1>1, <1>3, CutBelow

LEMMA UnitCuts ==
    ASSUME NEW base \in Nat \ {0}, NEW n \in Nat
    PROVE  \A k \in Units : /\ UnitSize(base)[k] \in Nat \ {0} /\ Divided(n, base)[k] \in Nat
                            /\ Divided(n, base)[k] * UnitSize(base)[k] <= n
                            /\ n < (Divided(n, base)[k] + 1) * UnitSize(base)[k]
  <1> DEFINE Cut(k) == /\ UnitSize(base)[k] \in Nat \ {0} /\ Divided(n, base)[k] \in Nat
                       /\ Divided(n, base)[k] * UnitSize(base)[k] <= n
                       /\ n < (Divided(n, base)[k] + 1) * UnitSize(base)[k]
             Fine == {k \in Nat : k <= 6 => Cut(k)}
  <1>1. 0 \in Fine
    <2>1. 0 \in Units
      BY DEF Units
    <2>2. UnitSize(base)[0] = 1 /\ Divided(n, base)[0] = n
      BY <2>1, UnitSteps
    <2> QED  BY <2>2
  <1>2. ASSUME NEW k \in Nat, k \in Fine PROVE k + 1 \in Fine
    <2> SUFFICES ASSUME k + 1 <= 6 PROVE Cut(k + 1)
      OBVIOUS
    <2>1. k \in Units /\ k + 1 \in Units /\ k + 1 # 0 /\ (k + 1) - 1 = k /\ k <= 6
      BY DEF Units
    <2>2. /\ UnitSize(base)[k + 1] = base * UnitSize(base)[k]
          /\ Divided(n, base)[k + 1] = Divided(n, base)[k] \div base
      <3>1. PICK j \in Units : j = k + 1
        BY <2>1
      <3>2. /\ UnitSize(base)[j] = base * UnitSize(base)[j - 1]
            /\ Divided(n, base)[j] = Divided(n, base)[j - 1] \div base
        BY <2>1, <3>1, UnitSteps
      <3> QED  BY <2>1, <3>1, <3>2
    <2>3. Cut(k)
      BY <1>2, <2>1
    <2>4. PICK u \in Nat \ {0}, q \in Nat : u = UnitSize(base)[k] /\ q = Divided(n, base)[k]
      BY <2>3
    <2>5. q * u <= n /\ n < (q + 1) * u
      BY <2>3, <2>4
    <2>6. PICK p \in Int, r \in Int : p = q \div base /\ q = base * p + r /\ 0 <= r /\ r < base
      <3>1. q \in Int /\ base \in Nat \ {0}
        OBVIOUS
      <3> QED  BY <3>1, DivMod
    <2>7. p \in Nat
      <3>1. CASE p <= -1
        <4>1. base * p = base * (p + 1) - base /\ (p + 1) * base <= 0 * base /\ base * (p + 1) = (p + 1) * base
          BY <3>1, TimesMonotone
        <4> QED  BY <2>6, <4>1
      <3> QED  BY <3>1
    <2>8. base * u \in Nat \ {0}
      <3>1. 1 * u <= base * u
        BY TimesMonotone
      <3>2. base * u \in Int
        OBVIOUS
      <3> QED  BY <3>1, <3>2
    <2>9. p * (base * u) <= n
      <3>1. (base * p) * u <= q * u
        BY <2>6, TimesMonotone
      <3>2. (base * p) * u = p * (base * u) /\ (base * p) * u \in Int /\ q * u \in Int
        OBVIOUS
      <3> QED  BY <2>5, <3>1, <3>2
    <2>10. n < (p + 1) * (base * u)
      <3>1. q + 1 <= base * (p + 1)
        <4>1. base * (p + 1) = base * p + base
          OBVIOUS
        <4> QED  BY <2>6, <4>1
      <3>2. (q + 1) * u <= (base * (p + 1)) * u
        BY <3>1, TimesMonotone
      <3>3. (base * (p + 1)) * u = (p + 1) * (base * u) /\ (q + 1) * u \in Int /\ (p + 1) * (base * u) \in Int
        OBVIOUS
      <3> QED  BY <2>5, <3>2, <3>3
    <2> QED  BY <2>2, <2>4, <2>6, <2>7, <2>8, <2>9, <2>10
  <1> HIDE DEF Fine
  <1>3. ASSUME NEW k \in Units PROVE k \in Fine
    <2>1. k \in Nat
      BY DEF Units
    <2> QED  BY <1>1, <1>2, <2>1, NatSetInduction
  <1> QED  BY <1>3 DEF Fine, Units

\* The loop divides once too often never: what is left is below x exactly if
\* the amount is below x of the unit.
LEMMA DividedBelow ==
    ASSUME NEW base \in Nat \ {0}, NEW n \in Nat, NEW k \in Units, NEW x \in Int
    PROVE  /\ Divided(n, base)[k] < x <=> n < x * UnitSize(base)[k]
           /\ n \div UnitSize(base)[k] < x <=> n < x * UnitSize(base)[k]
  <1>1. PICK u \in Nat \ {0}, q \in Nat : /\ u = UnitSize(base)[k] /\ q = Divided(n, base)[k]
                                          /\ q * u <= n /\ n < (q + 1) * u
    BY UnitCuts
  <1>2. q < x <=> n < x * u
    BY <1>1, CutBelow
  <1>3. n \div u < x <=> n < x * u
    BY DivBelow
  <1> QED  BY <1>1, <1>2, <1>3

LEMMA DividedFalls ==
    ASSUME NEW base \in Nat \ {0}, NEW n \in Nat, NEW m \in Units, NEW k \in Units, m <= k
    PROVE  Divided(n, base)[k] <= Divided(n, base)[m]
  <1> DEFINE Falls == {j \in Nat : m + j <= 6 => Divided(n, base)[m + j] <= Divided(n, base)[m]}
  <1>1. m \in Nat /\ k \in Nat /\ k <= 6
    BY DEF Units
  <1>2. 0 \in Falls
    <2>1. Divided(n, base)[m] \in Nat /\ m + 0 = m
      BY <1>1, UnitCuts
    <2> QED  BY <2>1
  <1>3. ASSUME NEW j \in Nat, j \in Falls PROVE j + 1 \in Falls
    <2> SUFFICES ASSUME m + (j + 1) <= 6 PROVE Divided(n, base)[m + (j + 1)] <= Divided(n, base)[m]
      OBVIOUS
    <2>1. PICK i \in Units, h \in Units : i = m + (j + 1) /\ h = m + j /\ i # 0 /\ i - 1 = h /\ h <= 6
      BY <1>1 DEF Units
    <2>2. Divided(n, base)[i] = Divided(n, base)[h] \div base
      BY <2>1, UnitSteps
    <2>3. Divided(n, base)[h] \in Nat /\ Divided(n, base)[m] \in Nat
      BY UnitCuts
    <2>4. Divided(n, base)[h] <= Divided(n, base)[m]
      BY <1>3, <2>1
    <2>5. ASSUME NEW a \in Nat PROVE a \div base <= a
      <3>1. 1 * (a + 1) <= base * (a + 1)
        BY TimesMonotone
      <3>2. a < (a + 1) * base
        <4>1. (a + 1) * base = base * (a + 1) /\ base * (a + 1) \in Int
          OBVIOUS
        <4> QED  BY <3>1, <4>1
      <3>3. a \div base < a + 1
        BY <3>2, DivBelow
      <3>4. a \div base \in Int
        BY DivMod
      <3> QED  BY <3>3, <3>4
    <2>6. Divided(n, base)[i] <= Divided(n, base)[h] /\ Divided(n, base)[i] \in Nat
      BY <2>2, <2>3, <2>5, UnitCuts
    <2> QED  BY <2>1, <2>3, <2>4, <2>6
  <1> HIDE DEF Falls
  <1>4. k - m \in Falls /\ m + (k - m) = k
    <2>1. k - m \in Nat /\ m + (k - m) = k
      BY <1>1
    <2> QED  BY <1>2, <1>3, <2>1, NatSetInduction
  <1> QED  BY <1>1, <1>4 DEF Falls

\* The unit that the loop finds is the one the property asks for.
LEMMA UnitIs ==
    ASSUME NEW base \in Nat \ {0}, NEW n \in Nat, NEW d \in Nat \ {0},
           Divided(n, base)[6] < 1000 * d
    PROVE  /\ UnitOf(n, d, base) \in Units /\ UnitOf(n, d, base) = Whole(n, d, base)
           /\ n < (1000 * d) * UnitSize(base)[UnitOf(n, d, base)]
           /\ \A k \in Units : Divided(n, base)[k] < 1000 * d => UnitOf(n, d, base) <= k
  <1> DEFINE S == {k \in Units : Divided(n, base)[k] < 1000 * d} \cup {7}
             Good(k) == /\ n \div UnitSize(base)[k] < 1000 * d
                        /\ k > 0 => n \div UnitSize(base)[k - 1] >= 1000 * d
  <1>a. PICK x \in Nat : x = 1000 * d
    OBVIOUS
  <1>1. PICK m \in S : m = UnitOf(n, d, base) /\ \A y \in S : m <= y
    <2>1. PICK m \in S : \A y \in S : m <= y
      <3>1. S \in SUBSET Nat /\ S # {}
        BY DEF Units
      <3> HIDE DEF S
      <3> QED  BY <3>1, SmallestOf
    <2> DEFINE M == CHOOSE y \in S : \A z \in S : y <= z
    <2>2. M \in S /\ \A y \in S : M <= y
      <3> HIDE DEF S
      <3> QED  BY <2>1, Zenon
    <2>3. M = UnitOf(n, d, base)
      BY Zenon DEF UnitOf, Min
    <2> HIDE DEF M, S
    <2> QED  BY <2>2, <2>3
  <1>2. 6 \in S
    BY DEF Units
  <1>3. m \in Units /\ Divided(n, base)[m] < x
    BY <1>1, <1>2, <1>a DEF Units
  <1>4. \A k \in Units : n \div UnitSize(base)[k] < x <=> Divided(n, base)[k] < x
    BY DividedBelow, <1>a
  <1>5. \A k \in Units : n \div UnitSize(base)[k] \in Int
    <2>1. \A k \in Units : UnitSize(base)[k] \in Nat \ {0}
      BY UnitCuts
    <2> QED  BY <2>1, DivMod
  <1>6. Good(m)
    <2>1. CASE m > 0
      <3>1. PICK k \in Units : k = m - 1
        BY <1>3, <2>1 DEF Units
      <3>2. k \notin S
        BY <1>1, <1>3, <2>1, <3>1 DEF Units
      <3>3. ~(Divided(n, base)[k] < x)
        BY <1>a, <3>2
      <3> QED  BY <1>3, <1>4, <1>5, <1>a, <3>1, <3>3
    <2>2. CASE ~(m > 0)
      BY <1>3, <1>4, <1>a, <2>2
    <2> QED  BY <2>1, <2>2
  <1>7. ASSUME NEW k \in Units, Good(k) PROVE k = m
    <2>1. Divided(n, base)[k] < x
      BY <1>4, <1>7, <1>a
    <2>2. k \in S
      BY <1>a, <2>1
    <2>3. m <= k
      BY <1>1, <2>2
    <2>4. CASE m < k
      <3>1. PICK j \in Units : j = k - 1 /\ m <= j
        BY <1>3, <2>4 DEF Units
      <3>2. ~(Divided(n, base)[j] < x)
        <4>1. k > 0
          BY <1>3, <2>4 DEF Units
        <4>2. n \div UnitSize(base)[j] >= x
          BY <1>7, <1>a, <3>1, <4>1
        <4> QED  BY <1>4, <1>5, <4>2
      <3>3. Divided(n, base)[j] <= Divided(n, base)[m]
        BY <1>3, <3>1, DividedFalls
      <3>4. Divided(n, base)[j] \in Nat /\ Divided(n, base)[m] \in Nat
        BY <1>3, UnitCuts
      <3> QED  BY <1>3, <3>2, <3>3, <3>4
    <2> QED  BY <1>3, <2>3, <2>4 DEF Units
  <1>8. m = Whole(n, d, base)
    <2> HIDE DEF Good
    <2>1. (CHOOSE k \in Units : Good(k)) = m
      BY <1>3, <1>6, <1>7, Zenon
    <2> QED  BY <2>1, Zenon DEF Whole, Good
  <1>9. n < x * UnitSize(base)[m]
    BY <1>3, DividedBelow
  <1>10. ASSUME NEW k \in Units, Divided(n, base)[k] < x PROVE m <= k
    BY <1>1, <1>10, <1>a
  <1> QED  BY <1>1, <1>3, <1>8, <1>9, <1>10, <1>a

\* n / u in hundredths, rounded down
Cents(n, u) == 100 * (n \div u) + (100 * (n % u)) \div u

\* Rounding adds at most one hundredth.
LEMMA RoundedUp ==
    ASSUME NEW n \in Nat, NEW u \in Nat \ {0}
    PROVE  /\ Cents(n, u) \in Nat
           /\ Rounded(n, u, 100) \in {Cents(n, u), Cents(n, u) + 1}
           /\ n < 1000 * u => Cents(n, u) <= 99999
  <1>1. PICK q \in Int, r \in Int : q = n \div u /\ r = n % u /\ n = u * q + r /\ 0 <= r /\ r < u
    BY DivMod
  <1>2. PICK p \in Int, s \in Int : /\ p = (100 * r) \div u /\ s = (100 * r) % u
                                    /\ 100 * r = u * p + s /\ 0 <= s /\ s < u
    BY DivMod
  <1>3. 0 <= q
    <2>1. ~(n \div u < 0)
      BY DivBelow
    <2> QED  BY <1>1, <2>1
  <1>4. 0 <= p /\ p < 100
    <2>1. 100 * r \in Nat
      BY <1>1
    <2>2. ~((100 * r) \div u < 0)
      BY <2>1, DivBelow
    <2>3. (100 * r) \div u < 100
      BY <1>1, <2>1, DivBelow
    <2> QED  BY <1>2, <2>2, <2>3
  <1>5. n < 1000 * u => q < 1000
    BY <1>1, DivBelow
  <1> DEFINE h == 100 * q + p
  <1>6. h \in Nat /\ (n < 1000 * u => h <= 99999)
    BY <1>3, <1>4, <1>5
  <1>7. h = Cents(n, u)
    BY <1>1, <1>2 DEF Cents
  <1>8. Rounded(n, u, 100) = IF 2 * s > u \/ (2 * s = u /\ h % 2 = 1) THEN h + 1 ELSE h
    BY <1>1, <1>2, Zenon DEF Rounded
  <1> HIDE DEF h
  <1> QED  BY <1>6, <1>7, <1>8

\* The digits that are cut off a text are the ones that may differ.
LEMMA FourCharsReads ==
    ASSUME NEW h \in Nat, NEW t \in {h, h + 1}, h <= 99999
    PROVE  /\ FourChars(t).value <= h + 1
           /\ h - (IF h < 999 THEN 1 ELSE IF h < 9999 THEN 10 ELSE 100) <= FourChars(t).value
           /\ \/ FourChars(t).digits = 3 /\ FourChars(t).dots \in {0, 1}
              \/ FourChars(t).digits = 4 /\ FourChars(t).dots = 0 /\ FourChars(t).value = 100000
  <1>1. PICK a \in Int, b \in Int : /\ a = t % 10 /\ b = t % 100 /\ 0 <= a /\ a < 10 /\ 0 <= b /\ b < 100
    OBVIOUS
  <1>2. t \in Nat /\ t <= 100000
    OBVIOUS
  <1>3. t = 100000 => b = 0
    BY <1>1
  <1>4. CASE t < 1000
    <2>1. FourChars(t) = Text(3, 1, t)
      BY <1>4, SMT DEF FourChars
    <2> QED  BY <1>2, <1>4, <2>1, SMT DEF Text
  <1>5. CASE 1000 <= t /\ t < 10000
    <2>1. FourChars(t) = Text(3, 1, t - a)
      BY <1>1, <1>2, <1>5, SMT DEF FourChars
    <2> QED  BY <1>1, <1>2, <1>5, <2>1, SMT DEF Text
  <1>6. CASE 10000 <= t /\ t < 100000
    <2>1. FourChars(t) = Text(3, 0, t - b)
      BY <1>1, <1>2, <1>6, SMT DEF FourChars
    <2> QED  BY <1>1, <1>2, <1>6, <2>1, SMT DEF Text
  <1>7. CASE t = 100000
    <2>1. FourChars(t) = Text(4, 0, t - b)
      BY <1>1, <1>2, <1>7, SMT DEF FourChars
    <2> QED  BY <1>2, <1>3, <1>7, <2>1, SMT DEF Text
  <1> QED  BY <1>2, <1>4, <1>5, <1>6, <1>7, SMT

\* The text of an amount: three digits, or those of 1000.
Narrow(t) ==
    \/ t.digits = 3 /\ t.dots \in {0, 1}
    \/ t.digits = 4 /\ t.dots = 0 /\ t.value = 100000

LEMMA AmountReads ==
    ASSUME NEW base \in Nat \ {0}, NEW n \in Nat, NEW d \in Nat \ {0},
           Divided(n, base)[6] < 1000 * d
    PROVE  /\ Reads(AmountText(n, d, base), UnitText(n, d, base), n, d, base)
           /\ Narrow(AmountText(n, d, base))
           /\ UnitText(n, d, base).digits \in {0, 1} /\ UnitText(n, d, base).dots = 0
  <1>1. PICK m \in Units : /\ m = UnitOf(n, d, base) /\ m = Whole(n, d, base)
                           /\ n < (1000 * d) * UnitSize(base)[m]
    BY UnitIs
  <1>2. PICK v \in Nat \ {0} : v = UnitSize(base)[m]
    BY UnitCuts
  <1>3. PICK u \in Nat \ {0} : u = d * v
    <2>1. 1 * v <= d * v
      BY TimesMonotone
    <2>2. d * v \in Int
      OBVIOUS
    <2> QED  BY <2>1, <2>2
  <1>4. n < 1000 * u
    <2>1. (1000 * d) * v = 1000 * (d * v)
      OBVIOUS
    <2> QED  BY <1>1, <1>2, <1>3, <2>1
  <1>5. PICK h \in Nat : h = Cents(n, u) /\ Rounded(n, u, 100) \in {h, h + 1} /\ h <= 99999
    <2>1. n \in Nat /\ u \in Nat \ {0}
      OBVIOUS
    <2>2. /\ Cents(n, u) \in Nat
          /\ Rounded(n, u, 100) \in {Cents(n, u), Cents(n, u) + 1}
          /\ n < 1000 * u => Cents(n, u) <= 99999
      BY <2>1, RoundedUp
    <2> QED  BY <1>4, <2>2, SMT
  <1>6. Hundredths(n, d, base) = h
    BY <1>1, <1>2, <1>3, <1>5 DEF Hundredths, Cents
  <1>7. PICK t \in {h, h + 1} : t = Rounded(n, u, 100) /\ AmountText(n, d, base) = FourChars(t)
    <2>1. AmountText(n, d, base) = FourChars(Rounded(n, u, 100))
      BY <1>1, <1>2, <1>3 DEF AmountText
    <2> QED  BY <1>5, <2>1
  <1>8. /\ FourChars(t).value <= h + 1
        /\ h - (IF h < 999 THEN 1 ELSE IF h < 9999 THEN 10 ELSE 100) <= FourChars(t).value
        /\ Narrow(FourChars(t))
    BY <1>5, FourCharsReads DEF Narrow
  <1>9. UnitText(n, d, base) = Text(IF m = 0 THEN 0 ELSE 1, 0, m)
    BY <1>1, Zenon DEF UnitText
  <1>10. /\ UnitText(n, d, base).value = m
         /\ UnitText(n, d, base).digits \in {0, 1} /\ UnitText(n, d, base).dots = 0
    BY <1>9 DEF Text
  <1>11. Reads(AmountText(n, d, base), UnitText(n, d, base), n, d, base)
    <2>1. AmountText(n, d, base).value = FourChars(t).value
      BY <1>7
    <2>2. UnitText(n, d, base).value = Whole(n, d, base)
      BY <1>1, <1>10
    <2> QED  BY <1>6, <1>8, <2>1, <2>2 DEF Reads
  <1> QED  BY <1>7, <1>8, <1>10, <1>11

\* A load is an amount without a unit.
LEMMA LoadReads ==
    ASSUME NEW load \in Nat
    PROVE  /\ load < 1000 * 65536 => Reads(LoadText(load), Text(0, 0, 0), load, 65536, 1024)
           /\ load < 1000 * 65536 - 327 =>
                 LoadText(load).digits = 3 /\ LoadText(load).dots \in {0, 1}
  <1>1. PICK d \in Nat \ {0}, base \in Nat \ {0} : d = 65536 /\ base = 1024
    BY SMT
  <1>2. ASSUME load < 1000 * d
        PROVE  Reads(LoadText(load), Text(0, 0, 0), load, d, base)
    <2>1. PICK z \in Units, six \in Units : z = 0 /\ six = 6
      BY DEF Units
    <2>2. Divided(load, base)[z] = load
      BY <2>1, UnitSteps
    <2>3. Divided(load, base)[six] < 1000 * d
      <3>1. Divided(load, base)[six] <= Divided(load, base)[z]
        BY <2>1, DividedFalls
      <3>2. Divided(load, base)[six] \in Nat
        BY UnitCuts
      <3> QED  BY <1>2, <2>2, <3>1, <3>2
    <2>4. UnitOf(load, d, base) = 0
      <3>1. UnitOf(load, d, base) \in Units /\ UnitOf(load, d, base) <= z
        BY <1>2, <2>1, <2>2, <2>3, UnitIs
      <3> QED  BY <2>1, <3>1 DEF Units
    <2>5. UnitText(load, d, base) = Text(0, 0, 0)
      BY <2>4 DEF UnitText
    <2>6. d * UnitSize(base)[UnitOf(load, d, base)] = d
      <3>1. UnitSize(base)[z] = 1
        BY <2>1, UnitSteps
      <3> QED  BY <2>1, <2>4, <3>1
    <2>7. AmountText(load, d, base) = LoadText(load)
      BY <1>1, <2>6 DEF AmountText, LoadText
    <2>8. Reads(AmountText(load, d, base), UnitText(load, d, base), load, d, base)
      BY <2>1, <2>3, AmountReads
    <2> QED  BY <2>5, <2>7, <2>8
  <1>3. ASSUME load < 1000 * 65536 - 327
        PROVE  LoadText(load).digits = 3 /\ LoadText(load).dots \in {0, 1}
    <2>1. PICK q \in Int, r \in Int : q = load \div 65536 /\ r = load % 65536 /\ load = 65536 * q + r /\ 0 <= r /\ r < 65536
      BY SMT
    <2>2. PICK p \in Int, s \in Int : /\ p = (100 * r) \div 65536 /\ s = (100 * r) % 65536
                                      /\ 100 * r = 65536 * p + s /\ 0 <= s /\ s < 65536
      BY SMT
    <2>3. PICK t : t = Rounded(load, 65536, 100)
      OBVIOUS
    <2>4. t = IF 2 * s > 65536 \/ (2 * s = 65536 /\ (100 * q + p) % 2 = 1) THEN 100 * q + p + 1 ELSE 100 * q + p
      BY <2>1, <2>2, <2>3, SMT DEF Rounded
    <2>5. t \in Nat /\ t < 100000
      <3>1. 0 <= q /\ q <= 999 /\ 0 <= p /\ p <= 99
        BY <1>3, <2>1, <2>2, SMT
      <3>2. t \in Int /\ t <= 100 * q + p + 1 /\ 0 <= t
        BY <2>4, <3>1, SMT
      <3>3. q = 999 /\ p = 99 => t = 100 * q + p
        BY <1>3, <2>1, <2>2, <2>4, SMT
      <3> QED  BY <3>1, <3>2, <3>3, SMT
    <2>6. LoadText(load) = FourChars(t)
      BY <2>3 DEF LoadText
    <2>7. FourChars(t).digits = 3 /\ FourChars(t).dots \in {0, 1}
      BY <2>5, SMT DEF FourChars, Text
    <2> QED  BY <2>6, <2>7
  <1> QED  BY <1>1, <1>2, <1>3

\* One or two digits, or a sign and a digit.
LEMMA DecimalDigits ==
    ASSUME NEW n \in Int, -10 < n, n < 100
    PROVE  Decimal(n).digits \in {1, 2} /\ Decimal(n).dots = 0
  <1>1. PICK abs \in Int : abs = (IF n < 0 THEN -n ELSE n) /\ 0 <= abs /\ abs < 100 /\ (n < 0 => abs < 10)
    BY SMT
  <1>2. PICK S : S = {p \in Tens : p <= abs}
    OBVIOUS
  <1>3. Decimal(n) = Text((IF n < 0 THEN 2 ELSE 1) + Cardinality(S), 0, n)
    BY <1>1, <1>2 DEF Decimal
  <1>4. IF abs < 10 THEN S = {} ELSE S = {10}
    BY <1>1, <1>2, SMT DEF Tens
  <1>5. IF abs < 10 THEN Cardinality(S) = 0 ELSE Cardinality(S) = 1
    BY <1>4, FS_EmptySet, FS_Singleton
  <1> QED  BY <1>1, <1>3, <1>5, SMT DEF Text

\* What memory there is is counted from what the kernel told.
LEMMA FirstHit ==
    ASSUME NEW lines, DOMAIN lines \subseteq Nat,
           NEW S \in SUBSET DOMAIN lines, S # {}
    PROVE  Min(S) \in S
  <1>1. PICK x \in S : \A y \in S : x <= y
    BY SmallestOf
  <1> QED  BY <1>1, Zenon DEF Min

LEMMA MemValueIs ==
    ASSUME NEW lines \in MemInfos, NEW l
    PROVE  MemValue(lines, l) \in Int
  <1> DEFINE hits == {i \in DOMAIN lines : lines[i].label = l /\ lines[i].number >= 0}
  <1>1. DOMAIN lines \subseteq Nat /\ \A i \in DOMAIN lines : lines[i].number \in Int
    BY MemAssumption
  <1>2. hits # {} => Min(hits) \in hits
    <2>1. hits \in SUBSET DOMAIN lines
      OBVIOUS
    <2> HIDE DEF hits
    <2> QED  BY <1>1, <2>1, FirstHit
  <1>3. MemValue(lines, l) = IF hits = {} THEN 0 ELSE lines[Min(hits)].number
    BY Zenon DEF MemValue
  <1>4. hits \subseteq DOMAIN lines
    OBVIOUS
  <1> HIDE DEF hits
  <1> QED  BY <1>1, <1>2, <1>3, <1>4

LEMMA MemTold ==
    ASSUME NEW lines \in MemInfos, Complete(lines), NEW l \in MemLabels
    PROVE  /\ MemValue(lines, l) = Told(lines, l)
           /\ Told(lines, l) \in Nat /\ 1024 * Told(lines, l) < Word
  <1> DEFINE hits == {i \in DOMAIN lines : lines[i].label = l /\ lines[i].number >= 0}
             told == {i \in DOMAIN lines : lines[i].label = l}
  <1>1. /\ DOMAIN lines \subseteq Nat
        /\ \A i \in DOMAIN lines : lines[i].number \in Int /\ 1024 * lines[i].number < Word
        /\ \A i \in DOMAIN lines : lines[i].number >= 0
        /\ told # {}
    BY MemAssumption DEF Complete
  <1>2. hits = told
    BY <1>1
  <1>3. told \subseteq DOMAIN lines
    OBVIOUS
  <1>4. MemValue(lines, l) = IF hits = {} THEN 0 ELSE lines[Min(hits)].number
    BY Zenon DEF MemValue
  <1>5. Told(lines, l) = lines[Min(told)].number
    BY Zenon DEF Told
  <1> HIDE DEF hits, told
  <1>6. Min(told) \in told
    BY <1>1, <1>3, FirstHit
  <1> QED  BY <1>1, <1>2, <1>3, <1>4, <1>5, <1>6

LEMMA KiloIs ==
    ASSUME NEW n \in Int
    PROVE  /\ Kilo(n) \in 0 .. Word - 1
           /\ 0 <= n /\ 1024 * n < Word => Kilo(n) = 1024 * n
  <1>1. PICK w \in Int : w = Word \div 1024 /\ Word = 1024 * w /\ w >= 1
    BY WordAssumption, SMT
  <1>2. w \in Nat \ {0}
    BY <1>1
  <1>3. PICK r \in Int : r = n % w /\ 0 <= r /\ r < w
    BY <1>2, DivMod
  <1>4. Kilo(n) = 1024 * r
    BY <1>1, <1>3 DEF Kilo
  <1>5. 0 <= n /\ n < w => n % w = n
    BY <1>2
  <1> QED  BY <1>1, <1>3, <1>4, <1>5, SMT

LEMMA MemUsedIs ==
    ASSUME NEW lines \in MemInfos
    PROVE  /\ MemUsed(lines) \in Int /\ MemTotal(lines) \in Int
           /\ Complete(lines) =>
                /\ MemTotal(lines) = Told(lines, "MemTotal")
                /\ MemUsed(lines) = Told(lines, "MemTotal") - NotUsed(lines)
                /\ MemUsed(lines) \in Nat /\ 1024 * MemUsed(lines) < Word
                /\ MemTotal(lines) \in Nat /\ 1024 * MemTotal(lines) < Word
  <1>1. PICK t \in Int, f \in Int, b \in Int, c \in Int, s \in Int :
          /\ t = MemValue(lines, "MemTotal") /\ f = MemValue(lines, "MemFree")
          /\ b = MemValue(lines, "Buffers") /\ c = MemValue(lines, "Cached")
          /\ s = MemValue(lines, "SReclaimable")
    <2>1. \A l : MemValue(lines, l) \in Int
      BY MemValueIs
    <2> QED  BY <2>1
  <1>2. Word \in Nat \ {0}
    BY WordAssumption
  <1>3. MemTotal(lines) = t /\ MemUsed(lines) = (t - f - b - c - s) % Word
    BY <1>1 DEF MemTotal, MemUsed
  <1>4. MemUsed(lines) \in Int
    <2>1. t - f - b - c - s \in Int
      OBVIOUS
    <2> QED  BY <1>2, <1>3, <2>1, DivMod
  <1>5. ASSUME Complete(lines)
        PROVE  /\ MemTotal(lines) = Told(lines, "MemTotal")
               /\ MemUsed(lines) = Told(lines, "MemTotal") - NotUsed(lines)
               /\ MemUsed(lines) \in Nat /\ 1024 * MemUsed(lines) < Word
               /\ MemTotal(lines) \in Nat /\ 1024 * MemTotal(lines) < Word
    <2>1. \A l \in MemLabels : /\ MemValue(lines, l) = Told(lines, l)
                               /\ Told(lines, l) \in Nat /\ 1024 * Told(lines, l) < Word
      BY <1>5, MemTold
    <2>2. /\ t = Told(lines, "MemTotal") /\ f = Told(lines, "MemFree") /\ b = Told(lines, "Buffers")
          /\ c = Told(lines, "Cached") /\ s = Told(lines, "SReclaimable")
          /\ t \in Nat /\ f \in Nat /\ b \in Nat /\ c \in Nat /\ s \in Nat /\ 1024 * t < Word
      BY <1>1, <2>1 DEF MemLabels
    <2>3. NotUsed(lines) = f + b + c + s /\ NotUsed(lines) <= t
      BY <1>5, <2>2 DEF NotUsed, Complete
    <2>4. PICK u \in Nat : u = t - f - b - c - s /\ u = t - NotUsed(lines) /\ 1024 * u < Word /\ u < Word
      BY <1>2, <2>2, <2>3
    <2>5. u % Word = u
      <3>1. \A a \in Nat, m \in Nat \ {0} : a < m => a % m = a
        OBVIOUS
      <3> QED  BY <1>2, <2>4, <3>1
    <2> QED  BY <1>3, <2>2, <2>4, <2>5
  <1> QED  BY <1>3, <1>4, <1>5

\* An unsigned long is an amount the letters are enough for.
LEMMA LettersEnough ==
    ASSUME NEW n \in 0 .. Word - 1, NEW base \in {1000, 1024}
    PROVE  Divided(n, base)[6] < 1000 * 1
  <1>1. PICK six \in Units : six = 6
    BY DEF Units
  <1>2. base \in Nat \ {0} /\ Word \in Nat /\ n \in Nat /\ n < Word
    BY WordAssumption
  <1>3. PICK x \in Int : x = 1000
    OBVIOUS
  <1>4. Divided(Word, base)[six] < x
    BY <1>1, <1>3, UnitAssumption
  <1>5. Word < x * UnitSize(base)[six]
    BY <1>2, <1>4, DividedBelow
  <1>6. UnitSize(base)[six] \in Nat
    BY <1>2, UnitCuts
  <1>7. n < x * UnitSize(base)[six]
    <2>1. x * UnitSize(base)[six] \in Int
      BY <1>6
    <2> QED  BY <1>2, <1>5, <2>1
  <1>8. Divided(n, base)[six] < x
    BY <1>2, <1>7, DividedBelow
  <1> QED  BY <1>1, <1>3, <1>8

LEMMA BytesRead ==
    ASSUME NEW n \in 0 .. Word - 1, NEW base \in {1000, 1024}
    PROVE  /\ Reads(AmountText(n, 1, base), UnitText(n, 1, base), n, 1, base)
           /\ Narrow(AmountText(n, 1, base))
           /\ UnitText(n, 1, base).digits \in {0, 1} /\ UnitText(n, 1, base).dots = 0
  <1>1. base \in Nat \ {0} /\ n \in Nat
    BY WordAssumption
  <1>2. PICK d \in Nat \ {0} : d = 1
    OBVIOUS
  <1>3. Divided(n, base)[6] < 1000 * d
    BY <1>2, LettersEnough
  <1>4. /\ Reads(AmountText(n, d, base), UnitText(n, d, base), n, d, base)
        /\ Narrow(AmountText(n, d, base))
        /\ UnitText(n, d, base).digits \in {0, 1} /\ UnitText(n, d, base).dots = 0
    BY <1>1, <1>3, AmountReads
  <1> QED  BY <1>2, <1>4

-----------------------------------------------------------------------------
(***************************************************************************)
(* What a callback does to the texts.                                      *)
(***************************************************************************)
LEMMA UpdateAt ==
    ASSUME NEW places, NEW new, Update(At(places, new)), NEW i \in DOMAIN texts
    PROVE  /\ \A k \in DOMAIN places :
                places[k] = i /\ (\A m \in DOMAIN places : places[m] = i => m = k) => texts'[i] = new[k]
           /\ (\A m \in DOMAIN places : places[m] # i) => texts'[i] = texts[i]
  <1> DEFINE S == {places[n] : n \in DOMAIN places}
             f == [j \in S |-> new[CHOOSE n \in DOMAIN places : places[n] = j]]
  <1>1. f = At(places, new)
    BY Zenon DEF At
  <1>2. texts' = [j \in DOMAIN texts |-> IF j \in DOMAIN f THEN f[j] ELSE texts[j]]
    BY <1>1, Zenon DEF Update
  <1>3. DOMAIN f = S
    OBVIOUS
  <1>4. ASSUME NEW k \in DOMAIN places, places[k] = i, \A m \in DOMAIN places : places[m] = i => m = k
        PROVE  texts'[i] = new[k]
    <2>1. i \in S
      BY <1>4
    <2>2. (CHOOSE n \in DOMAIN places : places[n] = i) = k
      BY <1>4, Zenon
    <2>3. f[i] = new[k]
      BY <2>1, <2>2, Zenon
    <2> HIDE DEF f
    <2> QED  BY <1>2, <1>3, <2>1, <2>3
  <1>5. ASSUME \A m \in DOMAIN places : places[m] # i PROVE texts'[i] = texts[i]
    <2>1. i \notin S
      BY <1>5
    <2> HIDE DEF f
    <2> QED  BY <1>2, <1>3, <2>1
  <1> QED  BY <1>4, <1>5

LEMMA UpdateOne ==
    ASSUME NEW a, NEW p \in DOMAIN texts, Update(At(<<p>>, <<a>>))
    PROVE  texts'[p] = a /\ \A i \in DOMAIN texts \ {p} : texts'[i] = texts[i]
  <1>1. PICK places, new : places = <<p>> /\ new = <<a>>
    OBVIOUS
  <1>2. DOMAIN places = {1} /\ places[1] = p /\ new[1] = a
    BY <1>1
  <1>3. Update(At(places, new))
    BY <1>1
  <1> QED  BY <1>2, <1>3, UpdateAt

LEMMA UpdateEven ==
    ASSUME NEW new, Update(At(<<2, 4, 6>>, new)), {2, 4, 6} \subseteq DOMAIN texts
    PROVE  /\ texts'[2] = new[1] /\ texts'[4] = new[2] /\ texts'[6] = new[3]
           /\ \A i \in DOMAIN texts \ {2, 4, 6} : texts'[i] = texts[i]
  <1>1. PICK places : places = <<2, 4, 6>>
    OBVIOUS
  <1>2. DOMAIN places = {1, 2, 3} /\ places[1] = 2 /\ places[2] = 4 /\ places[3] = 6
    BY <1>1
  <1>3. Update(At(places, new))
    BY <1>1
  <1> QED  BY <1>2, <1>3, UpdateAt

LEMMA UpdateFour ==
    ASSUME NEW p, NEW q, NEW r, NEW s, {p, q, r, s} \subseteq DOMAIN texts,
           p # q, p # r, p # s, q # r, q # s, r # s,
           NEW a, NEW b, NEW c, NEW d, Update(At(<<p, q, r, s>>, <<a, b, c, d>>))
    PROVE  /\ texts'[p] = a /\ texts'[q] = b /\ texts'[r] = c /\ texts'[s] = d
           /\ \A i \in DOMAIN texts \ {p, q, r, s} : texts'[i] = texts[i]
  <1>1. PICK places, new : places = <<p, q, r, s>> /\ new = <<a, b, c, d>>
    OBVIOUS
  <1>2. /\ DOMAIN places = {1, 2, 3, 4}
        /\ places[1] = p /\ places[2] = q /\ places[3] = r /\ places[4] = s
        /\ new[1] = a /\ new[2] = b /\ new[3] = c /\ new[4] = d
    BY <1>1
  <1>3. Update(At(places, new))
    BY <1>1
  <1>4. p \in DOMAIN texts /\ q \in DOMAIN texts /\ r \in DOMAIN texts /\ s \in DOMAIN texts
    OBVIOUS
  <1>5. \A i \in DOMAIN texts :
          /\ \A k \in DOMAIN places :
               places[k] = i /\ (\A m \in DOMAIN places : places[m] = i => m = k) => texts'[i] = new[k]
          /\ (\A m \in DOMAIN places : places[m] # i) => texts'[i] = texts[i]
    BY <1>3, UpdateAt
  <1> QED  BY <1>2, <1>4, <1>5

-----------------------------------------------------------------------------
(***************************************************************************)
(* The texts that are made for their places.                               *)
(***************************************************************************)
\* the items whose text is not made by tm_item_init alone
Changing(r) ==
    CASE r \in {"uptime", "load", "usage"} -> {2, 4, 6}
      [] r \in {"temp", "state"} -> {2}
      [] r = "ram" -> {1, 2, 4, 5}
      [] r \in {"disk", "net"} -> {2, 3, 5, 6}
      [] r \in {"date", "freq", "addr"} -> {1}

\* Which items those are.
LEMMA ChangingAre ==
    /\ Changing("uptime") = {2, 4, 6} /\ DOMAIN Items("uptime") = 1 .. 7
    /\ \A i \in {2, 4, 6} : Items("uptime")[i] = Two
    /\ Changing("load") = {2, 4, 6} /\ DOMAIN Items("load") = 1 .. 6
    /\ \A i \in {2, 4, 6} : Items("load")[i] = Three
    /\ Changing("usage") = {2, 4, 6} /\ DOMAIN Items("usage") = 1 .. 7
    /\ \A i \in {2, 4, 6} : Items("usage")[i] = Three
    /\ Changing("temp") = {2} /\ DOMAIN Items("temp") = 1 .. 3 /\ Items("temp")[2] = Two
    /\ Changing("ram") = {1, 2, 4, 5} /\ DOMAIN Items("ram") = 1 .. 5
    /\ Items("ram")[1] = Three /\ Items("ram")[2] = Unit
    /\ Items("ram")[4] = Three /\ Items("ram")[5] = Unit
    /\ \A r \in {"disk", "net"} :
         /\ Changing(r) = {2, 3, 5, 6} /\ DOMAIN Items(r) = 1 .. 6
         /\ Items(r)[2] = Three /\ Items(r)[3] = Unit
         /\ Items(r)[5] = Three /\ Items(r)[6] = Unit
    /\ \A r \in {"date", "freq", "addr"} :
         Changing(r) = {1} /\ DOMAIN Items(r) = 1 .. 1 /\ Items(r)[1].kind = "changeable"
    /\ Changing("state") = {2} /\ DOMAIN Items("state") = 1 .. 2
    /\ Items("state")[2].kind = "changeable"
  <1>1. DOMAIN ClockItems = {"date", "uptime", "load"}
    BY DEF ClockItems
  <1>2. PICK l, l2, w, t, u, q, c :
           /\ l = Label(1) /\ l2 = Label(2) /\ w = Two /\ t = Three /\ u = Unit
           /\ q = RightLabel(1, 2) /\ c = Changeable
    OBVIOUS
  <1>3. c.kind = "changeable"
    BY <1>2 DEF Changeable, Item
  <1>4. /\ Items("uptime") = <<l, w, l, w, l, w, l>> /\ Items("load") = <<l, t, l, t, l, t>>
        /\ Items("date") = <<c>>
    <2>1. /\ Items("uptime") = ClockItems["uptime"] /\ Items("load") = ClockItems["load"]
          /\ Items("date") = ClockItems["date"]
      BY <1>1 DEF Items
    <2> QED  BY <1>2, <2>1 DEF ClockItems
  <1>5. /\ Items("usage") = UsageItems /\ Items("freq") = FreqItems /\ Items("temp") = TempItems
        /\ Items("ram") = MemItems /\ Items("disk") = DiskItems /\ Items("state") = StateItems
        /\ Items("addr") = AddrItems /\ Items("net") = RateItems
    BY <1>1 DEF Items
  <1>6. /\ Items("usage") = <<l, t, l, t, l, t, l>> /\ Items("freq") = <<c>>
        /\ Items("temp") = <<l2, w, l>> /\ Items("ram") = <<t, u, l, t, u>>
        /\ Items("disk") = <<l, t, u, l, t, u>> /\ Items("state") = <<l2, c>>
        /\ Items("addr") = <<c>> /\ Items("net") = <<q, t, u, l, t, u>>
    BY <1>2, <1>5, Zenon DEF UsageItems, FreqItems, TempItems, MemItems, DiskItems, StateItems,
                             AddrItems, RateItems
  <1>7. /\ Changing("uptime") = {2, 4, 6} /\ Changing("load") = {2, 4, 6}
        /\ Changing("usage") = {2, 4, 6} /\ Changing("temp") = {2} /\ Changing("state") = {2}
        /\ Changing("ram") = {1, 2, 4, 5} /\ Changing("disk") = {2, 3, 5, 6}
        /\ Changing("net") = {2, 3, 5, 6} /\ Changing("date") = {1} /\ Changing("freq") = {1}
        /\ Changing("addr") = {1}
    BY DEF Changing
  <1>8. /\ DOMAIN Items("uptime") = 1 .. 7 /\ \A i \in {2, 4, 6} : Items("uptime")[i] = Two
        /\ DOMAIN Items("load") = 1 .. 6 /\ \A i \in {2, 4, 6} : Items("load")[i] = Three
    BY <1>2, <1>4
  <1>9. /\ DOMAIN Items("usage") = 1 .. 7 /\ \A i \in {2, 4, 6} : Items("usage")[i] = Three
        /\ DOMAIN Items("temp") = 1 .. 3 /\ Items("temp")[2] = Two
    BY <1>2, <1>6
  <1>10. /\ DOMAIN Items("ram") = 1 .. 5
         /\ Items("ram")[1] = Three /\ Items("ram")[2] = Unit
         /\ Items("ram")[4] = Three /\ Items("ram")[5] = Unit
    BY <1>2, <1>6
  <1>11. \A r \in {"disk", "net"} :
         /\ DOMAIN Items(r) = 1 .. 6
         /\ Items(r)[2] = Three /\ Items(r)[3] = Unit
         /\ Items(r)[5] = Three /\ Items(r)[6] = Unit
    BY <1>2, <1>6
  <1>12. /\ \A r \in {"date", "freq", "addr"} : DOMAIN Items(r) = 1 .. 1 /\ Items(r)[1].kind = "changeable"
         /\ DOMAIN Items("state") = 1 .. 2 /\ Items("state")[2].kind = "changeable"
    BY <1>3, <1>4, <1>6
  <1> QED  BY <1>7, <1>8, <1>9, <1>10, <1>11, <1>12

\* A text of so many digits and dots at most needs no more room than those.
LEMMA FitsIn ==
    ASSUME NEW t, NEW n \in Nat, NEW k \in Nat, t.digits \in 0 .. n, t.dots \in 0 .. k
    PROVE  TextWidth(t) <= n * DigitWidth + k * DotWidth
  <1>1. PICK a \in Nat, b \in Nat, d \in Nat, e \in Nat :
          a = t.digits /\ b = t.dots /\ d = DigitWidth /\ e = DotWidth
    BY LayoutAssumption
  <1>2. a * d <= n * d /\ b * e <= k * e
    BY <1>1, TimesMonotone
  <1>3. a * d \in Int /\ n * d \in Int /\ b * e \in Int /\ k * e \in Int
    OBVIOUS
  <1> QED  BY <1>1, <1>2, <1>3 DEF TextWidth

LEMMA MadeFor ==
    ASSUME NEW r, NEW i, NEW t
    PROVE  /\ Items(r)[i] = Two /\ t.digits \in 0 .. 2 /\ t.dots = 0 => ~TooWide(r, i, t)
           /\ Items(r)[i] = Three /\ t.digits \in 0 .. 3 /\ t.dots \in 0 .. 1 => ~TooWide(r, i, t)
           /\ Items(r)[i] = Unit /\ t.digits \in 0 .. 1 /\ t.dots = 0 => ~TooWide(r, i, t)
  <1>1. PICK d \in Nat, e \in Nat : d = DigitWidth /\ e = DotWidth
    BY LayoutAssumption
  <1>2. /\ Two.kind = "right" /\ Two.width = 2 * d
        /\ Three.kind = "right" /\ Three.width = e + 3 * d
        /\ Unit.kind = "left" /\ Unit.width = d
    BY <1>1 DEF Two, Three, Unit, Item
  <1>3. ASSUME t.digits \in Nat, t.dots \in Nat PROVE TextWidth(t) \in Int
    BY <1>3, TextIs DEF IsText
  <1>4. ASSUME Items(r)[i] = Two, t.digits \in 0 .. 2, t.dots = 0 PROVE ~TooWide(r, i, t)
    <2>1. TextWidth(t) <= 2 * d
      <3>1. PICK n \in Nat, k \in Nat : n = 2 /\ k = 0
        OBVIOUS
      <3>2. t.digits \in 0 .. n /\ t.dots \in 0 .. k
        BY <1>4, <3>1
      <3>3. TextWidth(t) <= n * d + k * e
        BY <1>1, <3>2, FitsIn
      <3> QED  BY <3>1, <3>3
    <2>2. TextWidth(t) \in Int
      BY <1>3, <1>4
    <2> QED  BY <1>2, <1>4, <2>1, <2>2 DEF TooWide
  <1>5. ASSUME Items(r)[i] = Three, t.digits \in 0 .. 3, t.dots \in 0 .. 1 PROVE ~TooWide(r, i, t)
    <2>1. TextWidth(t) <= 3 * d + 1 * e
      BY <1>1, <1>5, FitsIn
    <2>2. TextWidth(t) \in Int
      BY <1>3, <1>5
    <2> QED  BY <1>2, <1>5, <2>1, <2>2 DEF TooWide
  <1>6. ASSUME Items(r)[i] = Unit, t.digits \in 0 .. 1, t.dots = 0 PROVE ~TooWide(r, i, t)
    <2>1. TextWidth(t) <= 1 * d
      <3>1. PICK n \in Nat, k \in Nat : n = 1 /\ k = 0
        OBVIOUS
      <3>2. t.digits \in 0 .. n /\ t.dots \in 0 .. k
        BY <1>6, <3>1
      <3>3. TextWidth(t) <= n * d + k * e
        BY <1>1, <3>2, FitsIn
      <3> QED  BY <3>1, <3>3
    <2>2. TextWidth(t) \in Int
      BY <1>3, <1>6
    <2> QED  BY <1>2, <1>6, <2>1, <2>2 DEF TooWide
  <1> QED  BY <1>4, <1>5, <1>6

-----------------------------------------------------------------------------
(***************************************************************************)
(* Amounts read as they are, and texts fit, after every callback.          *)
(***************************************************************************)
\* What TextsFit allows to be too wide.
Tolerated(r, i, s, t) ==
    \/ r = "uptime" /\ i = 2 /\ s[1] >= 100 * 86400
    \/ r = "load" /\ s[i \div 2] >= 1000 * 65536 - 327
    \/ r = "temp" /\ (s[1] >= 100000 \/ s[1] <= -10000)
    \/ r \in {"ram", "disk", "net"} /\ t.value = 100000
    \/ Items(r)[i].kind = "changeable"

WideTolerated ==
    \A i \in DOMAIN texts : TooWide(row, i, texts[i]) => Tolerated(row, i, seen, texts[i])

LEMMA TextsFitIs == TextsFit <=> WideTolerated
  BY SMT DEF TextsFit, WideTolerated, Tolerated

LabelsKept == \A i \in DOMAIN texts : i \notin Changing(row) => texts[i] = Items(row)[i].text

AmountInv ==
    /\ row \in RowNames /\ DOMAIN texts = DOMAIN Items(row)
    /\ LabelsKept /\ TextsFit /\ AmountsTrue

LEMMA LabelFits ==
    ASSUME NEW r \in RowNames, NEW i \in DOMAIN Items(r), TooWide(r, i, Items(r)[i].text)
    PROVE  Items(r)[i].kind = "changeable"
  <1>1. GoodItem(Items(r)[i])
    BY ItemsAre
  <1>2. TextWidth(Items(r)[i].text) \in Nat /\ Items(r)[i].width \in Nat
    BY <1>1, TextIs DEF GoodItem
  <1> QED  BY <1>1, <1>2 DEF GoodItem, TooWide

LEMMA AmountInitInv == WidgetInit => AmountInv
  <1> SUFFICES ASSUME WidgetInit PROVE AmountInv
    OBVIOUS
  <1>1. row \in RowNames /\ seen = <<>> /\ texts = [i \in DOMAIN Items(row) |-> Items(row)[i].text]
    BY DEF WidgetInit
  <1>2. LabelsKept /\ DOMAIN texts = DOMAIN Items(row)
    BY <1>1 DEF LabelsKept
  <1>3. \A i \in DOMAIN texts : TooWide(row, i, texts[i]) => Items(row)[i].kind = "changeable"
    BY <1>1, LabelFits
  <1>4. TextsFit
    BY <1>3, TextsFitIs, SMT DEF WideTolerated, Tolerated
  <1>5. AmountsTrue
    BY <1>1, SMT DEF AmountsTrue
  <1> QED  BY <1>1, <1>2, <1>4, <1>5 DEF AmountInv

\* A callback that changes only what it may, to what is tolerated.
LEMMA Ticked ==
    ASSUME AmountInv, row' = row, DOMAIN texts' = DOMAIN texts,
           \A i \in DOMAIN texts : i \notin Changing(row) => texts'[i] = texts[i],
           \A i \in Changing(row) : TooWide(row, i, texts'[i]) => Tolerated(row, i, seen', texts'[i]),
           AmountsTrue'
    PROVE  AmountInv'
  <1>1. row \in RowNames /\ DOMAIN texts = DOMAIN Items(row) /\ LabelsKept
    BY DEF AmountInv
  <1>2. \A i \in DOMAIN texts : i \notin Changing(row) => texts'[i] = Items(row)[i].text
    BY <1>1 DEF LabelsKept
  <1>3. LabelsKept'
    BY <1>2 DEF LabelsKept
  <1>4. ASSUME NEW i \in DOMAIN texts, TooWide(row, i, texts'[i])
        PROVE  Tolerated(row, i, seen', texts'[i])
    <2>1. CASE i \in Changing(row)
      BY <1>4, <2>1
    <2>2. CASE i \notin Changing(row)
      <3>1. Items(row)[i].kind = "changeable"
        BY <1>1, <1>2, <1>4, <2>2, LabelFits
      <3> QED  BY <3>1, SMT DEF Tolerated
    <2> QED  BY <2>1, <2>2
  <1>5. WideTolerated'
    BY <1>4 DEF WideTolerated
  <1>6. TextsFit' <=> WideTolerated'
    BY TextsFitIs, PTL
  <1>7. TextsFit'
    BY <1>5, <1>6
  <1> QED  BY <1>1, <1>3, <1>7 DEF AmountInv

\* Where nothing of AmountsTrue is about the row.
LEMMA NoAmount ==
    ASSUME row' = row, row \notin {"load", "ram", "disk", "net"}
    PROVE  AmountsTrue'
  BY SMT DEF AmountsTrue

LEMMA ChangeableTick ==
    ASSUME AmountInv, NEW n \in Lengths, DateTick(n) \/ FreqTick(n) \/ StateTick(n)
    PROVE  AmountInv'
  <1>1. \/ row \in {"date", "freq", "addr"} /\ \E a : Update(At(<<1>>, <<a>>))
        \/ row = "state" /\ \E a : Update(At(<<2>>, <<a>>))
    BY Zenon DEF DateTick, FreqTick, StateTick
  <1>2. PICK p, a : /\ Changing(row) = {p} /\ p \in DOMAIN Items(row)
                    /\ Items(row)[p].kind = "changeable" /\ Update(At(<<p>>, <<a>>))
    <2>1. CASE row \in {"date", "freq", "addr"} /\ \E a : Update(At(<<1>>, <<a>>))
      <3>1. Changing(row) = {1} /\ DOMAIN Items(row) = 1 .. 1 /\ Items(row)[1].kind = "changeable"
        BY <2>1, ChangingAre
      <3>2. 1 \in 1 .. 1
        OBVIOUS
      <3> QED  BY <2>1, <3>1, <3>2, Zenon
    <2>2. CASE row = "state" /\ \E a : Update(At(<<2>>, <<a>>))
      <3>1. Changing(row) = {2} /\ DOMAIN Items(row) = 1 .. 2 /\ Items(row)[2].kind = "changeable"
        BY <2>2, ChangingAre
      <3>2. 2 \in 1 .. 2
        OBVIOUS
      <3> QED  BY <2>2, <3>1, <3>2, Zenon
    <2> QED  BY <1>1, <2>1, <2>2
  <1>3. row' = row /\ DOMAIN texts' = DOMAIN texts
    BY <1>2, UpdateKeeps
  <1>4. \A i \in DOMAIN texts : i \notin Changing(row) => texts'[i] = texts[i]
    <2>1. p \in DOMAIN texts
      BY <1>2 DEF AmountInv
    <2> QED  BY <1>2, <2>1, UpdateOne
  <1>5. \A i \in Changing(row) : Tolerated(row, i, seen', texts'[i])
    BY <1>2, SMT DEF Tolerated
  <1>6. row \notin {"load", "ram", "disk", "net"}
    BY <1>1
  <1>7. AmountsTrue'
    BY <1>3, <1>6, NoAmount
  <1> QED  BY <1>3, <1>4, <1>5, <1>7, Ticked

LEMMA UptimeFits ==
    ASSUME NEW u \in Nat
    PROVE  /\ Decimal(Uptime(u).hours).digits \in {1, 2} /\ Decimal(Uptime(u).hours).dots = 0
           /\ Decimal(Uptime(u).minutes).digits \in {1, 2} /\ Decimal(Uptime(u).minutes).dots = 0
           /\ u < 100 * 86400 => Decimal(Uptime(u).days).digits \in {1, 2} /\ Decimal(Uptime(u).days).dots = 0
  <1>1. PICK d \in Int, h \in Int, m \in Int :
             /\ d = u \div 86400 /\ h = ((u \div 60) \div 60) % 24 /\ m = (u \div 60) % 60
    OBVIOUS
  <1>2. Uptime(u).days = d /\ Uptime(u).hours = h /\ Uptime(u).minutes = m
    BY <1>1, SMT DEF Uptime
  <1>3. -10 < h /\ h < 100 /\ -10 < m /\ m < 100 /\ -10 < d /\ (u < 100 * 86400 => d < 100)
    BY <1>1, SMT
  <1> QED  BY <1>2, <1>3, DecimalDigits, SMT

LEMMA UptimeTickFits ==
    ASSUME AmountInv, NEW u \in Uptimes, UptimeTick(u)
    PROVE  AmountInv'
  <1>1. PICK d, h, m : /\ d = Decimal(Uptime(u).days) /\ h = Decimal(Uptime(u).hours)
                       /\ m = Decimal(Uptime(u).minutes)
    OBVIOUS
  <1>2. /\ row = "uptime" /\ seen' = <<u>> /\ u \in Nat
        /\ Update(At(<<2, 4, 6>>, <<d, h, m>>))
    BY <1>1, UptimeAssumption DEF UptimeTick
  <1>3. /\ Changing(row) = {2, 4, 6} /\ DOMAIN texts = 1 .. 7
        /\ \A i \in {2, 4, 6} : Items(row)[i] = Two
    BY <1>2, ChangingAre DEF AmountInv
  <1>4. row' = row /\ DOMAIN texts' = DOMAIN texts
    BY <1>2, UpdateKeeps
  <1>5. /\ texts'[2] = d /\ texts'[4] = h /\ texts'[6] = m
        /\ \A i \in DOMAIN texts \ {2, 4, 6} : texts'[i] = texts[i]
    <2>1. PICK new : new = <<d, h, m>>
      OBVIOUS
    <2>2. Update(At(<<2, 4, 6>>, new)) /\ {2, 4, 6} \subseteq DOMAIN texts
      BY <1>2, <1>3, <2>1
    <2>3. /\ texts'[2] = new[1] /\ texts'[4] = new[2] /\ texts'[6] = new[3]
          /\ \A i \in DOMAIN texts \ {2, 4, 6} : texts'[i] = texts[i]
      BY <2>2, UpdateEven
    <2> QED  BY <2>1, <2>3
  <1>6. /\ h.digits \in {1, 2} /\ h.dots = 0 /\ m.digits \in {1, 2} /\ m.dots = 0
        /\ u < 100 * 86400 => d.digits \in {1, 2} /\ d.dots = 0
    BY <1>1, <1>2, UptimeFits, SMT
  <1>7. ~TooWide(row, 4, h) /\ ~TooWide(row, 6, m) /\ (u < 100 * 86400 => ~TooWide(row, 2, d))
    <2>1. \A i \in {2, 4, 6} : \A t : t.digits \in {1, 2} /\ t.dots = 0 => ~TooWide(row, i, t)
      BY <1>3, MadeFor
    <2> QED  BY <1>6, <2>1, SMT
  <1>8. \A i \in Changing(row) : TooWide(row, i, texts'[i]) => Tolerated(row, i, seen', texts'[i])
    <2>1. u >= 100 * 86400 => Tolerated(row, 2, seen', d)
      BY <1>2, SMT DEF Tolerated
    <2>2. u < 100 * 86400 \/ u >= 100 * 86400
      BY <1>2, SMT
    <2> QED  BY <1>3, <1>5, <1>7, <2>1, <2>2, SMT
  <1>9. AmountsTrue'
    BY <1>2, <1>4, NoAmount
  <1> QED  BY <1>3, <1>4, <1>5, <1>8, <1>9, Ticked, SMT

LEMMA TempTickFits ==
    ASSUME AmountInv, NEW t \in Temperatures, TempTick(t)
    PROVE  AmountInv'
  <1>1. PICK c, n : n = Celsius(t) /\ c = Decimal(n)
    OBVIOUS
  <1>2. row = "temp" /\ seen' = <<t>> /\ t \in Int /\ Update(At(<<2>>, <<c>>))
    BY <1>1, TemperatureAssumption DEF TempTick
  <1>3. Changing(row) = {2} /\ DOMAIN texts = 1 .. 3 /\ Items(row)[2] = Two
    BY <1>2, ChangingAre DEF AmountInv
  <1>4. row' = row /\ DOMAIN texts' = DOMAIN texts
    BY <1>2, UpdateKeeps
  <1>5. texts'[2] = c /\ \A i \in DOMAIN texts \ {2} : texts'[i] = texts[i]
    <2>1. PICK p \in DOMAIN texts : p = 2
      BY <1>3
    <2>2. Update(At(<<p>>, <<c>>))
      BY <1>2, <2>1
    <2>3. texts'[p] = c /\ \A i \in DOMAIN texts \ {p} : texts'[i] = texts[i]
      BY <2>2, UpdateOne
    <2> QED  BY <2>1, <2>3
  <1>6. ASSUME t < 100000, t > -10000 PROVE ~TooWide(row, 2, c)
    <2>1. n \in Int /\ -10 < n /\ n < 100
      BY <1>1, <1>2, <1>6, SMT DEF Celsius
    <2>2. c.digits \in {1, 2} /\ c.dots = 0
      BY <1>1, <2>1, DecimalDigits
    <2> QED  BY <1>3, <2>2, MadeFor
  <1>7. \A i \in Changing(row) : TooWide(row, i, texts'[i]) => Tolerated(row, i, seen', texts'[i])
    <2>1. t >= 100000 \/ t <= -10000 => Tolerated(row, 2, seen', c)
      BY <1>2, SMT DEF Tolerated
    <2>2. (t < 100000 /\ t > -10000) \/ (t >= 100000 \/ t <= -10000)
      BY <1>2, SMT
    <2> QED  BY <1>3, <1>5, <1>6, <2>1, <2>2, SMT
  <1>8. AmountsTrue'
    BY <1>2, <1>4, NoAmount
  <1> QED  BY <1>3, <1>4, <1>5, <1>7, <1>8, Ticked, SMT

LEMMA UsageTextFits ==
    ASSUME NEW g, NEW dif
    PROVE  UsageText(g, dif).digits \in 0 .. 3 /\ UsageText(g, dif).dots \in 0 .. 1
  BY SMT DEF UsageText, Text

\* Nothing of TextsFit is about what was seen of the CPU.
LEMMA SameTexts ==
    ASSUME AmountInv, row' = row, texts' = texts, row = "usage" \/ seen' = seen
    PROVE  AmountInv'
  <1>1. LabelsKept'
    BY DEF AmountInv, LabelsKept
  <1>2. WideTolerated
    BY TextsFitIs DEF AmountInv
  <1>3. WideTolerated'
    <2>1. CASE row = "usage"
      BY <1>2, <2>1, SMT DEF WideTolerated, Tolerated
    <2>2. CASE seen' = seen
      BY <1>2, <2>2 DEF WideTolerated
    <2> QED  BY <2>1, <2>2
  <1>4. TextsFit' <=> WideTolerated'
    BY TextsFitIs, PTL
  <1>5. AmountsTrue'
    <2>1. CASE row = "usage"
      BY <2>1, NoAmount
    <2>2. CASE seen' = seen
      BY <2>2, SMT DEF AmountInv, AmountsTrue
    <2> QED  BY <2>1, <2>2
  <1> QED  BY <1>1, <1>3, <1>4, <1>5 DEF AmountInv

LEMMA UsageTickFits ==
    ASSUME AmountInv, NEW s \in CpuSteps, UsageTick(s)
    PROVE  AmountInv'
  <1>1. row = "usage"
    BY DEF UsageTick
  <1>2. CASE UNCHANGED <<row, texts>>
    BY <1>1, <1>2, SameTexts
  <1>3. ASSUME Update(At(<<2, 4, 6>>, <<UsageText("us", CpuDif(cpu, stat')),
                                        UsageText("sy", CpuDif(cpu, stat')),
                                        UsageText("id", CpuDif(cpu, stat'))>>))
        PROVE  AmountInv'
    <2>1. PICK new : /\ new = <<UsageText("us", CpuDif(cpu, stat')), UsageText("sy", CpuDif(cpu, stat')),
                                UsageText("id", CpuDif(cpu, stat'))>>
      OBVIOUS
    <2>2. \A k \in {1, 2, 3} : new[k].digits \in 0 .. 3 /\ new[k].dots \in 0 .. 1
      BY <2>1, UsageTextFits
    <2>3. /\ Changing(row) = {2, 4, 6} /\ DOMAIN texts = 1 .. 7
          /\ \A i \in {2, 4, 6} : Items(row)[i] = Three
      BY <1>1, ChangingAre DEF AmountInv
    <2>4. Update(At(<<2, 4, 6>>, new)) /\ {2, 4, 6} \subseteq DOMAIN texts
      BY <1>3, <2>1, <2>3
    <2>5. /\ texts'[2] = new[1] /\ texts'[4] = new[2] /\ texts'[6] = new[3]
          /\ \A i \in DOMAIN texts \ {2, 4, 6} : texts'[i] = texts[i]
      BY <2>4, UpdateEven
    <2>6. row' = row /\ DOMAIN texts' = DOMAIN texts
      BY <2>4, UpdateKeeps
    <2>7. \A i \in Changing(row) : ~TooWide(row, i, texts'[i])
      <3>1. \A i \in {2, 4, 6} : \A t : t.digits \in 0 .. 3 /\ t.dots \in 0 .. 1 => ~TooWide(row, i, t)
        BY <2>3, MadeFor
      <3> QED  BY <2>2, <2>3, <2>5, <3>1
    <2>8. AmountsTrue'
      BY <1>1, <2>6, NoAmount
    <2> QED  BY <2>3, <2>5, <2>6, <2>7, <2>8, Ticked, SMT
  <1> QED  BY <1>2, <1>3, Zenon DEF UsageTick

LEMMA LoadTickFits ==
    ASSUME AmountInv, NEW l \in Loads, LoadTick(l)
    PROVE  AmountInv'
  <1>1. PICK new : new = [n \in 1 .. 3 |-> LoadText(l[n])]
    OBVIOUS
  <1>2. row = "load" /\ seen' = l /\ Update(At(<<2, 4, 6>>, new))
    BY <1>1 DEF LoadTick
  <1>3. \A n \in {1, 2, 3} : l[n] \in Nat /\ new[n] = LoadText(l[n])
    BY <1>1, LoadAssumption
  <1>4. /\ Changing(row) = {2, 4, 6} /\ DOMAIN texts = 1 .. 6
        /\ \A i \in {2, 4, 6} : Items(row)[i] = Three
    BY <1>2, ChangingAre DEF AmountInv
  <1>5. /\ texts'[2] = new[1] /\ texts'[4] = new[2] /\ texts'[6] = new[3]
        /\ \A i \in DOMAIN texts \ {2, 4, 6} : texts'[i] = texts[i]
    <2>1. {2, 4, 6} \subseteq DOMAIN texts
      BY <1>4
    <2> QED  BY <1>2, <2>1, UpdateEven
  <1>6. row' = row /\ DOMAIN texts' = DOMAIN texts
    BY <1>2, UpdateKeeps
  <1>7. ASSUME NEW n \in {1, 2, 3}
        PROVE  TooWide(row, 2 * n, new[n]) => Tolerated(row, 2 * n, seen', new[n])
    <2>1. l[n] < 1000 * 65536 - 327 => new[n].digits = 3 /\ new[n].dots \in {0, 1}
      BY <1>3, LoadReads, SMT
    <2>2. Items(row)[2 * n] = Three
      BY <1>4
    <2>3. new[n].digits = 3 /\ new[n].dots \in {0, 1} => ~TooWide(row, 2 * n, new[n])
      BY <2>2, MadeFor
    <2>4. l[n] >= 1000 * 65536 - 327 => Tolerated(row, 2 * n, seen', new[n])
      <3>1. (2 * n) \div 2 = n
        OBVIOUS
      <3> QED  BY <1>2, <3>1, SMT DEF Tolerated
    <2>5. l[n] < 1000 * 65536 - 327 \/ l[n] >= 1000 * 65536 - 327
      BY <1>3, SMT
    <2> QED  BY <2>1, <2>3, <2>4, <2>5, SMT
  <1>8. \A i \in Changing(row) : TooWide(row, i, texts'[i]) => Tolerated(row, i, seen', texts'[i])
    <2>1. /\ TooWide(row, 2, new[1]) => Tolerated(row, 2, seen', new[1])
          /\ TooWide(row, 4, new[2]) => Tolerated(row, 4, seen', new[2])
          /\ TooWide(row, 6, new[3]) => Tolerated(row, 6, seen', new[3])
      <3>1. 2 * 1 = 2 /\ 2 * 2 = 4 /\ 2 * 3 = 6
        OBVIOUS
      <3> QED  BY <1>7, <3>1
    <2> QED  BY <1>4, <1>5, <2>1
  <1>9. AmountsTrue'
    <2>1. ASSUME NEW n \in 1 .. 3, l[n] < 1000 * 65536
          PROVE  Reads(texts'[2 * n], Text(0, 0, 0), l[n], 65536, 1024)
      <3>1. texts'[2 * n] = LoadText(l[n])
        BY <1>3, <1>5
      <3>2. l[n] \in Nat
        BY <1>3
      <3> QED  BY <2>1, <3>1, <3>2, LoadReads, SMT
    <2> QED  BY <1>2, <1>6, <2>1, SMT DEF AmountsTrue
  <1> QED  BY <1>4, <1>5, <1>6, <1>8, <1>9, Ticked, SMT

\* Two amounts with their units.
LEMMA FourTick ==
    ASSUME AmountInv, row \in {"ram", "disk", "net"},
           NEW p, NEW q, NEW r, NEW s, p # q, p # r, p # s, q # r, q # s, r # s,
           Changing(row) = {p, q, r, s}, {p, q, r, s} \subseteq DOMAIN texts,
           Items(row)[p] = Three, Items(row)[q] = Unit, Items(row)[r] = Three, Items(row)[s] = Unit,
           NEW a, NEW b, NEW c, NEW d, Update(At(<<p, q, r, s>>, <<a, b, c, d>>)),
           Narrow(a), b.digits \in {0, 1}, b.dots = 0, Narrow(c), d.digits \in {0, 1}, d.dots = 0
    PROVE  /\ row' = row /\ texts'[p] = a /\ texts'[q] = b /\ texts'[r] = c /\ texts'[s] = d
           /\ AmountsTrue' => AmountInv'
  <1>1. row' = row /\ DOMAIN texts' = DOMAIN texts
    BY UpdateKeeps
  <1>2. /\ texts'[p] = a /\ texts'[q] = b /\ texts'[r] = c /\ texts'[s] = d
        /\ \A i \in DOMAIN texts \ {p, q, r, s} : texts'[i] = texts[i]
    BY UpdateFour
  <1>3. ~TooWide(row, q, b) /\ ~TooWide(row, s, d)
    BY MadeFor
  <1>4. ASSUME NEW i, Items(row)[i] = Three, NEW t, Narrow(t), TooWide(row, i, t)
        PROVE  Tolerated(row, i, seen', t)
    <2>1. ~(t.digits \in 0 .. 3 /\ t.dots \in 0 .. 1)
      BY <1>4, MadeFor
    <2>2. t.value = 100000
      BY <1>4, <2>1, SMT DEF Narrow
    <2> QED  BY <2>2, SMT DEF Tolerated
  <1>5. ASSUME NEW i \in Changing(row), TooWide(row, i, texts'[i])
        PROVE  Tolerated(row, i, seen', texts'[i])
    <2>1. i \in {p, q, r, s}
      OBVIOUS
    <2>2. i = p \/ i = r
      BY <1>2, <1>3, <1>5, <2>1
    <2> QED  BY <1>2, <1>4, <1>5, <2>2
  <1>6. \A i \in DOMAIN texts : i \notin Changing(row) => texts'[i] = texts[i]
    BY <1>2
  <1>7. ASSUME AmountsTrue' PROVE AmountInv'
    BY <1>1, <1>5, <1>6, <1>7, Ticked
  <1> QED  BY <1>1, <1>2, <1>7

LEMMA MemTickFits ==
    ASSUME AmountInv, NEW lines \in MemInfos, MemTick(lines)
    PROVE  AmountInv'
  <1>1. PICK used \in 0 .. Word - 1, total \in 0 .. Word - 1 :
           used = Kilo(MemUsed(lines)) /\ total = Kilo(MemTotal(lines))
    BY MemUsedIs, KiloIs
  <1>2. PICK a, b, c, d : /\ a = AmountText(used, 1, 1024) /\ b = UnitText(used, 1, 1024)
                          /\ c = AmountText(total, 1, 1024) /\ d = UnitText(total, 1, 1024)
    OBVIOUS
  <1>3. row = "ram" /\ seen' = lines /\ Update(At(<<1, 2, 4, 5>>, <<a, b, c, d>>))
    BY <1>1, <1>2 DEF MemTick
  <1>4. /\ Reads(a, b, used, 1, 1024) /\ Narrow(a) /\ b.digits \in {0, 1} /\ b.dots = 0
        /\ Reads(c, d, total, 1, 1024) /\ Narrow(c) /\ d.digits \in {0, 1} /\ d.dots = 0
    <2>1. PICK base \in {1000, 1024} : base = 1024
      OBVIOUS
    <2> QED  BY <1>2, <2>1, BytesRead
  <1>5. /\ Changing(row) = {1, 2, 4, 5} /\ {1, 2, 4, 5} \subseteq DOMAIN texts
        /\ Items(row)[1] = Three /\ Items(row)[2] = Unit /\ Items(row)[4] = Three /\ Items(row)[5] = Unit
    BY <1>3, ChangingAre DEF AmountInv
  <1>6. PICK p, q, r, s : p = 1 /\ q = 2 /\ r = 4 /\ s = 5
    OBVIOUS
  <1>7. /\ row' = row /\ texts'[p] = a /\ texts'[q] = b /\ texts'[r] = c /\ texts'[s] = d
        /\ AmountsTrue' => AmountInv'
    <2>1. p # q /\ p # r /\ p # s /\ q # r /\ q # s /\ r # s
      BY <1>6
    <2>2. /\ Changing(row) = {p, q, r, s} /\ {p, q, r, s} \subseteq DOMAIN texts
          /\ Items(row)[p] = Three /\ Items(row)[q] = Unit /\ Items(row)[r] = Three /\ Items(row)[s] = Unit
          /\ Update(At(<<p, q, r, s>>, <<a, b, c, d>>)) /\ row \in {"ram", "disk", "net"}
      BY <1>3, <1>5, <1>6
    <2> QED  BY <1>4, <2>1, <2>2, FourTick
  <1>8. Complete(lines) => /\ used = 1024 * (Told(lines, "MemTotal") - NotUsed(lines))
                           /\ total = 1024 * Told(lines, "MemTotal")
    <2>1. ASSUME Complete(lines)
          PROVE  used = 1024 * MemUsed(lines) /\ total = 1024 * MemTotal(lines)
      <3>1. PICK m \in Nat, n \in Nat : m = MemUsed(lines) /\ n = MemTotal(lines)
                                        /\ 1024 * m < Word /\ 1024 * n < Word
        BY <2>1, MemUsedIs
      <3> QED  BY <1>1, <3>1, KiloIs
    <2> QED  BY <2>1, MemUsedIs
  <1>9. AmountsTrue'
    <2>1. texts'[1] = a /\ texts'[2] = b /\ texts'[4] = c /\ texts'[5] = d
      BY <1>6, <1>7
    <2>2. ASSUME Complete(lines)
          PROVE  /\ Reads(a, b, 1024 * (Told(lines, "MemTotal") - NotUsed(lines)), 1, 1024)
                 /\ Reads(c, d, 1024 * Told(lines, "MemTotal"), 1, 1024)
      BY <1>4, <1>8, <2>2
    <2> QED  BY <1>3, <1>7, <2>1, <2>2, SMT DEF AmountsTrue
  <1> QED  BY <1>7, <1>9

LEMMA DiskTickFits ==
    ASSUME AmountInv, NEW fs \in FileSystems, DiskTick(fs)
    PROVE  AmountInv'
  <1>1. PICK k \in Nat, f \in Nat, z \in Nat : k = fs.blocks /\ f = fs.bfree /\ z = fs.bsize /\ f <= k /\ k * z < Word
    BY FileSystemAssumption
  <1>2. PICK used \in 0 .. Word - 1, total \in 0 .. Word - 1 :
           used = (k - f) * z /\ total = k * z
    <2>1. (k - f) * z <= k * z /\ (k - f) \in Nat
      BY <1>1, TimesMonotone
    <2>2. (k - f) * z \in Nat /\ k * z \in Nat
      BY <2>1
    <2> QED  BY <1>1, <2>1, <2>2, WordAssumption
  <1>3. used = DiskUsed(fs) /\ total = DiskTotal(fs)
    <2>1. \A x \in Nat, m \in Nat \ {0} : x < m => x % m = x
      OBVIOUS
    <2>2. used % Word = used /\ total % Word = total
      BY <2>1, WordAssumption
    <2> QED  BY <1>1, <1>2, <2>2 DEF DiskUsed, DiskTotal
  <1>4. PICK a, b, c, d : /\ a = AmountText(used, 1, 1024) /\ b = UnitText(used, 1, 1024)
                          /\ c = AmountText(total, 1, 1024) /\ d = UnitText(total, 1, 1024)
    OBVIOUS
  <1>5. row = "disk" /\ seen' = <<fs>> /\ Update(At(<<2, 3, 5, 6>>, <<a, b, c, d>>))
    BY <1>3, <1>4 DEF DiskTick
  <1>6. /\ Reads(a, b, used, 1, 1024) /\ Narrow(a) /\ b.digits \in {0, 1} /\ b.dots = 0
        /\ Reads(c, d, total, 1, 1024) /\ Narrow(c) /\ d.digits \in {0, 1} /\ d.dots = 0
    <2>1. PICK base \in {1000, 1024} : base = 1024
      OBVIOUS
    <2> QED  BY <1>4, <2>1, BytesRead
  <1>7. /\ Changing(row) = {2, 3, 5, 6} /\ {2, 3, 5, 6} \subseteq DOMAIN texts
        /\ Items(row)[2] = Three /\ Items(row)[3] = Unit /\ Items(row)[5] = Three /\ Items(row)[6] = Unit
    BY <1>5, ChangingAre DEF AmountInv
  <1>8. PICK p, q, r, s : p = 2 /\ q = 3 /\ r = 5 /\ s = 6
    OBVIOUS
  <1>9. /\ row' = row /\ texts'[p] = a /\ texts'[q] = b /\ texts'[r] = c /\ texts'[s] = d
        /\ AmountsTrue' => AmountInv'
    <2>1. p # q /\ p # r /\ p # s /\ q # r /\ q # s /\ r # s
      BY <1>8
    <2>2. /\ Changing(row) = {p, q, r, s} /\ {p, q, r, s} \subseteq DOMAIN texts
          /\ Items(row)[p] = Three /\ Items(row)[q] = Unit /\ Items(row)[r] = Three /\ Items(row)[s] = Unit
          /\ Update(At(<<p, q, r, s>>, <<a, b, c, d>>)) /\ row \in {"ram", "disk", "net"}
      BY <1>5, <1>7, <1>8
    <2> QED  BY <1>6, <2>1, <2>2, FourTick
  <1>10. AmountsTrue'
    <2>1. texts'[2] = a /\ texts'[3] = b /\ texts'[5] = c /\ texts'[6] = d
      BY <1>8, <1>9
    <2>2. used = (fs.blocks - fs.bfree) * fs.bsize /\ total = fs.blocks * fs.bsize
      BY <1>1, <1>2
    <2>3. seen'[1] = fs
      BY <1>5
    <2>4. /\ Reads(texts'[2], texts'[3], (seen'[1].blocks - seen'[1].bfree) * seen'[1].bsize, 1, 1024)
          /\ Reads(texts'[5], texts'[6], seen'[1].blocks * seen'[1].bsize, 1, 1024)
      BY <1>6, <2>1, <2>2, <2>3
    <2> QED  BY <1>5, <1>9, <2>4, SMT DEF AmountsTrue
  <1> QED  BY <1>9, <1>10

LEMMA NetTickFits ==
    ASSUME AmountInv, NEW count \in Counts, NetTick(count)
    PROVE  AmountInv'
  <1>1. PICK x \in 0 .. Word - 1, y \in 0 .. Word - 1, i \in Nat \ {0} :
           x = count[1] /\ y = count[2] /\ i = Interval /\ Divided(8000 * x, 1000)[6] < 1000 * i
    BY CountAssumption
  <1>2. PICK bits \in Nat : bits = 8000 * x /\ bits = x * 8000
    BY WordAssumption
  <1>3. PICK base \in {1000, 1024} : base = 1000
    OBVIOUS
  <1>4. PICK a, b, c, d : /\ a = AmountText(bits, i, base) /\ b = UnitText(bits, i, base)
                          /\ c = AmountText(y, 1, base) /\ d = UnitText(y, 1, base)
    OBVIOUS
  <1>5. row = "net" /\ seen' = count /\ Update(At(<<2, 3, 5, 6>>, <<a, b, c, d>>))
    BY <1>1, <1>2, <1>3, <1>4 DEF NetTick, RateText
  <1>6. /\ Reads(a, b, bits, i, base) /\ Narrow(a) /\ b.digits \in {0, 1} /\ b.dots = 0
        /\ Reads(c, d, y, 1, base) /\ Narrow(c) /\ d.digits \in {0, 1} /\ d.dots = 0
    <2>1. base \in Nat \ {0} /\ Divided(bits, base)[6] < 1000 * i
      BY <1>1, <1>2, <1>3
    <2>2. /\ Reads(a, b, bits, i, base) /\ Narrow(a) /\ b.digits \in {0, 1} /\ b.dots = 0
      BY <1>4, <2>1, AmountReads
    <2> QED  BY <1>4, <2>2, BytesRead
  <1>7. /\ Changing(row) = {2, 3, 5, 6} /\ {2, 3, 5, 6} \subseteq DOMAIN texts
        /\ Items(row)[2] = Three /\ Items(row)[3] = Unit /\ Items(row)[5] = Three /\ Items(row)[6] = Unit
    BY <1>5, ChangingAre DEF AmountInv
  <1>8. PICK p, q, r, s : p = 2 /\ q = 3 /\ r = 5 /\ s = 6
    OBVIOUS
  <1>9. /\ row' = row /\ texts'[p] = a /\ texts'[q] = b /\ texts'[r] = c /\ texts'[s] = d
        /\ AmountsTrue' => AmountInv'
    <2>1. p # q /\ p # r /\ p # s /\ q # r /\ q # s /\ r # s
      BY <1>8
    <2>2. /\ Changing(row) = {p, q, r, s} /\ {p, q, r, s} \subseteq DOMAIN texts
          /\ Items(row)[p] = Three /\ Items(row)[q] = Unit /\ Items(row)[r] = Three /\ Items(row)[s] = Unit
          /\ Update(At(<<p, q, r, s>>, <<a, b, c, d>>)) /\ row \in {"ram", "disk", "net"}
      BY <1>5, <1>7, <1>8
    <2> QED  BY <1>6, <2>1, <2>2, FourTick
  <1>10. AmountsTrue'
    <2>1. texts'[2] = a /\ texts'[3] = b /\ texts'[5] = c /\ texts'[6] = d
      BY <1>8, <1>9
    <2>2. seen'[1] = x /\ seen'[2] = y
      BY <1>1, <1>5
    <2>3. /\ Reads(texts'[2], texts'[3], 8000 * seen'[1], Interval, 1000)
          /\ Reads(texts'[5], texts'[6], seen'[2], 1, 1000)
      BY <1>1, <1>2, <1>3, <1>6, <2>1, <2>2
    <2> QED  BY <1>5, <1>9, <2>3, SMT DEF AmountsTrue
  <1> QED  BY <1>9, <1>10

LEMMA AmountStepInv == AmountInv /\ [WidgetNext]_widgetVars => AmountInv'
  <1> SUFFICES ASSUME AmountInv, [WidgetNext]_widgetVars PROVE AmountInv'
    OBVIOUS
  <1>1. ASSUME UNCHANGED <<row, seen, texts>> PROVE AmountInv'
    BY <1>1, SameTexts
  <1>2. ASSUME NEW s, UsageUnknown(s) PROVE AmountInv'
    BY <1>2, SameTexts DEF UsageUnknown
  <1>3. ASSUME CallbackFails \/ DrawAll \/ \E i \in DOMAIN texts : DrawOne(i) PROVE AmountInv'
    BY <1>1, <1>3, Zenon DEF CallbackFails, DrawAll, DrawOne
  <1>4. CASE WidgetNext
    BY <1>2, <1>3, <1>4, ChangeableTick, UptimeTickFits, LoadTickFits, UsageTickFits, TempTickFits,
       MemTickFits, DiskTickFits, NetTickFits, Zenon DEF WidgetNext
  <1>5. CASE UNCHANGED widgetVars
    BY <1>1, <1>5 DEF widgetVars
  <1> QED  BY <1>4, <1>5

\* Loads, memory, disk and network always read as what the kernel said, to
\* the last digit there is room for and in the unit that leaves three, for
\* every amount that is one (tm_item_data_unit_update, tm_clock_loadavg_str,
\* tm_net_stat_update).
THEOREM AmountsAlwaysTrue == WidgetSpec => []AmountsTrue
  <1>1. AmountInv => AmountsTrue
    BY DEF AmountInv
  <1> QED  BY <1>1, AmountInitInv, AmountStepInv, PTL DEF WidgetSpec

\* No text but those that TextsFit lists is ever too wide for its place, for
\* any font and whatever the kernel says (the tables of tm_item_init calls
\* and the printf formats).
THEOREM TextsAlwaysFit == WidgetSpec => []TextsFit
  <1>1. AmountInv => TextsFit
    BY DEF AmountInv
  <1> QED  BY <1>1, AmountInitInv, AmountStepInv, PTL DEF WidgetSpec
=============================================================================
