----------------------------- MODULE TmNet_proofs ----------------------------
(***************************************************************************)
(* The net widget's callback, for any interface, answers and word sizes:   *)
(* no path loses the socket or stops the program without a failure, the    *)
(* difference the rate is made from is exact unless a 32-bit counter has   *)
(* wrapped, and what is shown is what the last dumps told (ShownInv).      *)
(***************************************************************************)
EXTENDS TmNet, TLAPS

Busy == {"send", "recv", "parse"}

\* The socket after a step that closes it, and the one that opens it.
LEMMA Closed ==
    ASSUME open' = FALSE, queue' = <<>>, msgs' = <<>>, pc' \notin Busy,
           pc' = "stopped" => failure' # "none"
    PROVE  CallbackHonest'
  <1>1. ~open'
    BY Zenon
  <1>2. open' <=> (pc' \in {"send", "recv", "parse"})
    BY <1>1, Zenon DEF Busy
  <1>3. open' = (pc' \in {"send", "recv", "parse"})
    BY <1>2, open' \in BOOLEAN
  <1> QED  BY <1>3 DEF CallbackHonest

LEMMA Opened ==
    ASSUME open' = TRUE, pc' \in Busy
    PROVE  CallbackHonest'
  <1>1. open' = (pc' \in {"send", "recv", "parse"})
    BY Zenon DEF Busy
  <1>2. pc' # "stopped"
    BY DEF Busy
  <1> QED  BY <1>1, <1>2, Zenon DEF CallbackHonest

\* A step within a request, or outside of one, that leaves the socket alone.
LEMMA StaysOpen ==
    ASSUME CallbackHonest, pc \in Busy, open' = open, pc' \in Busy
    PROVE  CallbackHonest'
  <1>1. open = TRUE
    BY Zenon DEF CallbackHonest, Busy
  <1> QED  BY <1>1, Opened

LEMMA StaysClosed ==
    ASSUME CallbackHonest, pc \notin Busy, UNCHANGED socket, pc' \notin Busy,
           pc' = "stopped" => failure' # "none"
    PROVE  CallbackHonest'
  <1>1. ~open
    BY Zenon DEF CallbackHonest, Busy
  <1>2. queue = <<>> /\ msgs = <<>>
    BY <1>1, Zenon DEF CallbackHonest
  <1>3. open = FALSE
    <2>1. open = (pc \in {"send", "recv", "parse"})
      BY Zenon DEF CallbackHonest
    <2>2. (pc \in {"send", "recv", "parse"}) \in BOOLEAN
      OBVIOUS
    <2>3. open \in BOOLEAN
      BY <2>1, <2>2, Zenon
    <2> QED  BY <1>1, <2>3, Zenon
  <1> QED  BY <1>2, <1>3, Closed DEF socket

\* No path through a dump leaves its socket open, and only a failed call - not
\* a signal, not an answer - makes tm_net_timer fail.
THEOREM CallbackAlwaysHonest == NetSpec => []CallbackHonest
  <1>1. NetInit => CallbackHonest
    <2> SUFFICES ASSUME NetInit PROVE CallbackHonest  OBVIOUS
    <2>1. open = FALSE /\ queue = <<>> /\ msgs = <<>> /\ pc = "idle"
      BY DEF NetInit
    <2>2. open <=> (pc \in {"send", "recv", "parse"})
      BY <2>1
    <2>3. open = (pc \in {"send", "recv", "parse"})
      BY <2>1, <2>2, open \in BOOLEAN
    <2> QED  BY <2>1, <2>3 DEF CallbackHonest
  <1>2. CallbackHonest /\ [NetNext]_netVars => CallbackHonest'
    <2> SUFFICES ASSUME CallbackHonest, [NetNext]_netVars PROVE CallbackHonest'
      OBVIOUS
    <2>1. CASE LinkChanges
      BY <2>1 DEF LinkChanges, socket, CallbackHonest
    <2>2. CASE TimerFires
      BY <2>2, StaysClosed DEF TimerFires, Busy
    <2>3. CASE SocketFails
      BY <2>3, StaysClosed DEF SocketFails, Fails, Busy
    <2>4. CASE SocketOpens
      BY <2>4, Opened DEF SocketOpens, Busy
    <2>5. CASE SendFails
      BY <2>5, Closed DEF SendFails, Fails, Closes, Busy
    <2>6. ASSUME NEW a \in Answers, Sends(a) PROVE CallbackHonest'
      BY <2>6, StaysOpen DEF Sends, Busy
    <2>7. CASE Receive
      BY <2>7, StaysOpen DEF Receive, Busy
    <2>8. CASE ReceiveForeign
      BY <2>8, Closed DEF ReceiveForeign, Fails, Closes, Busy
    <2>9. CASE Interrupt
      BY <2>9, StaysOpen DEF Interrupt, socket, Busy
    <2>10. CASE ReceiveFails
      BY <2>10, Closed DEF ReceiveFails, Fails, Closes, ResponseEnds, Busy
    <2>11. CASE NextDatagram
      BY <2>11, StaysOpen DEF NextDatagram, socket, Busy
    <2>12. CASE SkipMessage
      BY <2>12, StaysOpen DEF SkipMessage, Message, Busy
    <2>13. CASE Done
      BY <2>13, Closed DEF Done, ResponseEnds, Closes, Busy
    <2>14. CASE NewAddr
      BY <2>14, Closed DEF NewAddr, ResponseEnds, Closes, Busy
    <2>15. CASE NewLink
      BY <2>15, Closed, StaysOpen DEF NewLink, Message, ResponseEnds, Closes, Busy
    <2>16. CASE Show
      BY <2>16, StaysClosed DEF Show, Busy
    <2>17. CASE UNCHANGED netVars
      BY <2>17 DEF netVars, socket, CallbackHonest
    <2> QED
      BY <2>1, <2>2, <2>3, <2>4, <2>5, <2>6, <2>7, <2>8, <2>9, <2>10, <2>11, <2>12,
         <2>13, <2>14, <2>15, <2>16, <2>17 DEF NetNext, CallbackStep
  <1> QED  BY <1>1, <1>2, PTL DEF NetSpec

-----------------------------------------------------------------------------
LEMMA DivMod ==
    ASSUME NEW a \in Nat, NEW m \in Nat \ {0}
    PROVE  a = m * (a \div m) + (a % m) /\ a % m \in 0 .. m - 1 /\ a \div m \in Nat
  OBVIOUS

LEMMA ModSmall ==
    ASSUME NEW a \in Nat, NEW m \in Nat \ {0}, a < m
    PROVE  a % m = a
  OBVIOUS

\* Within one round of a counter its readings differ as the values do.
LEMMA SameRound ==
    ASSUME NEW a \in Nat, NEW b \in Nat, NEW m \in Nat \ {0}, a \div m = b \div m
    PROVE  (a % m) - (b % m) = a - b
  <1>1. PICK q \in Nat : q = a \div m
    BY DivMod
  <1>2. PICK p \in Int : p = m * q
    OBVIOUS
  <1>3. a = p + (a % m) /\ a % m \in Int
    BY <1>1, <1>2, DivMod
  <1>4. b = p + (b % m) /\ b % m \in Int
    <2>1. q = b \div m
      BY <1>1
    <2> QED  BY <1>2, <2>1, DivMod
  <1> QED  BY <1>3, <1>4

-----------------------------------------------------------------------------
Kinds == {"64", "32", "none"}

\* A state of the interface of this kind that has counted no more than n.
Known(s, kind, n) == s.stats = kind /\ s.bytes \in Nat /\ s.bytes <= n

\* What the counter says when n bytes were counted.
Reading(n) == IF link.stats = "64" THEN n % Word64 ELSE n % Word32

\* Counted bytes only grow, so a value read later is not smaller; stCur is the
\* reading of the last one, and between the two requests and the end of the
\* second dump st_dif is zero or the difference of the last two readings.
RateInv ==
    /\ DOMAIN link = {"present", "up", "addr", "bytes", "stats"}
    /\ link.stats \in Kinds /\ link.bytes \in Nat
    /\ \A r \in Requests : \A s \in window[r] : Known(s, link.stats, link.bytes)
    /\ DOMAIN window = Requests
    /\ req \in Requests
    /\ cur \in Nat /\ prev \in Nat /\ prev <= cur /\ cur <= link.bytes
    /\ link.stats = "none" => cur = 0
    /\ stCur = Reading(cur)
    /\ req = "link" /\ pc \in {"recv", "parse"} =>
          \A s \in window["link"] : cur <= s.bytes
    /\ req = "link" /\ pc \in {"socket", "send", "recv", "parse"} => stDif = 0
    /\ pc = "show" => IF sampled THEN stDif = (Reading(cur) - Reading(prev)) % Word64
                      ELSE stDif = 0

LEMMA RateInitInv == NetInit => RateInv
  <1> SUFFICES ASSUME NetInit PROVE RateInv  OBVIOUS
  <1>1. 0 % Word32 = 0 /\ 0 % Word64 = 0
    BY NetAssumption
  <1> QED  BY <1>1 DEF NetInit, RateInv, Kinds, Requests, Known, Reading

\* The state of the counters is left alone but for where the callback is.
LEMMA QuietInv ==
    ASSUME RateInv, UNCHANGED <<link, window, req, cur, prev, stCur, stDif>>,
           pc' \notin {"show"},
           req = "link" => \/ pc' \notin {"socket", "send", "recv", "parse"}
                           \/ pc \in {"socket", "send"} /\ pc' \in {"socket", "send"}
                           \/ pc \in {"recv", "parse"} /\ pc' \in {"recv", "parse"}
    PROVE  RateInv'
  BY DEF RateInv, Known, Reading

LEMMA RateStepInv == RateInv /\ [NetNext]_netVars => RateInv'
  <1> SUFFICES ASSUME RateInv, [NetNext]_netVars PROVE RateInv'  OBVIOUS
  <1>1. CASE LinkChanges
    <2>1. PICK v : \/ link' = [link EXCEPT !.up = v]
                   \/ link' = [link EXCEPT !.addr = v]
                   \/ link' = [link EXCEPT !.bytes = link.bytes + 1]
                   \/ link' = [link EXCEPT !.present = FALSE, !.addr = NoAddress]
      BY <1>1, Zenon DEF LinkChanges
    <2>2. /\ DOMAIN link' = DOMAIN link /\ link'.stats = link.stats
          /\ link'.bytes \in Nat /\ link.bytes <= link'.bytes
      <3>1. "stats" \in DOMAIN link /\ "bytes" \in DOMAIN link /\ link.bytes \in Nat
        BY DEF RateInv
      <3>2. CASE link' = [link EXCEPT !.up = v]  BY <3>1, <3>2
      <3>3. CASE link' = [link EXCEPT !.addr = v]  BY <3>1, <3>3
      <3>4. CASE link' = [link EXCEPT !.bytes = link.bytes + 1]  BY <3>1, <3>4
      <3>5. CASE link' = [link EXCEPT !.present = FALSE, !.addr = NoAddress]  BY <3>1, <3>5
      <3> QED  BY <2>1, <3>2, <3>3, <3>4, <3>5
    <2>3. /\ UNCHANGED <<pc, req, cur, prev, stCur, stDif, sampled>>
          /\ window' \in {window, [window EXCEPT ![req] = @ \cup {link'}]}
      BY <1>1 DEF LinkChanges, data, sample
    <2>4. /\ DOMAIN window' = Requests
          /\ \A r \in Requests : window'[r] \subseteq window[r] \cup {link'}
      BY <2>3 DEF RateInv
    <2>5. ASSUME NEW r \in Requests, NEW s \in window'[r]
          PROVE  Known(s, link.stats, link'.bytes) /\ (s \in window[r] \/ s = link')
      BY <2>2, <2>4 DEF RateInv, Known
    <2>6. Reading(cur)' = Reading(cur) /\ Reading(prev)' = Reading(prev)
      BY <2>2, <2>3 DEF Reading
    <2>7. req = "link" /\ pc \in {"recv", "parse"} =>
            \A s \in window'["link"] : cur <= s.bytes
      BY <2>2, <2>5 DEF RateInv, Requests
    <2> QED  BY <2>2, <2>3, <2>4, <2>5, <2>6, <2>7 DEF RateInv
  <1>2. CASE TimerFires
    BY <1>2 DEF TimerFires, kernel, sample, RateInv, Requests, Known, Reading
  <1>3. CASE SocketFails
    BY <1>3 DEF SocketFails, Fails, kernel, data, sample, RateInv, Requests, Known, Reading
  <1>4. CASE SocketOpens
    BY <1>4, QuietInv DEF SocketOpens, kernel, data, sample
  <1>5. CASE SendFails
    BY <1>5 DEF SendFails, Fails, kernel, data, sample, RateInv, Requests, Known, Reading
  <1>6. ASSUME NEW a \in Answers, Sends(a) PROVE RateInv'
    BY <1>6 DEF Sends, kernel, data, sample, RateInv, Requests, Known, Reading
  <1>7. CASE Receive
    BY <1>7, QuietInv DEF Receive, kernel, data, sample
  <1>8. CASE ReceiveForeign
    BY <1>8 DEF ReceiveForeign, Fails, kernel, data, sample, RateInv, Requests, Known, Reading
  <1>9. CASE Interrupt
    BY <1>9, QuietInv DEF Interrupt, kernel, data, sample
  <1>10. CASE ReceiveFails
    BY <1>10 DEF ReceiveFails, Fails, ResponseEnds, kernel, data, sample, RateInv,
                 Requests, Known, Reading
  <1>11. CASE NextDatagram
    BY <1>11, QuietInv DEF NextDatagram, kernel, data, sample
  <1>12. CASE SkipMessage
    BY <1>12, QuietInv DEF SkipMessage, Message, kernel, data, sample
  <1>13. CASE Done
    BY <1>13 DEF Done, Message, ResponseEnds, kernel, RateInv, Requests, Known, Reading
  <1>14. CASE NewAddr
    BY <1>14 DEF NewAddr, Message, ResponseEnds, kernel, RateInv, Requests, Known, Reading
  <1>15. CASE NewLink
    <2>1. PICK s \in window["link"] :
            /\ s.present
            /\ IF s.stats = "none"
               THEN UNCHANGED <<pc, stCur, stDif, sampled, prev, cur>>
               ELSE /\ ResponseEnds((Counter(s) - stCur) % Word64, TRUE)
                    /\ stCur' = Counter(s) /\ prev' = cur /\ cur' = s.bytes
      BY <1>15 DEF NewLink, Message, sample
    <2>2. /\ req = "link" /\ pc = "parse" /\ req' = req
          /\ link' = link /\ window' = window
      BY <1>15 DEF NewLink, Message, ResponseEnds, kernel
    <2>3. CASE s.stats = "none"
      BY <2>1, <2>2, <2>3, QuietInv
    <2>4. CASE s.stats # "none"
      <3>1. /\ pc' = "show" /\ sampled' = TRUE
            /\ stDif' = (Counter(s) - stCur) % Word64
            /\ stCur' = Counter(s) /\ prev' = cur /\ cur' = s.bytes
        BY <2>1, <2>2, <2>4, Zenon DEF ResponseEnds
      <3>2. /\ s.bytes \in Nat /\ cur <= s.bytes /\ s.bytes <= link.bytes
            /\ Counter(s) = Reading(s.bytes) /\ link.stats # "none"
        BY <2>2, <2>4 DEF RateInv, Known, Counter, Reading, Requests
      <3>3. Reading(cur)' = Reading(s.bytes) /\ Reading(prev)' = Reading(cur)
        BY <2>2, <3>1 DEF Reading
      <3> HIDE DEF Reading
      <3> QED  BY <2>2, <3>1, <3>2, <3>3 DEF RateInv
    <2> QED  BY <2>3, <2>4
  <1>16. CASE Show
    BY <1>16 DEF Show, kernel, data, RateInv, Known, Reading
  <1>17. CASE UNCHANGED netVars
    BY <1>17 DEF netVars, kernel, data, sample, RateInv, Known, Reading
  <1> QED
    BY <1>1, <1>2, <1>3, <1>4, <1>5, <1>6, <1>7, <1>8, <1>9, <1>10, <1>11, <1>12,
       <1>13, <1>14, <1>15, <1>16, <1>17 DEF NetNext, CallbackStep

LEMMA RateCorrect == RateInv => RateExact
  <1> SUFFICES ASSUME RateInv, pc = "show", sampled, ~Wrapped, cur < Word64
               PROVE  stDif = cur - prev
    BY DEF RateInv, RateExact
  <1>1. /\ cur \in Nat /\ prev \in Nat /\ prev <= cur
        /\ stDif = (Reading(cur) - Reading(prev)) % Word64
    BY DEF RateInv
  <1>2. Reading(cur) - Reading(prev) = cur - prev
    <2>1. CASE link.stats = "64"
      BY <1>1, <2>1, ModSmall, NetAssumption DEF Reading
    <2>2. CASE link.stats = "32"
      <3>1. prev \div Word32 = cur \div Word32
        BY <2>2 DEF Wrapped
      <3> QED  BY <1>1, <2>2, <3>1, SameRound, NetAssumption DEF Reading
    <2>3. CASE link.stats = "none"
      BY <1>1, <2>3 DEF RateInv, Reading
    <2> QED  BY <2>1, <2>2, <2>3 DEF RateInv, Kinds
  <1>3. cur - prev \in Nat /\ cur - prev < Word64
    BY <1>1, NetAssumption
  <1> QED  BY <1>1, <1>2, <1>3, ModSmall, NetAssumption

\* Whatever the interface counts and however the dumps are cut, the bytes a
\* rate is made from are those counted between the last two values read.
THEOREM RateAlwaysExact == NetSpec => []RateExact
  <1>1. NetInit => RateInv                     BY RateInitInv
  <1>2. RateInv /\ [NetNext]_netVars => RateInv'  BY RateStepInv
  <1>3. RateInv => RateExact                   BY RateCorrect
  <1> QED  BY <1>1, <1>2, <1>3, PTL DEF NetSpec

-----------------------------------------------------------------------------
\* The outcome of a dump agrees with the interface at some time since the
\* request: of the addresses with this one, of the link with this flag.
AddrAgrees(a) == \E s \in window["addr"] : a = s.addr \/ ("addr" \in lost /\ a = NoAddress)
LinkAgrees(u) == \E s \in window["link"] : ~s.present \/ u = s.up \/ "link" \in lost

Cut(n) == IF n >= ITEM_STR_MAX THEN ITEM_STR_MAX - 1 ELSE n

\* The messages and datagrams there are.
DumpInv ==
    /\ req \in Requests
    /\ DOMAIN window = Requests
    /\ msgs \in Seq(Messages) /\ queue \in Seq(Seq(Messages))
    /\ pc # "parse" => msgs = <<>>

\* Where the callback is decides what is known: a dump in work has agreed
\* already, or its "mine" is still to come; the one before has agreed.
AgreeInv ==
    /\ pc \in {"socket", "send", "recv", "parse"} /\ req = "addr" => dot = NoAddress
    /\ pc \in {"recv", "parse"} =>
          /\ window[req] # {}
          /\ \/ MineFirst(msgs, queue)
             \/ req = "addr" /\ AddrAgrees(dot)
             \/ req = "link" /\ LinkAgrees(up)
    /\ pc \in {"socket", "send", "recv", "parse"} /\ req = "link" => AddrAgrees(dot)
    /\ pc = "show" => AddrAgrees(dot) /\ LinkAgrees(up)
    /\ pc = "idle" /\ shown.called => AddrAgrees(shown.addr) /\ LinkAgrees(shown.up)

LengthInv ==
    /\ dot # NoAddress => dnLen = AddrLength[dot]
    /\ shown.addr # NoAddress => shown.len = Cut(AddrLength[shown.addr])

ShownInv == DumpInv /\ AgreeInv /\ LengthInv

-----------------------------------------------------------------------------
\* What a dump still to be looked at keeps when messages are taken from it.
LEMMA MineFirstReceived ==
    ASSUME NEW q \in Seq(Seq(Messages)), q # <<>>, MineFirst(<<>>, q)
    PROVE  MineFirst(Head(q), Tail(q))
  <1>1. /\ Head(q) = q[1] /\ 1 \in DOMAIN q
        /\ \A i \in DOMAIN Tail(q) : i \in Nat \ {0} /\ i + 1 \in DOMAIN q /\ Tail(q)[i] = q[i + 1]
        /\ \A h \in DOMAIN q : h \in Nat \ {0} /\ h <= Len(q)
        /\ DOMAIN Tail(q) = 1 .. Len(q) - 1
    OBVIOUS
  <1>2. \A i \in DOMAIN q : \A j \in DOMAIN q[i] :
          q[i][j] = "done" =>
            \/ \E h \in 1 .. i - 1 : \E k \in 1 .. Len(q[h]) : q[h][k] = "mine"
            \/ \E k \in 1 .. j - 1 : q[i][k] = "mine"
    BY DEF MineFirst
  <1>3. ASSUME NEW j \in DOMAIN Head(q), Head(q)[j] = "done"
        PROVE  \E k \in 1 .. j - 1 : Head(q)[k] = "mine"
    BY <1>1, <1>2, <1>3
  <1>4. ASSUME NEW i \in DOMAIN Tail(q), NEW j \in DOMAIN Tail(q)[i], Tail(q)[i][j] = "done"
        PROVE  \/ \E k \in 1 .. Len(Head(q)) : Head(q)[k] = "mine"
               \/ \E h \in 1 .. i - 1 : \E k \in 1 .. Len(Tail(q)[h]) : Tail(q)[h][k] = "mine"
               \/ \E k \in 1 .. j - 1 : Tail(q)[i][k] = "mine"
    <2>1. CASE \E k \in 1 .. j - 1 : q[i + 1][k] = "mine"
      BY <1>1, <2>1
    <2>2. ASSUME NEW h \in 1 .. i, \E k \in 1 .. Len(q[h]) : q[h][k] = "mine"
          PROVE  \/ \E k \in 1 .. Len(Head(q)) : Head(q)[k] = "mine"
                 \/ \E g \in 1 .. i - 1 : \E k \in 1 .. Len(Tail(q)[g]) : Tail(q)[g][k] = "mine"
      <3>1. CASE h = 1
        BY <1>1, <2>2, <3>1
      <3>2. CASE h # 1
        <4>1. h - 1 \in 1 .. i - 1 /\ h - 1 \in DOMAIN Tail(q) /\ h = (h - 1) + 1
          BY <1>1, <3>2
        <4>2. Tail(q)[h - 1] = q[h]
          BY <1>1, <4>1
        <4> QED  BY <2>2, <4>1, <4>2
      <3> QED  BY <3>1, <3>2
    <2>3. i + 1 \in DOMAIN q /\ j \in DOMAIN q[i + 1] /\ q[i + 1][j] = "done" /\ (i + 1) - 1 = i
      BY <1>1, <1>4
    <2> QED  BY <1>2, <2>1, <2>2, <2>3
  <1> QED  BY <1>3, <1>4 DEF MineFirst

LEMMA MineFirstSkipped ==
    ASSUME NEW m \in Seq(Messages), NEW q \in Seq(Seq(Messages)), m # <<>>, Head(m) # "mine",
           MineFirst(m, q)
    PROVE  MineFirst(Tail(m), q) /\ Head(m) # "done"
  <1>1. /\ Head(m) = m[1] /\ 1 \in DOMAIN m
        /\ \A j \in DOMAIN Tail(m) : j \in Nat \ {0} /\ j + 1 \in DOMAIN m /\ Tail(m)[j] = m[j + 1]
        /\ Len(Tail(m)) = Len(m) - 1 /\ DOMAIN Tail(m) = 1 .. Len(m) - 1
        /\ Len(m) \in Nat
    OBVIOUS
  <1>2. ASSUME NEW n \in Nat, n <= Len(m), \E k \in 1 .. n : m[k] = "mine"
        PROVE  \E k \in 1 .. n - 1 : Tail(m)[k] = "mine"
    <2>1. PICK k \in 1 .. n : m[k] = "mine"
      BY <1>2
    <2>2. k - 1 \in 1 .. n - 1 /\ k - 1 \in DOMAIN Tail(m) /\ k = (k - 1) + 1
      BY <1>1, <1>2, <2>1
    <2> QED  BY <1>1, <2>1, <2>2
  <1>3. \A j \in DOMAIN m : m[j] = "done" => \E k \in 1 .. j - 1 : m[k] = "mine"
    BY DEF MineFirst
  <1>4. ASSUME NEW j \in DOMAIN Tail(m), Tail(m)[j] = "done"
        PROVE  \E k \in 1 .. j - 1 : Tail(m)[k] = "mine"
    <2>1. /\ j + 1 \in DOMAIN m /\ m[j + 1] = "done"
          /\ j \in Nat /\ j <= Len(m) /\ (j + 1) - 1 = j
      BY <1>1, <1>4
    <2>2. \E k \in 1 .. j : m[k] = "mine"
      BY <1>3, <2>1
    <2> QED  BY <1>2, <2>1, <2>2
  <1>5. (\E k \in 1 .. Len(m) : m[k] = "mine") => \E k \in 1 .. Len(Tail(m)) : Tail(m)[k] = "mine"
    BY <1>1, <1>2
  <1>6. \A i \in DOMAIN q : \A j \in DOMAIN q[i] :
          q[i][j] = "done" =>
            \/ \E k \in 1 .. Len(m) : m[k] = "mine"
            \/ \E h \in 1 .. i - 1 : \E k \in 1 .. Len(q[h]) : q[h][k] = "mine"
            \/ \E k \in 1 .. j - 1 : q[i][k] = "mine"
    BY DEF MineFirst
  <1>7. MineFirst(Tail(m), q)
    BY <1>4, <1>5, <1>6 DEF MineFirst
  <1>8. Head(m) # "done"
    BY <1>1, <1>3
  <1> QED  BY <1>7, <1>8

-----------------------------------------------------------------------------
LEMMA ShownInitInv == NetInit => ShownInv
  <1> SUFFICES ASSUME NetInit PROVE ShownInv
    OBVIOUS
  <1>1. /\ req = "addr" /\ msgs = <<>> /\ queue = <<>> /\ pc = "idle" /\ dot = NoAddress
        /\ ~shown.called /\ shown.addr = NoAddress /\ DOMAIN window = Requests
    BY DEF NetInit
  <1>2. <<>> \in Seq(Messages) /\ <<>> \in Seq(Seq(Messages))
    OBVIOUS
  <1> QED  BY <1>1, <1>2 DEF ShownInv, DumpInv, AgreeInv, LengthInv, Requests

\* A history that has only grown agrees with what it agreed with.
LEMMA StillAgrees ==
    ASSUME NEW a, NEW u,
           \A r \in Requests : window[r] \subseteq window'[r],
           lost \subseteq lost'
    PROVE  /\ AddrAgrees(a) => \E s \in window'["addr"] :
                                    a = s.addr \/ ("addr" \in lost' /\ a = NoAddress)
           /\ LinkAgrees(u) => \E s \in window'["link"] :
                                    ~s.present \/ u = s.up \/ "link" \in lost'
  <1>1. /\ window["addr"] \subseteq window'["addr"] /\ window["link"] \subseteq window'["link"]
    BY DEF Requests
  <1> QED  BY <1>1 DEF AddrAgrees, LinkAgrees

\* A step that leaves alone what DumpInv, AgreeInv and LengthInv speak of, but
\* for the histories and for messages taken out.
LEMMA Agreeing ==
    ASSUME ShownInv, DumpInv',
           \A r \in Requests : window[r] \subseteq window'[r], lost \subseteq lost',
           UNCHANGED <<req, dot, dnLen, up, shown>>,
           pc' = pc \/ (pc \in {"recv", "parse"} /\ pc' \in {"recv", "parse"})
                     \/ (pc = "socket" /\ pc' = "send"),
           pc \in {"recv", "parse"} /\ MineFirst(msgs, queue) =>
               \/ MineFirst(msgs', queue')
               \/ req = "addr" /\ AddrAgrees(dot)
               \/ req = "link" /\ LinkAgrees(up)
    PROVE  ShownInv'
  <1>1. /\ AddrAgrees(dot) => AddrAgrees(dot)'
        /\ LinkAgrees(up) => LinkAgrees(up)'
        /\ AddrAgrees(shown.addr) => AddrAgrees(shown.addr)'
        /\ LinkAgrees(shown.up) => LinkAgrees(shown.up)'
    <2>1. dot' = dot /\ up' = up /\ shown' = shown
      OBVIOUS
    <2>2. /\ AddrAgrees(dot) => AddrAgrees(dot)'
          /\ LinkAgrees(up) => LinkAgrees(up)'
      BY <2>1, StillAgrees DEF AddrAgrees, LinkAgrees
    <2>3. /\ AddrAgrees(shown.addr) => AddrAgrees(shown.addr)'
          /\ LinkAgrees(shown.up) => LinkAgrees(shown.up)'
      BY <2>1, StillAgrees DEF AddrAgrees, LinkAgrees
    <2> QED  BY <2>2, <2>3
  <1>2. window[req] # {} => (window[req])' # {}
    BY DEF ShownInv, DumpInv
  <1> HIDE DEF AddrAgrees, LinkAgrees, MineFirst
  <1>3. AgreeInv'
    BY <1>1, <1>2 DEF ShownInv, AgreeInv
  <1>4. LengthInv'
    BY DEF ShownInv, LengthInv
  <1> QED  BY <1>3, <1>4 DEF ShownInv

\* A request that ends, with or without the data.
LEMMA Agreed ==
    ASSUME ShownInv, NEW d, NEW b, ResponseEnds(d, b), pc \in {"recv", "parse"},
           UNCHANGED <<window, shown>>,
           lost \subseteq lost',
           dot' # NoAddress => dnLen' = AddrLength[dot'],
           req = "addr" => AddrAgrees(dot)',
           req = "link" => dot' = dot /\ LinkAgrees(up)'
    PROVE  ShownInv'
  <1>1. msgs' = <<>> /\ queue' = <<>>
    BY DEF ResponseEnds, Closes
  <1>2. IF req = "addr" THEN req' = "link" /\ pc' = "socket" ELSE req' = req /\ pc' = "show"
    BY DEF ResponseEnds
  <1>3. <<>> \in Seq(Messages) /\ <<>> \in Seq(Seq(Messages))
    OBVIOUS
  <1>4. DumpInv'
    BY <1>1, <1>2, <1>3 DEF ShownInv, DumpInv, Requests
  <1>5. req = "link" => AddrAgrees(dot)'
    <2>1. SUFFICES ASSUME req = "link" PROVE AddrAgrees(dot)'
      OBVIOUS
    <2>2. AddrAgrees(dot) /\ dot' = dot /\ window' = window
      BY <2>1 DEF ShownInv, AgreeInv
    <2> QED  BY <2>2 DEF AddrAgrees
  <1> HIDE DEF AddrAgrees, LinkAgrees, MineFirst
  <1>6. req \in Requests
    BY DEF ShownInv, DumpInv
  <1>7. AgreeInv'
    <2>1. CASE req = "addr"
      BY <1>2, <2>1 DEF AgreeInv
    <2>2. CASE req = "link"
      BY <1>2, <1>5, <2>2 DEF AgreeInv
    <2> QED  BY <1>6, <2>1, <2>2 DEF Requests
  <1>8. LengthInv'
    BY DEF ShownInv, LengthInv
  <1> QED  BY <1>4, <1>7, <1>8 DEF ShownInv

LEMMA ShownStepInv == ShownInv /\ [NetNext]_netVars => ShownInv'
  <1> SUFFICES ASSUME ShownInv, [NetNext]_netVars PROVE ShownInv'
    OBVIOUS
  <1> USE DEF kernel, socket, data, sample
  <1>0. /\ req \in Requests /\ DOMAIN window = Requests
        /\ msgs \in Seq(Messages) /\ queue \in Seq(Seq(Messages))
        /\ pc # "parse" => msgs = <<>>
    BY DEF ShownInv, DumpInv
  <1>1. CASE LinkChanges
    <2>1. /\ UNCHANGED <<pc, req, msgs, queue, lost, dot, dnLen, up, shown>>
          /\ window' \in {window, [window EXCEPT ![req] = @ \cup {link'}]}
      BY <1>1 DEF LinkChanges
    <2>2. \A r \in Requests : window[r] \subseteq window'[r]
      BY <1>0, <2>1
    <2>3. DumpInv'
      BY <1>0, <2>1 DEF DumpInv
    <2> HIDE DEF ShownInv, DumpInv, MineFirst, AddrAgrees, LinkAgrees
    <2> QED  BY <2>1, <2>2, <2>3, Agreeing
  <1>2. CASE TimerFires
    <2>1. /\ pc' = "socket" /\ req' = "addr" /\ dot' = NoAddress
          /\ DOMAIN window' = Requests /\ msgs' = <<>> /\ queue' = queue
          /\ shown' = shown
      BY <1>0, <1>2 DEF TimerFires
    <2>2. DumpInv'
      BY <1>0, <2>1 DEF DumpInv, Requests
    <2>3. AgreeInv' /\ LengthInv'
      BY <2>1 DEF ShownInv, AgreeInv, LengthInv
    <2> QED  BY <2>2, <2>3 DEF ShownInv
  <1>3. ASSUME NEW w, Fails(w), (pc = "socket" /\ UNCHANGED socket) \/ Closes
         PROVE ShownInv'
    <2>1. /\ pc' = "stopped" /\ req' = req /\ DOMAIN window' = Requests
          /\ dot' = dot /\ dnLen' = dnLen /\ shown' = shown
      BY <1>3 DEF Fails
    <2>2. msgs' \in Seq(Messages) /\ queue' \in Seq(Seq(Messages))
      <3>1. <<>> \in Seq(Messages) /\ <<>> \in Seq(Seq(Messages))
        OBVIOUS
      <3> QED  BY <1>0, <1>3, <3>1 DEF Closes
    <2>3. DumpInv'
      BY <1>0, <1>3, <2>1, <2>2 DEF DumpInv, Closes
    <2>4. AgreeInv' /\ LengthInv'
      BY <2>1 DEF ShownInv, AgreeInv, LengthInv
    <2> QED  BY <2>3, <2>4 DEF ShownInv
  <1>4. CASE SocketOpens
    <2>1. /\ pc = "socket" /\ pc' = "send"
          /\ UNCHANGED <<req, msgs, queue, lost, dot, dnLen, up, shown, window>>
      BY <1>4 DEF SocketOpens
    <2>2. DumpInv'
      BY <1>0, <2>1 DEF DumpInv
    <2> HIDE DEF ShownInv, DumpInv, MineFirst, AddrAgrees, LinkAgrees
    <2> QED  BY <2>1, <2>2, Agreeing
  <1>5. ASSUME NEW a \in Answers, Sends(a)  PROVE ShownInv'
    <2>1. /\ pc = "send" /\ pc' = "recv" /\ queue' = a /\ msgs' = <<>>
          /\ window' = [window EXCEPT ![req] = {link}]
          /\ UNCHANGED <<req, lost, dot, dnLen, up, shown>>
      BY <1>0, <1>5 DEF Sends
    <2>2. a \in Seq(Seq(Messages)) /\ MineFirst(<<>>, a)
      BY AnswerAssumption
    <2>3. (window[req])' # {} /\ DOMAIN window' = Requests
          /\ (req = "link" => window'["addr"] = window["addr"])
      BY <1>0, <2>1 DEF Requests
    <2>4. MineFirst(msgs, queue)'
      BY <2>1, <2>2 DEF MineFirst
    <2>5. DumpInv'
      BY <1>0, <2>1, <2>2, <2>3 DEF DumpInv
    <2>6. AgreeInv'
      <3>1. req = "link" => AddrAgrees(dot)'
        BY <2>1, <2>3 DEF ShownInv, AgreeInv, AddrAgrees
      <3>2. req = "addr" => dot' = NoAddress
        BY <2>1 DEF ShownInv, AgreeInv
      <3> HIDE DEF MineFirst, AddrAgrees, LinkAgrees
      <3> QED  BY <2>1, <2>3, <2>4, <3>1, <3>2 DEF AgreeInv
    <2>7. LengthInv'
      BY <2>1 DEF ShownInv, LengthInv
    <2> QED  BY <2>5, <2>6, <2>7 DEF ShownInv
  <1>6. CASE Receive
    <2>1. /\ pc = "recv" /\ queue # <<>> /\ pc' = "parse" /\ msgs = <<>>
          /\ msgs' = Head(queue) /\ queue' = Tail(queue)
          /\ UNCHANGED <<req, lost, dot, dnLen, up, shown, window>>
      BY <1>0, <1>6 DEF Receive
    <2>2. DumpInv'
      <3>1. msgs' \in Seq(Messages) /\ queue' \in Seq(Seq(Messages))
        BY <1>0, <2>1
      <3> QED  BY <1>0, <2>1, <3>1 DEF DumpInv
    <2>3. MineFirst(msgs, queue) => MineFirst(msgs', queue')
      BY <1>0, <2>1, MineFirstReceived
    <2> HIDE DEF ShownInv, DumpInv, MineFirst, AddrAgrees, LinkAgrees
    <2> QED  BY <2>1, <2>2, <2>3, Agreeing
  <1>7. CASE Interrupt
    <2>1. UNCHANGED <<pc, req, msgs, queue, lost, dot, dnLen, up, shown, window>>
      BY <1>7 DEF Interrupt
    <2>2. DumpInv'
      BY <1>0, <2>1 DEF DumpInv
    <2> HIDE DEF ShownInv, DumpInv, MineFirst, AddrAgrees, LinkAgrees
    <2> QED  BY <2>1, <2>2, Agreeing
  <1>8. CASE ReceiveFails
    <2>1. CASE err = 1
      BY <1>3, <1>8, <2>1 DEF ReceiveFails
    <2>2. CASE err # 1
      <3>1. /\ pc = "recv" /\ ResponseEnds(stDif, FALSE) /\ lost' = lost \cup {req}
            /\ UNCHANGED <<dot, dnLen, up, shown, window>>
        BY <1>8, <2>2 DEF ReceiveFails
      <3>2. window[req] # {}
        BY <3>1 DEF ShownInv, AgreeInv
      <3>3. req = "addr" => AddrAgrees(dot)'
        BY <3>1, <3>2 DEF ShownInv, AgreeInv, AddrAgrees
      <3>4. req = "link" => LinkAgrees(up)'
        BY <3>1, <3>2 DEF LinkAgrees
      <3>5. dot' # NoAddress => dnLen' = AddrLength[dot']
        BY <3>1 DEF ShownInv, LengthInv
      <3> HIDE DEF ShownInv, AddrAgrees, LinkAgrees, ResponseEnds
      <3> QED  BY <3>1, <3>3, <3>4, <3>5, Agreed
    <2> QED  BY <2>1, <2>2
  <1>9. CASE NextDatagram
    <2>1. /\ pc = "parse" /\ pc' = "recv" /\ msgs = <<>>
          /\ UNCHANGED <<req, msgs, queue, lost, dot, dnLen, up, shown, window>>
      BY <1>9 DEF NextDatagram
    <2>2. DumpInv'
      BY <1>0, <2>1 DEF DumpInv
    <2> HIDE DEF ShownInv, DumpInv, MineFirst, AddrAgrees, LinkAgrees
    <2> QED  BY <2>1, <2>2, Agreeing
  <1>10. CASE SkipMessage
    <2>1. /\ pc = "parse" /\ msgs # <<>> /\ msgs' = Tail(msgs)
          /\ UNCHANGED <<pc, req, queue, lost, dot, dnLen, up, shown, window>>
      BY <1>10 DEF SkipMessage, Message
    <2>2. DumpInv'
      <3>1. msgs' \in Seq(Messages)
        BY <1>0, <2>1
      <3> QED  BY <1>0, <2>1, <3>1 DEF DumpInv
    <2>3. MineFirst(msgs, queue) =>
            \/ MineFirst(msgs', queue')
            \/ req = "addr" /\ AddrAgrees(dot)
            \/ req = "link" /\ LinkAgrees(up)
      <3>1. CASE Head(msgs) # "mine"
        BY <1>0, <2>1, <3>1, MineFirstSkipped
      <3>2. CASE Head(msgs) = "mine"
        <4>1. \E s \in window[req] : IF req = "addr" THEN s.addr = NoAddress ELSE ~s.present
          BY <1>10, <3>2 DEF SkipMessage, Message
        <4>2. req = "addr" => dot = NoAddress
          BY <2>1 DEF ShownInv, AgreeInv
        <4>3. CASE req = "addr"
          BY <4>1, <4>2, <4>3 DEF AddrAgrees
        <4>4. CASE req = "link"
          BY <4>1, <4>4 DEF LinkAgrees
        <4> QED  BY <1>0, <4>3, <4>4 DEF Requests
      <3> QED  BY <3>1, <3>2
    <2> HIDE DEF ShownInv, DumpInv, MineFirst, AddrAgrees, LinkAgrees
    <2> QED  BY <2>1, <2>2, <2>3, Agreeing
  <1>11. CASE Done
    <2>1. /\ pc = "parse" /\ msgs # <<>> /\ Head(msgs) = "done" /\ ResponseEnds(stDif, FALSE)
          /\ UNCHANGED <<dot, dnLen, up, shown, window, lost>>
      BY <1>11 DEF Done, Message
    <2>2. ~MineFirst(msgs, queue)
      BY <1>0, <2>1, MineFirstSkipped
    <2>3. (req = "addr" => AddrAgrees(dot)) /\ (req = "link" => LinkAgrees(up))
      BY <2>1, <2>2 DEF ShownInv, AgreeInv
    <2>4. (req = "addr" => AddrAgrees(dot)') /\ (req = "link" => LinkAgrees(up)')
      BY <2>1, <2>3 DEF AddrAgrees, LinkAgrees
    <2>5. dot' # NoAddress => dnLen' = AddrLength[dot']
      BY <2>1 DEF ShownInv, LengthInv
    <2> HIDE DEF ShownInv, AddrAgrees, LinkAgrees, ResponseEnds
    <2> QED  BY <2>1, <2>4, <2>5, Agreed
  <1>12. CASE NewAddr
    <2>1. PICK s \in window[req] : s.addr # NoAddress /\ dot' = s.addr /\ dnLen' = AddrLength[s.addr]
      BY <1>12 DEF NewAddr
    <2>2. /\ pc = "parse" /\ req = "addr" /\ ResponseEnds(stDif, FALSE)
          /\ UNCHANGED <<up, shown, window, lost>>
      BY <1>12 DEF NewAddr, Message
    <2>3. AddrAgrees(dot)'
      BY <2>1, <2>2 DEF AddrAgrees
    <2>4. dot' # NoAddress => dnLen' = AddrLength[dot']
      BY <2>1
    <2> HIDE DEF ShownInv, AddrAgrees, LinkAgrees, ResponseEnds
    <2> QED  BY <2>2, <2>3, <2>4, Agreed
  <1>13. CASE NewLink
    <2>1. PICK s \in window[req] :
            /\ s.present /\ up' = s.up
            /\ IF s.stats = "none"
               THEN msgs' = Tail(msgs) /\ UNCHANGED <<pc, req, queue>>
               ELSE ResponseEnds((Counter(s) - stCur) % Word64, TRUE)
      BY <1>13 DEF NewLink
    <2>2. /\ pc = "parse" /\ msgs # <<>> /\ req = "link"
          /\ UNCHANGED <<dot, dnLen, shown, window, lost>>
      BY <1>13 DEF NewLink, Message
    <2>3. LinkAgrees(up)'
      BY <2>1, <2>2 DEF LinkAgrees
    <2>4. AddrAgrees(dot) /\ AddrAgrees(dot)'
      BY <2>2 DEF ShownInv, AgreeInv, AddrAgrees
    <2>5. (dot' # NoAddress => dnLen' = AddrLength[dot']) /\ LengthInv'
      BY <2>2 DEF ShownInv, LengthInv
    <2>6. CASE s.stats = "none"
      <3>1. msgs' = Tail(msgs) /\ pc' = pc /\ req' = req /\ queue' = queue
        BY <2>1, <2>6
      <3>2. msgs' \in Seq(Messages)
        BY <1>0, <2>2, <3>1
      <3>3. DumpInv'
        BY <1>0, <2>2, <3>1, <3>2 DEF DumpInv
      <3>4. (window[req])' # {}
        BY <2>2, <3>1
      <3> HIDE DEF AddrAgrees, LinkAgrees, MineFirst
      <3>5. AgreeInv'
        BY <2>2, <2>3, <2>4, <3>1, <3>4 DEF AgreeInv
      <3> QED  BY <2>5, <3>3, <3>5 DEF ShownInv
    <2>7. CASE s.stats # "none"
      <3>1. ResponseEnds((Counter(s) - stCur) % Word64, TRUE)
        BY <2>1, <2>7
      <3> HIDE DEF ShownInv, AddrAgrees, LinkAgrees, ResponseEnds, Counter
      <3> QED  BY <2>2, <2>3, <2>5, <3>1, Agreed
    <2> QED  BY <2>6, <2>7
  <1>14. CASE Show
    <2>1. /\ pc = "show" /\ pc' = "idle"
          /\ shown'.up = up /\ shown'.addr = dot
          /\ shown'.len = IF dot = shown.addr THEN shown.len ELSE Cut(dnLen)
          /\ UNCHANGED <<req, msgs, queue, window, lost, dot, dnLen, up>>
      <3>1. pc = "show" /\ pc' = "idle"
            /\ UNCHANGED <<req, msgs, queue, window, lost, dot, dnLen, up>>
        BY <1>14 DEF Show
      <3>2. shown' = [called |-> TRUE, up |-> up, addr |-> dot,
                      len |-> IF dot = shown.addr THEN shown.len
                              ELSE IF dnLen >= ITEM_STR_MAX THEN ITEM_STR_MAX - 1 ELSE dnLen]
        BY <1>14, Zenon DEF Show
      <3> QED  BY <3>1, <3>2 DEF Cut
    <2>2. DumpInv'
      BY <1>0, <2>1 DEF DumpInv
    <2>3. AddrAgrees(dot) /\ LinkAgrees(up)
      BY <2>1 DEF ShownInv, AgreeInv
    <2>4. AddrAgrees(shown.addr)' /\ LinkAgrees(shown.up)'
      BY <2>1, <2>3 DEF AddrAgrees, LinkAgrees
    <2>5. AgreeInv'
      <3> HIDE DEF AddrAgrees, LinkAgrees, MineFirst
      <3> QED  BY <2>1, <2>4 DEF AgreeInv
    <2>6. LengthInv'
      BY <2>1 DEF ShownInv, LengthInv
    <2> QED  BY <2>2, <2>5, <2>6 DEF ShownInv
  <1>15. CASE UNCHANGED netVars
    <2>1. UNCHANGED <<pc, req, msgs, queue, lost, dot, dnLen, up, shown, window>>
      BY <1>15 DEF netVars
    <2>2. DumpInv'
      BY <1>0, <2>1 DEF DumpInv
    <2> HIDE DEF ShownInv, DumpInv, MineFirst, AddrAgrees, LinkAgrees
    <2> QED  BY <2>1, <2>2, Agreeing
  <1>16. CASE SocketFails \/ SendFails \/ ReceiveForeign
    BY <1>3, <1>16 DEF SocketFails, SendFails, ReceiveForeign
  <1> HIDE DEF ShownInv
  <1> QED
    BY <1>1, <1>2, <1>4, <1>5, <1>6, <1>7, <1>8, <1>9, <1>10, <1>11, <1>12, <1>13,
       <1>14, <1>15, <1>16 DEF NetNext, CallbackStep

-----------------------------------------------------------------------------
\* Every address met is one that has a length.
KnownAddresses == Addresses \cup {NoAddress}

AddressInv ==
    /\ DOMAIN link = {"present", "up", "addr", "bytes", "stats"}
    /\ link.addr \in KnownAddresses
    /\ req \in Requests /\ DOMAIN window = Requests
    /\ \A r \in Requests : \A s \in window[r] : s.addr \in KnownAddresses
    /\ dot \in KnownAddresses /\ shown.addr \in KnownAddresses

LEMMA AddressStepInv == AddressInv /\ [NetNext]_netVars => AddressInv'
  <1> SUFFICES ASSUME AddressInv, [NetNext]_netVars PROVE AddressInv'
    OBVIOUS
  <1> USE DEF kernel, data, AddressInv
  <1>1. CASE LinkChanges
    <2>1. PICK v : \/ link' = [link EXCEPT !.up = v]
                   \/ v \in KnownAddresses /\ link' = [link EXCEPT !.addr = v]
                   \/ link' = [link EXCEPT !.bytes = link.bytes + 1]
                   \/ link' = [link EXCEPT !.present = FALSE, !.addr = NoAddress]
      BY <1>1, Zenon DEF LinkChanges, KnownAddresses
    <2>2. DOMAIN link' = DOMAIN link /\ link'.addr \in KnownAddresses
      BY <2>1 DEF KnownAddresses
    <2>3. /\ UNCHANGED <<req, dot, shown>>
          /\ window' \in {window, [window EXCEPT ![req] = @ \cup {link'}]}
      BY <1>1 DEF LinkChanges
    <2>4. /\ DOMAIN window' = Requests
          /\ \A r \in Requests : window'[r] \subseteq window[r] \cup {link'}
      BY <2>3
    <2> QED  BY <2>2, <2>3, <2>4
  <1>2. CASE TimerFires
    BY <1>2 DEF TimerFires, Requests, KnownAddresses
  <1>3. ASSUME NEW w, Fails(w)  PROVE AddressInv'
    BY <1>3 DEF Fails
  <1>4. CASE SocketOpens \/ Receive \/ Interrupt \/ NextDatagram \/ SkipMessage
    BY <1>4 DEF SocketOpens, Receive, Interrupt, NextDatagram, SkipMessage
  <1>5. ASSUME NEW a \in Answers, Sends(a)  PROVE AddressInv'
    BY <1>5 DEF Sends
  <1>6. CASE ReceiveFails
    <2>1. CASE err = 1
      BY <1>3, <1>6, <2>1 DEF ReceiveFails
    <2>2. CASE err # 1
      BY <1>6, <2>2 DEF ReceiveFails, ResponseEnds, Requests
    <2> QED  BY <2>1, <2>2
  <1>7. CASE Done
    BY <1>7 DEF Done, ResponseEnds, Requests
  <1>8. CASE NewAddr
    BY <1>8 DEF NewAddr, ResponseEnds, Requests
  <1>9. CASE NewLink
    BY <1>9 DEF NewLink, ResponseEnds
  <1>10. CASE Show
    BY <1>10 DEF Show
  <1>11. CASE UNCHANGED netVars
    BY <1>11 DEF netVars
  <1>12. CASE SocketFails \/ SendFails \/ ReceiveForeign
    BY <1>3, <1>12 DEF SocketFails, SendFails, ReceiveForeign
  <1> QED
    BY <1>1, <1>2, <1>4, <1>5, <1>6, <1>7, <1>8, <1>9, <1>10, <1>11, <1>12
       DEF NetNext, CallbackStep

\* However the kernel cuts its dumps into datagrams, whatever else they hold
\* and whenever the interface changes, the texts a callback leaves behind say
\* what the interface was at some time since the two requests.
THEOREM StateAlwaysShown == NetSpec => []StateShown
  <1>1. NetInit => ShownInv /\ AddressInv
    <2> SUFFICES ASSUME NetInit PROVE AddressInv
      BY ShownInitInv
    <2>1. PICK stats : link = [present |-> TRUE, up |-> TRUE, addr |-> NoAddress, bytes |-> 1,
                               stats |-> stats]
      BY DEF NetInit
    <2>2. DOMAIN link = {"present", "up", "addr", "bytes", "stats"} /\ link.addr = NoAddress
      BY <2>1
    <2>3. /\ req = "addr" /\ dot = NoAddress /\ shown.addr = NoAddress
          /\ window = [r \in Requests |-> {}]
      BY DEF NetInit
    <2> QED  BY <2>2, <2>3 DEF AddressInv, KnownAddresses, Requests
  <1>2. ShownInv /\ AddressInv /\ [NetNext]_netVars => ShownInv' /\ AddressInv'
    BY ShownStepInv, AddressStepInv
  <1>3. ShownInv /\ AddressInv => StateShown
    <2> SUFFICES ASSUME ShownInv, AddressInv, pc = "idle", shown.called PROVE StateShown
      BY DEF StateShown
    <2>1. AddrAgrees(shown.addr) /\ LinkAgrees(shown.up)
      BY DEF ShownInv, AgreeInv
    <2>2. AddrLength[shown.addr] \in Nat
      BY NetAssumption DEF AddressInv, KnownAddresses
    <2>3. shown.addr # NoAddress => shown.len = IF AddrLength[shown.addr] < ITEM_STR_MAX
                                                THEN AddrLength[shown.addr] ELSE ITEM_STR_MAX - 1
      BY <2>2 DEF ShownInv, LengthInv, Cut, ITEM_STR_MAX
    <2> QED  BY <2>1, <2>3 DEF AddrAgrees, LinkAgrees, StateShown, Has
  <1> QED  BY <1>1, <1>2, <1>3, PTL DEF NetSpec
=============================================================================
