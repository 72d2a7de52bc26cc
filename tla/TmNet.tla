-------------------------------- MODULE TmNet --------------------------------
(***************************************************************************)
(* The callback of the net widget (tm_net.c): two netlink dumps, one of    *)
(* addresses and one of links, each over a socket of its own, received in  *)
(* datagrams of several messages; then the texts of the interface.  The    *)
(* interface changes under it at any time.                                 *)
(*                                                                         *)
(* The kernel, external: a request is answered with one of Answers, a      *)
(* sequence of datagrams of messages "mine" (about the interface shown),   *)
(* "other", "done" (ends every dump) or "error" (instead of a dump).  What *)
(* "mine" says is what the interface was at some time since the request.   *)
(***************************************************************************)
EXTENDS Integers, Sequences

CONSTANTS
    Addresses,      \* what "%s/%d" makes of the addresses of the interface
    AddrLength,     \* their lengths; "" is in the domain
    Answers,
    Word32, Word64, \* 2^32 and 2^64
    MaxBytes, MaxChanges, MaxSignals    \* bounds of the runs

ITEM_STR_MAX == 32

NoAddress == ""

ASSUME NetAssumption ==
    /\ NoAddress \notin Addresses
    /\ AddrLength \in [Addresses \cup {NoAddress} -> Nat]
    /\ Word32 \in Nat \ {0} /\ Word64 \in Nat \ {0} /\ Word32 <= Word64
    /\ MaxChanges \in Nat /\ MaxSignals \in Nat

Requests == {"addr", "link"}    \* RTM_GETADDR, RTM_GETLINK

Messages == {"mine", "other", "done", "error"}

\* Every "done" of these messages, or of the datagrams after them, comes
\* behind a "mine".
MineFirst(messages, datagrams) ==
    LET mine(s, n) == \E k \in 1 .. n : s[k] = "mine"
    IN  /\ \A j \in DOMAIN messages : messages[j] = "done" => mine(messages, j - 1)
        /\ \A i \in DOMAIN datagrams : \A j \in DOMAIN datagrams[i] :
              datagrams[i][j] = "done" =>
                \/ mine(messages, Len(messages))
                \/ \E h \in 1 .. i - 1 : mine(datagrams[h], Len(datagrams[h]))
                \/ mine(datagrams[i], j - 1)

\* A dump is not done before the kernel has come to the interface.
ASSUME AnswerAssumption ==
    \A a \in Answers : a \in Seq(Seq(Messages)) /\ MineFirst(<<>>, a)

VARIABLES
    link,       \* kernel: the interface; changes: how often it has changed
    changes,
    pc,
    req,        \* the dump in work
    open,       \* is nlsk open
    queue,      \* kernel: the datagrams of the answer not received yet
    msgs,       \* the messages of the received datagram not looked at yet
    err,        \* err of tm_net_recv_nl_response
    late,       \* how often SIGALRM has interrupted recvmsg in this dump
    dot, dnLen, \* net->dot_notion, net->dn_len
    up,         \* net->ifi_flags & IFF_UP
    stCur, stDif,   \* net->st_cur, net->st_dif, one of their counters
    shown,      \* the texts of the items
    window,     \* history: what the interface was since each request
    lost,       \* history: the dumps cut off by a failure not reported
    failure,    \* history: what failed
    refused,    \* history: a request was answered with an error
    sampled, prev, cur  \* history: was a counter read, its last two values

kernel == <<link, changes>>
socket == <<open, queue, msgs>>
data == <<dot, dnLen, up, stCur, stDif>>
sample == <<sampled, prev, cur>>
netVars == <<kernel, pc, req, socket, err, late, data, shown, window, lost,
             failure, refused, sample>>

NetInit ==
    /\ \E stats \in {"64", "32", "none"} :
         link = [present |-> TRUE, up |-> TRUE, addr |-> NoAddress, bytes |-> 1,
                 stats |-> stats]
    /\ changes = 0
    /\ pc = "idle" /\ req = "addr"
    /\ open = FALSE /\ queue = <<>> /\ msgs = <<>>
    /\ err = 1 /\ late = 0
    /\ dot = NoAddress /\ dnLen = 0 /\ up = FALSE /\ stCur = 0 /\ stDif = 0
    /\ shown = [called |-> FALSE, up |-> FALSE, addr |-> NoAddress, len |-> 0]
    /\ window = [r \in Requests |-> {}]
    /\ lost = {} /\ failure = "none" /\ refused = FALSE
    /\ sampled = FALSE /\ prev = 0 /\ cur = 0

-----------------------------------------------------------------------------
(* The kernel.                                                             *)

\* The interface goes up or down, gets or loses an address, counts bytes, or
\* is removed for good: its index is not used again.
LinkChanges ==
    /\ changes < MaxChanges
    /\ link.present
    /\ changes' = changes + 1
    /\ \/ link' = [link EXCEPT !.up = ~@]
       \/ \E a \in (Addresses \cup {NoAddress}) \ {link.addr} : link' = [link EXCEPT !.addr = a]
       \/ link.bytes < MaxBytes /\ link' = [link EXCEPT !.bytes = @ + 1]
       \/ link' = [link EXCEPT !.present = FALSE, !.addr = NoAddress]
    /\ window' = IF pc \in {"recv", "parse"} THEN [window EXCEPT ![req] = @ \cup {link'}]
                                             ELSE window
    /\ UNCHANGED <<pc, req, socket, err, late, data, shown, lost, failure, refused, sample>>

\* The statistics nla_parse finds in a link message; a 32-bit counter wraps.
\* A new kernel sends both kinds, and the 64-bit one is preferred.
Counter(s) == IF s.stats = "64" THEN s.bytes % Word64 ELSE s.bytes % Word32

-----------------------------------------------------------------------------
(* One request: tm_net_send_nl_request and tm_net_recv_nl_response.        *)

\* Mutant: the old address is not erased.
TimerFiresKeepsAddress ==
    /\ pc = "idle"
    /\ pc' = "socket" /\ req' = "addr"
    /\ window' = [r \in Requests |-> {}]
    /\ lost' = {}
    /\ UNCHANGED <<kernel, socket, err, late, data, shown, failure, refused, sample>>

\* tm_net_timer; tm_net_get_addr erases dot_notion, and not dn_len
TimerFires ==
    /\ pc = "idle"
    /\ pc' = "socket" /\ req' = "addr"
    /\ dot' = NoAddress
    /\ window' = [r \in Requests |-> {}]
    /\ lost' = {}
    /\ UNCHANGED <<kernel, socket, err, late, dnLen, up, stCur, stDif, shown, failure,
                   refused, sample>>

\* The callback fails: the event manager stops the program.
Fails(why) ==
    /\ pc' = "stopped"
    /\ failure' = why
    /\ window' = [r \in Requests |-> {}]
    /\ late' = 0
    /\ UNCHANGED <<kernel, req, data, shown, lost, refused, sample>>

Closes == open' = FALSE /\ queue' = <<>> /\ msgs' = <<>>

SocketFails == pc = "socket" /\ Fails("socket") /\ UNCHANGED <<socket, err>>

SocketOpens ==
    /\ pc = "socket"
    /\ open' = TRUE
    /\ pc' = "send"
    /\ UNCHANGED <<kernel, req, queue, msgs, err, late, data, shown, window, lost,
                   failure, refused, sample>>

SendFails == pc = "send" /\ Fails("send") /\ Closes /\ UNCHANGED err

Sends(answer) ==
    /\ pc = "send"
    /\ pc' = "recv"
    /\ queue' = answer
    /\ err' = 1
    /\ window' = [window EXCEPT ![req] = {link}]
    /\ refused' = (\E i \in DOMAIN answer : "error" \in {answer[i][j] : j \in DOMAIN answer[i]})
    /\ UNCHANGED <<kernel, req, open, msgs, late, data, shown, lost, failure, sample>>

Receive ==
    /\ pc = "recv" /\ queue # <<>>
    /\ msgs' = Head(queue) /\ queue' = Tail(queue)
    /\ err' = 0
    /\ pc' = "parse"
    /\ UNCHANGED <<kernel, req, open, late, data, shown, window, lost, failure,
                   refused, sample>>

\* tm_net_sockaddr_nl_check: not from the kernel
ReceiveForeign ==
    /\ pc = "recv" /\ queue # <<>>
    /\ err' = 1
    /\ Fails("sender") /\ Closes

\* Mutant: an interrupted recvmsg is a failed one.
InterruptFails ==
    /\ pc = "recv"
    /\ late < MaxSignals
    /\ pc' = "stopped" /\ Closes
    /\ UNCHANGED <<kernel, req, err, late, data, shown, window, lost, failure,
                   refused, sample>>

\* SIGALRM interrupts recvmsg: the loop calls it again.
Interrupt ==
    /\ pc = "recv"
    /\ late < MaxSignals
    /\ late' = late + 1
    /\ UNCHANGED <<kernel, pc, req, socket, err, data, shown, window, lost, failure,
                   refused, sample>>

\* Mutant: st_dif is not cleared.
ResponseEndsKeepsDif(dif, isSampled) ==
    /\ Closes
    /\ late' = 0
    /\ IF req = "addr"
       THEN req' = "link" /\ pc' = "socket" /\ UNCHANGED stDif /\ sampled' = FALSE
       ELSE UNCHANGED req /\ pc' = "show" /\ stDif' = dif /\ sampled' = isSampled

\* The dump ends without the data, or with it (new values of st_dif and of
\* the history are given): tm_net_get_link starts by clearing st_dif.
ResponseEnds(dif, isSampled) ==
    /\ Closes
    /\ late' = 0
    /\ IF req = "addr"
       THEN req' = "link" /\ pc' = "socket" /\ stDif' = 0 /\ sampled' = FALSE
       ELSE UNCHANGED req /\ pc' = "show" /\ stDif' = dif /\ sampled' = isSampled

\* recvmsg fails: reported when nothing was received yet; err is 0 after the
\* first datagram, and the rest of the dump is missing without notice.
ReceiveFails ==
    /\ pc = "recv"
    /\ IF err = 1 THEN Fails("recv") /\ Closes
       ELSE /\ ResponseEnds(stDif, FALSE)
            /\ lost' = lost \cup {req}
            /\ UNCHANGED <<kernel, dot, dnLen, up, stCur, shown, window, failure,
                           refused, prev, cur>>
    /\ UNCHANGED err

-----------------------------------------------------------------------------
(* The messages.                                                           *)

Message(m) == pc = "parse" /\ msgs # <<>> /\ Head(msgs) = m

NextDatagram ==
    /\ pc = "parse" /\ msgs = <<>>
    /\ pc' = "recv"
    /\ UNCHANGED <<kernel, req, socket, err, late, data, shown, window, lost, failure,
                   refused, sample>>

\* a message of another interface, of another type - an NLMSG_ERROR too - or
\* with an address inet_ntop does not know; "mine" when there is none (yet)
SkipMessage ==
    /\ \/ Message("other") \/ Message("error")
       \/ Message("mine") /\ \E s \in window[req] :
                               IF req = "addr" THEN s.addr = NoAddress ELSE ~s.present
    /\ msgs' = Tail(msgs)
    /\ UNCHANGED <<kernel, pc, req, open, queue, err, late, data, shown, window, lost,
                   failure, refused, sample>>

\* Mutant: NLMSG_DONE is a message like any other.
DoneSkipped ==
    /\ Message("done")
    /\ msgs' = Tail(msgs)
    /\ UNCHANGED <<kernel, pc, req, open, queue, err, late, data, shown, window, lost,
                   failure, refused, sample>>

Done ==
    /\ Message("done")
    /\ ResponseEnds(stDif, FALSE)
    /\ UNCHANGED <<kernel, err, dot, dnLen, up, stCur, shown, window, lost, failure,
                   refused, prev, cur>>

\* tm_net_recv_rtm_newaddr: the first address ends the dump
NewAddr ==
    /\ Message("mine") /\ req = "addr"
    /\ \E s \in window[req] :
         /\ s.addr # NoAddress
         /\ dot' = s.addr
         /\ dnLen' = AddrLength[s.addr]
    /\ ResponseEnds(stDif, FALSE)
    /\ UNCHANGED <<kernel, err, up, stCur, shown, window, lost, failure, refused,
                   prev, cur>>

\* tm_net_recv_rtm_newlink: flags, and the statistics if there are any
NewLink ==
    /\ Message("mine") /\ req = "link"
    /\ \E s \in window[req] :
         /\ s.present
         /\ up' = s.up
         /\ IF s.stats = "none"
            THEN /\ msgs' = Tail(msgs)
                 /\ UNCHANGED <<pc, req, open, queue, late, stCur, stDif, sample>>
            ELSE /\ ResponseEnds((Counter(s) - stCur) % Word64, TRUE)
                 /\ stCur' = Counter(s)
                 /\ prev' = cur /\ cur' = s.bytes
    /\ UNCHANGED <<kernel, err, dot, dnLen, shown, window, lost, failure, refused>>

\* tm_net_ip_state_update; tm_item_cmp_and_update cuts the text and, when it
\* is as before, leaves the length alone.  The numbers are made in TmStat.
Show ==
    /\ pc = "show"
    /\ shown' = [called |-> TRUE, up |-> up, addr |-> dot,
                 len |-> IF dot = shown.addr THEN shown.len
                         ELSE IF dnLen >= ITEM_STR_MAX THEN ITEM_STR_MAX - 1 ELSE dnLen]
    /\ pc' = "idle"
    /\ sampled' = FALSE /\ prev' = cur
    /\ UNCHANGED <<kernel, req, socket, err, late, data, window, lost, failure, refused, cur>>

\* A step of the callback; recvmsg of a dump that is still coming returns.
CallbackStep ==
    \/ SocketFails \/ SocketOpens \/ SendFails \/ (\E a \in Answers : Sends(a))
    \/ Receive \/ ReceiveForeign \/ Interrupt \/ ReceiveFails
    \/ NextDatagram \/ SkipMessage \/ Done \/ NewAddr \/ NewLink \/ Show

NetNext == LinkChanges \/ TimerFires \/ CallbackStep

\* Fairness: the event manager goes on running the callback it is in.  That
\* recvmsg fails is not promised: a dump may also never be answered.
Progress == SocketOpens \/ (\E a \in Answers : Sends(a)) \/ Receive
            \/ NextDatagram \/ SkipMessage \/ Done \/ NewAddr \/ NewLink \/ Show

NetSpec == NetInit /\ [][NetNext]_netVars /\ WF_netVars(Progress)

-----------------------------------------------------------------------------
\* A socket is open exactly while a request is in work, on every path; and
\* the callback stops the program only if a call really failed - never
\* because a signal came, or because of what the dump said.
CallbackHonest ==
    /\ open = (pc \in {"send", "recv", "parse"})
    /\ queue # <<>> \/ msgs # <<>> => open
    /\ pc = "stopped" => failure # "none"

\* The 32-bit counter has wrapped between the last two values that were read:
\* the difference is then taken as if 2^64 were the modulus.
Wrapped == link.stats = "32" /\ prev \div Word32 # cur \div Word32

\* The difference the rate is made from is what the interface has counted
\* between the last two values read (the first one counts from zero), and no
\* byte is shown twice: it is zero when this callback has read none.
RateExact ==
    pc = "show" =>
        IF ~sampled THEN stDif = 0
        ELSE ~Wrapped /\ cur < Word64 => stDif = cur - prev

\* The interface had what a dump of this kind asks for.
Has(r, s) == IF r = "addr" THEN s.addr # NoAddress ELSE s.present

\* After a callback that did not fail, the texts say what the interface was
\* at some time since the requests; it may have gone meanwhile - the old
\* state then stays on the screen - and so may an answer that was cut off by
\* a failure after its first datagram.  An address has its length.
StateShown ==
    pc = "idle" /\ shown.called =>
        /\ \E s \in window["link"] : ~Has("link", s) \/ shown.up = s.up \/ "link" \in lost
        /\ \E s \in window["addr"] : shown.addr = s.addr
                                     \/ ("addr" \in lost /\ shown.addr = NoAddress)
        /\ shown.addr # NoAddress => shown.len = IF AddrLength[shown.addr] < ITEM_STR_MAX
                                                 THEN AddrLength[shown.addr] ELSE ITEM_STR_MAX - 1

\* Liveness: a callback ends, or stops the program, unless the kernel has
\* answered a request with an error: that message is skipped like any of an
\* unknown type, and recvmsg is called for a datagram that never comes.
CallbackEnds == pc # "idle" ~> (pc \in {"idle", "stopped"} \/ (refused /\ pc = "recv"))
=============================================================================
