---------------------------- MODULE MCTmWidgets ----------------------------
(* One thing at a time: the netlink dumps of the net widget, or one row of *)
(* a widget from its callback to the screen.  They share no variable.      *)
EXTENDS TmWidgets, TmNet

VARIABLE focus      \* "netlink" or "row"

MCInit == /\ focus \in {"netlink", "row"}
          /\ NetInit
          /\ WidgetInit
          /\ focus = "netlink" => row = "date" /\ geo = CHOOSE g \in Geometries : TRUE

MCNext == \/ focus = "netlink" /\ NetNext /\ UNCHANGED <<focus, widgetVars>>
          \/ focus = "row" /\ WidgetNext /\ UNCHANGED <<focus, netVars>>

MCVars == <<focus, widgetVars, netVars>>

MCSpec == MCInit /\ [][MCNext]_MCVars
          /\ WF_MCVars(focus = "netlink" /\ Progress /\ UNCHANGED <<focus, widgetVars>>)

-----------------------------------------------------------------------------
\* an IPv6 address with its prefix is longer than an item
MCAddrLength == [a \in {"", "v4", "v6"} |->
                    CASE a = "" -> 0 [] a = "v4" -> 14 [] OTHER -> 43]

\* the interface in the first or in a later datagram, a refusal
MCAnswers == {<< <<"mine">>, <<"other", "done">> >>,
              << <<"other">>, <<"mine", "done">> >>, << <<"error">> >>}

-----------------------------------------------------------------------------
MCUptimes == {59, 86400 * 10 + 3661, 86400 * 100 - 1, 86400 * 100 + 7265}

MCLoads == {<<8192, 66208, 656000>>, <<65536 * 99 + 65210, 65536 * 100, 1>>,
            <<65536 * 999 + 65209, 65536 * 1000 - 1, 65536 * 12345>>}

Gain(us, sy, id) == [us |-> us, sy |-> sy, id |-> id]
MCCpuSteps == {Gain(0, 0, 0), Gain(1, 0, 5), Gain(0, 2, 1), Gain(1, 1, -1),
               Gain(2, 0, -2)}

MCTemperatures == {-10000, -9999, 999, 45000, 99999, 100000}

Line(label, number) == [label |-> label, number |-> number]
MemFile(total, free, rest) ==
    <<Line("MemTotal", total), Line("MemFree", free), Line("SwapCached", 7), Line("Buffers", rest),
      Line("Cached", rest), Line("SReclaimable", rest), Line("Cached", 1)>>
MCMemInfos == {MemFile(500000, 100000, 20), MemFile(100, 90, 20),
               <<Line("MemTotal", -1), Line("MemFree", 4), Line("MemTotal", 5)>>}

Fs(blocks, bfree, bsize) == [blocks |-> blocks, bfree |-> bfree, bsize |-> bsize]
MCFileSystems == {Fs(1000, 1, 1), Fs(1023995, 1022995, 1), Fs(1000000, 1990, 512)}

MCCounts == {<<124, 1000>>, <<125, 999>>, <<124999, 999995>>}

MCGeometries == {[font |-> f, icon |-> i, temps |-> t] :
                    f \in {2, 7, 29}, i \in {10, 14, 58, 64}, t \in 0 .. 2}
=============================================================================
