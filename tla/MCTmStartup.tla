---------------------------- MODULE MCTmStartup -----------------------------
(* The eight objects with sizes that need rounding, and command lines of up *)
(* to two words (every pair of them), some longer ones.                    *)
EXTENDS TmStartup

MCObjSize == [o \in Objects |-> <<128, 140, 907, 41, 8, 600, 1, 4>>[o + 1]]

MCWords == {"--help", "--x_bg", "--clock_fg", "--net_interval", "--temp_label1",
            "0", "250", "-5"}

MCArgvs ==
    LET Line(words) == <<"toymon">> \o words
    IN  {Line(w) : w \in UNION {[1 .. n -> MCWords] : n \in 0 .. 2}}
        \cup {Line(<<"--temp_label1", "a", "--temp_input1", "b">>),
              Line(<<"--temp_input2", "b", "--temp_label2", "--x_bg", "a">>),
              Line(<<"--net_interval", "0", "--net_interval", "250">>),
              Line(<<"--net_interval", "250", "--net_interval", "0">>),
              Line(<<"--x_bg", "--net_interval", "-5">>),
              Line(<<"--net_interval", "">>),
              Line(<<"--temp_label1", "", "--temp_input1", "b">>),
              Line(<<"--mount_point", "long", "--if_name", "a">>),
              Line(<<"--if_name", "long", "--mount_point", "a">>),
              Line(<<"--clock_fg", "a", "b", "--clock_fg", "0", "--help">>)}

MCAtoi == [w \in UNION {ToSet(words) : words \in MCArgvs} |->
             CASE w = "250" -> 250 [] w = "-5" -> -5 [] OTHER -> 0]
=============================================================================
