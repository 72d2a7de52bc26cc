----------------------------- MODULE TmOptions ------------------------------
(***************************************************************************)
(* The command line.  Every object parses the whole argv on its own, from  *)
(* argv[0] on, and knows its own options only.  An option with an argument *)
(* takes the next word, whatever it is; a word an object does not know is  *)
(* skipped - so the argument of another object's option is just a word.    *)
(* The values are words; a colour, a number or a font is not interpreted   *)
(* here.                                                                   *)
(***************************************************************************)
EXTENDS Integers, Sequences, FiniteSetsExt

XOptions == {"--display", "--x_bg", "--x_fg", "--x", "--y", "--width",
             "--height", "--line_width", "--dashes", "--icon_scale",
             "--side_icon_scale", "--font"}

ClockOptions == {"--date_format", "--clock_fg", "--clock_hi"}

CpuOptions == {"--cpu_fg", "--cpu_hi", "--temp_label1", "--temp_input1",
               "--temp_label2", "--temp_input2"}

MemOptions == {"--mem_fg", "--mem_hi"}

DiskOptions == {"--mount_point", "--disk_fg", "--disk_hi"}

NetOptions == {"--if_name", "--net_interval", "--net_fg", "--net_hi"}

\* Those without an argument.
Flags == {"--help", "--disable_temp_symbol"}

\* The words at which the loop of a parser that knows the options "own"
\* stops; the others were taken as arguments by the word before.
Visited(own, argv) ==
    LET stops[n \in 1 .. Len(argv)] ==
            n = 1 \/ ~(stops[n - 1] /\ argv[n - 1] \in own)
    IN  {n \in 1 .. Len(argv) : stops[n]}

\* "needs argument": the last word is an option of this object.
MissingArgument(own, argv) == \E n \in Visited(own, argv) :
                                 n = Len(argv) /\ argv[n] \in own

\* Mutant: the first occurrence wins.
FirstArgument(own, argv, option, default) ==
    LET given == {n \in Visited(own, argv) : argv[n] = option /\ n < Len(argv)}
    IN  IF given = {} THEN default ELSE argv[Min(given) + 1]

\* What the member of the option holds after a parse that did not fail: every
\* occurrence overwrites it.
Argument(own, argv, option, default) ==
    LET given == {n \in Visited(own, argv) : argv[n] = option /\ n < Len(argv)}
    IN  IF given = {} THEN default ELSE argv[Max(given) + 1]

\* a flag, at a word the parser stops at
FlagSet(own, argv, flag) == \E n \in Visited(own, argv) : argv[n] = flag

-----------------------------------------------------------------------------
(* The reference: one parser that knows all options at once.               *)

AllOptions == XOptions \cup ClockOptions \cup CpuOptions \cup MemOptions
              \cup DiskOptions \cup NetOptions

\* The option the n-th word is the argument of, read from the left, or "".
OwnerOf(argv) ==
    LET owner[n \in 1 .. Len(argv)] ==
            IF n > 1 /\ argv[n - 1] \in AllOptions /\ owner[n - 1] = ""
            THEN argv[n - 1] ELSE ""
    IN  owner

\* Some argument is spelled like an option.
ArgumentIsOption(argv) == \E n \in 1 .. Len(argv) :
    OwnerOf(argv)[n] # "" /\ argv[n] \in AllOptions \cup Flags

\* What the user meant: the word after the last occurrence of the option.
Meant(argv, option, default) ==
    LET args == {n \in 1 .. Len(argv) : OwnerOf(argv)[n] = option}
    IN  IF args = {} THEN default
        ELSE argv[CHOOSE n \in args : \A m \in args : m <= n]
=============================================================================
