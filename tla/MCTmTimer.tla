------------------------------ MODULE MCTmTimer ------------------------------
(***************************************************************************)
(* Instance of TmTimer for TLC: periods of the widgets as they are in the  *)
(* source (clock, disk, CPU temperature) and a --net_interval that divides *)
(* none of them.                                                           *)
(***************************************************************************)
EXTENDS TmTimer

MCTimers == {"timer_clock", "timer_disk", "timer_cpu_stat_temp", "timer_net"}
MCPeriod == [t \in MCTimers |-> CASE t = "timer_disk" -> 10000
                                  [] t = "timer_net"  -> 2300
                                  [] OTHER            -> 3000]
MCDefault  == 3000
MCMaxTicks == 30
=============================================================================
