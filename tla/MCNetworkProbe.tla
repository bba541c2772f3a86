--------------------------- MODULE MCNetworkProbe ---------------------------
(* Small instances of NetworkProbe: two interfaces, and tables with usable *)
(* routes of different and of equal metrics among lines of every kind that  *)
(* is skipped; and the same with the route a tunnel adds to cover half of   *)
(* the addresses.                                                           *)
EXTENDS NetworkProbe

MCInterfaces == {"eth0", "tun0"}

Default(iface, metric) ==
  [fields |-> 11, iface |-> iface, dest |-> "zero", mask |-> "zero", flags |-> "up",
   metric |-> metric]

MCLines ==
  {Default("eth0", 100), Default("eth0", 300), Default("tun0", 100), Default("tun0", 200),
   Default("tun0", NoMetric),
   [Default("tun0", 0) EXCEPT !.dest = "other"], [Default("tun0", 0) EXCEPT !.flags = "down"],
   [Default("tun0", 0) EXCEPT !.flags = "bad"], [Default("eth0", 0) EXCEPT !.fields = 4]}

\* 0.0.0.0/1 by way of a tunnel, beside the default route.
TunnelLines == {Default("eth0", 100), [Default("tun0", 0) EXCEPT !.mask = "half"]}

Link(state, speed) == [present |-> TRUE, state |-> state, speed |-> speed]

MCLinks ==
  {Link("up", 1000), Link("up", 100), Link("down", -1), Link("unknown", -1),
   [present |-> FALSE, state |-> "", speed |-> 0]}

OneLink == {Link("up", 1000)}

=============================================================================
