------------------------------ MODULE MCProbes ------------------------------
(* A small instance of Probes: each command may print what decides either   *)
(* way, a contradiction of it, and something the probe does not look for.   *)
EXTENDS Probes, TLC

Setting(key, value) == [key |-> key, value |-> value]

MCPrints ==
  [timedatectl |-> {"yes", "no", ""},
   chronyc |-> {{"leap status", "normal"}, {"leap status", "not synchronised"}, {"leap status"}},
   systemctl |-> {Setting("LoadState", "loaded"), Setting("LoadState", "not-found"),
                  Setting("LimitNOFILESoft", "1024"), Setting("LimitNOFILESoft", "infinity"),
                  Setting("LimitNOFILESoft", "-1"), Setting("LimitNOFILE", "65536"),
                  Setting("", "")},
   xrpld |-> {"version", ""}]

MCNumber == "1024" :> 1024 @@ "65536" :> 65536

=============================================================================
