-------------------------- MODULE MCConfigVerdicts --------------------------
(* A small instance of ConfigParser and ConfigVerdicts: every file of up to *)
(* MaxLines lines drawn from these, in any order.  Headers, names and keys  *)
(* come in mixed case, a key with a value and with an empty one, protocols  *)
(* with peer and without it, so that an override may turn a default back,   *)
(* and one of them a list with an empty part.                               *)
EXTENDS ConfigVerdicts, TLC

MCLower ==
  [s \in Reserved \cup PortKeys \cup DBKeys
         \cup {"port_a", "peer", "wss", "65535", "127.0.0.1", "0.0.0.0", "nudb"} |-> s]
    @@ ("Server" :> "server" @@ "PORT_A" :> "port_a" @@ "Port_A" :> "port_a"
        @@ "Port" :> "port" @@ "Peer" :> "peer" @@ "WSS" :> "wss")

MCNumber == "65535" :> 65535
MCLoopback == {"127.0.0.1"}
MCAddresses == {"127.0.0.1", "0.0.0.0"}

Of(kind, name) == [kind |-> kind, name |-> name, value |-> Empty]
Pair(key, value) == [kind |-> "pair", name |-> key, value |-> value]

MCLines ==
  {Of("header", n) : n \in {"Server", "PORT_A", "port_grpc", "node_size", "node_db",
                            "validator_token"}}
  \cup {Of("malformed", ""), Of("bare", "Port_A"), Of("bare", "port_grpc")}
  \cup {Pair("protocol", v) : v \in {<<"Peer">>, <<"", "WSS">>}}
  \cup {Pair("port", <<"65535">>), Pair("Port", Empty)}
  \cup {Pair("ip", <<v>>) : v \in {"127.0.0.1", "0.0.0.0"}}
  \cup {Pair("type", <<"nudb">>)}

=============================================================================
