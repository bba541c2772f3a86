--------------------------- MODULE ConfigVerdicts ---------------------------
(***************************************************************************)
(* From the file to the verdict: ConfigParser composed with the checks of  *)
(* internal/preflight that judge the listeners.  The facts of the parser   *)
(* keep a value as it was written; each check makes of it what it needs, a *)
(* number, an address or a set of protocols.  The checks are pure, so what *)
(* they answer is a function of the parser's state.                        *)
(***************************************************************************)
EXTENDS ConfigParser, Verdicts

CONSTANTS Number,     \* strconv.Atoi, on the spellings it accepts
          Loopback,   \* the spellings net.ParseIP takes for a loopback address
          Addresses   \* ... and for any address

ASSUME SpellingAssumption ==
  /\ DOMAIN Number \subseteq Spellings /\ \A s \in DOMAIN Number : Number[s] \in Int
  /\ Loopback \subseteq Addresses /\ Addresses \subseteq Spellings \ {""}

-----------------------------------------------------------------------------
(* What the checks make of the facts                                       *)

\* Only a value without a comma is a number, 0 being no port.
PortNumber(value) ==
  IF Len(value) = 1 /\ value[1] \in DOMAIN Number THEN Number[value[1]] ELSE 0

\* An address that is missing stays missing.
Bind(value) ==
  CASE value = Empty -> ""
    [] Len(value) = 1 /\ value[1] \in Loopback -> "loopback"
    [] Len(value) = 1 /\ value[1] \in Addresses \ Loopback -> "exposed"
    [] OTHER -> "unclassified"

\* Seeded fault: the encrypted protocols are forgotten.
BrokenAPIProtocols == {"http", "ws"}

APIProtocols == {"http", "https", "ws", "wss"}

isAPIListener(listener) == \E token \in APIProtocols : HasProtocol(listener, token)

Judged(f) ==
  [listeners |-> [i \in DOMAIN Listeners(f) |->
     LET l == Listeners(f)[i]
     IN  [peer |-> HasProtocol(l, "peer"), api |-> isAPIListener(l),
          ip |-> Bind(l.ip), port |-> PortNumber(l.port)]],
   grpc |-> GRPCListener(f) # {}, grpcIP |-> Bind(f.grpc.ip)]

Config == [supplied |-> TRUE, ok |-> pc = "parsed", facts |-> Judged(facts)]

-----------------------------------------------------------------------------
(* Properties                                                              *)

\* What the file gives listener n for key k.
Own(n, k) == IF n \in Reserved THEN Empty ELSE LastValue(n, k)
Setting(n, k) == IF Own(n, k) # Empty THEN Own(n, k) ELSE LastValue("server", k)

Serves(n, token) ==
  \E j \in DOMAIN Setting(n, "protocol") : Lower[Setting(n, "protocol")[j]] = token

\* The names [server] lists, as lines of the file, that serve the peer protocol.
PeerLines == {i \in Active : Serves(Key(read[i]), "peer")}

\* README.md:187, from the text of the file: config.peer_port warns exactly
\* when no line of [server] names a listener that serves the peer protocol, and
\* passes exactly when one does and its port is valid, both its own or by
\* default, whatever the order, the case and the number of the sections; a file
\* that was refused, however late, is not judged by what stood before.
OnePeerListener ==
  LET verdict == PeerPortCheck(Config)
      usable(i) == ValidPort(PortNumber(Setting(Key(read[i]), "port")))
  IN  /\ pc = "failed" => verdict = "skip"
      /\ pc = "parsed" => /\ verdict = "warn" <=> PeerLines = {}
                          /\ verdict = "pass" <=> \E i \in PeerLines : PeerLines = {i} /\ usable(i)

IsLoopback(value) == Len(value) = 1 /\ value[1] \in Loopback

\* README.md:197, from the text of the file: validator.api_bind passes exactly
\* when every listener [server] names that serves http, https, ws or wss binds a
\* loopback address, its own or by default, and [port_grpc] does or names none;
\* an address that is missing or cannot be read is never taken for loopback.
ExposureIsReviewed ==
  pc = "parsed" =>
    (APIBindCheck(Config) = "pass" <=>
      /\ \A i \in Active :
           (\E token \in {"http", "https", "ws", "wss"} : Serves(Key(read[i]), token))
             => IsLoopback(Setting(Key(read[i]), "ip"))
      /\ HasHeader("port_grpc") =>
           LastValue("port_grpc", "ip") = Empty \/ IsLoopback(LastValue("port_grpc", "ip")))

=============================================================================
