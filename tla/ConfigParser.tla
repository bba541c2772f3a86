---------------------------- MODULE ConfigParser ----------------------------
(***************************************************************************)
(* xrpld.Parse (internal/xrpld/parse.go) and the listeners derived from    *)
(* its facts (listener.go).  Parse goes through the lines once, with the   *)
(* current section and the facts so far; the file is chosen line by line   *)
(* as it is read, and every file of at most MaxLines lines is a behaviour. *)
(*                                                                         *)
(* A line is [kind, name, value] after trimming: blank (or a comment), a   *)
(* header, malformed (it starts with a bracket and is no header), a pair   *)
(* with its text cut at the first "=", or bare.  A value is the sequence   *)
(* of its comma-separated parts.  Names are spelled as in the file, and    *)
(* Lower folds their case.                                                 *)
(***************************************************************************)
EXTENDS Integers, Sequences, FiniteSetsExt, SequencesExt

CONSTANTS Lines,    \* the lines a file is made of
          Lower,    \* strings.ToLower, on every spelling in use
          MaxLines  \* bound: how many lines a file has

Credentials == [validator_token |-> "token", validation_seed |-> "seed"]

\* The sections whose content is not that of a listener.
Reserved == {"", "server", "node_size", "node_db", "port_grpc"} \cup DOMAIN Credentials

PortKeys == {"ip", "port", "protocol"}
DBKeys == {"type", "path"}
Spellings == DOMAIN Lower
Names == {Lower[s] : s \in Spellings}

\* What a section or a listener may be called.
Stanzas == {Lower[line.name] : line \in {l \in Lines : l.kind \in {"header", "bare"}}}

ASSUME LowerAssumption ==
  /\ Reserved \cup PortKeys \cup DBKeys \subseteq Names
  /\ Names \subseteq Spellings /\ \A n \in Names : Lower[n] = n
ASSUME LinesAssumption ==
  /\ MaxLines \in Nat
  /\ Lines \subseteq [kind : {"blank", "header", "malformed", "pair", "bare"},
                      name : Spellings, value : Seq(Spellings)]

VARIABLES pc,       \* start, lines, parsed or failed
          valid,    \* whether the bytes are UTF-8
          read,     \* history: the lines consumed
          section,  \* the current section, "" before the first header
          facts     \* ConfigFacts

vars == <<pc, valid, read, section, facts>>

Empty == << >>
NoSettings == [k \in PortKeys |-> Empty]

Settings(keys) == [keys -> Seq(Spellings)]

ConfigFacts ==
  [nodeSize : Seq(Spellings \cup {"="}), db : Settings(DBKeys), names : Seq(Stanzas),
   defaults : Settings(PortKeys), ports : [Stanzas -> Settings(PortKeys)],
   grpcPresent : BOOLEAN, grpc : Settings(PortKeys), token : BOOLEAN, seed : BOOLEAN]

NoFacts ==
  [nodeSize |-> Empty, db |-> [k \in DBKeys |-> Empty], names |-> << >>,
   defaults |-> NoSettings, ports |-> [n \in Stanzas |-> NoSettings],
   grpcPresent |-> FALSE, grpc |-> NoSettings, token |-> FALSE, seed |-> FALSE]

Init ==
  /\ pc = "start" /\ valid \in BOOLEAN
  /\ read = << >> /\ section = "" /\ facts = NoFacts

-----------------------------------------------------------------------------
(* Parse                                                                   *)

CheckEncoding ==
  /\ pc = "start"
  /\ pc' = IF valid THEN "lines" ELSE "failed"
  /\ UNCHANGED <<valid, read, section, facts>>

Consume(line) ==
  /\ pc = "lines" /\ Len(read) < MaxLines
  /\ read' = Append(read, line)
  /\ UNCHANGED valid

IsContent(line) == line.kind \in {"pair", "bare"}

\* A blank line, a comment, or content before the first header.
Skipped(line) ==
  /\ Consume(line)
  /\ line.kind = "blank" \/ (IsContent(line) /\ section = "")
  /\ UNCHANGED <<pc, section, facts>>

Header(line) ==
  /\ Consume(line) /\ line.kind = "header"
  /\ section' = Lower[line.name]
  /\ facts' = [facts EXCEPT !.grpcPresent = @ \/ section' = "port_grpc"]
  /\ UNCHANGED pc

\* One malformed header anywhere, and nothing of the file is used.
Malformed(line) ==
  /\ Consume(line) /\ line.kind = "malformed"
  /\ pc' = "failed" /\ facts' = NoFacts
  /\ UNCHANGED section

Content(line) == Consume(line) /\ IsContent(line) /\ UNCHANGED <<pc, section>>

Key(line) == Lower[line.name]

\* applyPortKey and parseNodeDBLine: the last value of a known key is kept.
Apply(settings, line) ==
  IF line.kind = "pair" /\ Key(line) \in DOMAIN settings
  THEN [settings EXCEPT ![Key(line)] = line.value] ELSE settings

\* Seeded fault: the name of a listener is kept as it is written.
BrokenServerLine(line) ==
  /\ section = "server" /\ Content(line)
  /\ facts' = IF line.kind = "pair" THEN [facts EXCEPT !.defaults = Apply(@, line)]
              ELSE [facts EXCEPT !.names = Append(@, line.name)]

\* A default for every listener, or the name of an active one.
ServerLine(line) ==
  /\ section = "server" /\ Content(line)
  /\ facts' = IF line.kind = "pair" THEN [facts EXCEPT !.defaults = Apply(@, line)]
              ELSE [facts EXCEPT !.names = Append(@, Key(line))]

Text(line) == IF line.kind = "pair" THEN <<line.name, "=">> \o line.value ELSE <<line.name>>

\* Seeded fault: the last value is kept, as everywhere else.
BrokenNodeSizeLine(line) ==
  /\ section = "node_size" /\ Content(line)
  /\ facts' = [facts EXCEPT !.nodeSize = Text(line)]

NodeSizeLine(line) ==
  /\ section = "node_size" /\ Content(line)
  /\ facts' = [facts EXCEPT !.nodeSize = IF @ = Empty THEN Text(line) ELSE @]

NodeDBLine(line) ==
  /\ section = "node_db" /\ Content(line)
  /\ facts' = [facts EXCEPT !.db = Apply(@, line)]

\* A credential is known to be there, and not kept.
CredentialLine(line) ==
  /\ section \in DOMAIN Credentials /\ Content(line)
  /\ facts' = [facts EXCEPT ![Credentials[section]] = TRUE]

GRPCLine(line) ==
  /\ section = "port_grpc" /\ Content(line)
  /\ facts' = [facts EXCEPT !.grpc = Apply(@, line)]

PortLine(line) ==
  /\ section \notin Reserved /\ Content(line)
  /\ facts' = [facts EXCEPT !.ports[section] = Apply(@, line)]

EndOfFile ==
  /\ pc = "lines"
  /\ pc' = "parsed"
  /\ UNCHANGED <<valid, read, section, facts>>

Line(line) ==
  \/ Skipped(line) \/ Header(line) \/ Malformed(line)
  \/ ServerLine(line) \/ NodeSizeLine(line) \/ NodeDBLine(line) \/ CredentialLine(line)
  \/ GRPCLine(line) \/ PortLine(line)

Next == CheckEncoding \/ EndOfFile \/ \E line \in Lines : Line(line)

Spec == Init /\ [][Next]_vars

-----------------------------------------------------------------------------
(* The listeners                                                           *)

\* Seeded fault: a key that is there overrides, even with an empty value.
BrokenEffective(defaults, override) ==
  [k \in PortKeys |-> IF override = NoSettings THEN defaults[k] ELSE override[k]]

Effective(defaults, override) ==
  [k \in PortKeys |-> IF override[k] # Empty THEN override[k] ELSE defaults[k]]

\* The tokens as a set: only whether one is there is asked.
ProtocolTokens(value) == {Lower[value[i]] : i \in DOMAIN value} \ {""}

Listeners(f) ==
  [i \in DOMAIN f.names |->
    LET settings == Effective(f.defaults, f.ports[f.names[i]])
    IN  [name |-> f.names[i], ip |-> settings.ip, port |-> settings.port,
         protocols |-> ProtocolTokens(settings.protocol)]]

HasProtocol(listener, token) == token \in listener.protocols

\* The set of at most one gRPC listener: it inherits nothing.
GRPCListener(f) ==
  IF f.grpcPresent THEN {[name |-> "port_grpc", ip |-> f.grpc.ip, port |-> f.grpc.port]} ELSE {}

-----------------------------------------------------------------------------
(* Properties                                                              *)

\* Each variable holds a value the code can give it; names are folded.
TypeOK ==
  /\ pc \in {"start", "lines", "parsed", "failed"} /\ valid \in BOOLEAN
  /\ read \in Seq(Lines) /\ section \in Stanzas \cup {""} /\ facts \in ConfigFacts

\* The file as a whole: line i is below a header of section s and no other.
Under(s, i) ==
  \E j \in 1 .. i - 1 :
    /\ read[j].kind = "header" /\ Lower[read[j].name] = s
    /\ \A k \in j + 1 .. i - 1 : read[k].kind # "header"

In(s) == {i \in DOMAIN read : IsContent(read[i]) /\ Under(s, i)}

Pairs(s, key) == {i \in In(s) : read[i].kind = "pair" /\ Key(read[i]) = key}

Said(s, keys) ==
  [k \in keys |-> IF Pairs(s, k) = {} THEN Empty ELSE read[Max(Pairs(s, k))].value]

LastValue(s, key) == Said(s, {key})[key]

Active == {i \in DOMAIN read : read[i].kind = "bare" /\ Under("server", i)}

HasHeader(s) == \E i \in DOMAIN read : read[i].kind = "header" /\ Lower[read[i].name] = s

\* The lines of Active in the order of the file, one name for each.
InFileOrder(names) ==
  \E order \in [DOMAIN names -> Active] :
    /\ \A i, j \in DOMAIN names : i < j => order[i] < order[j]
    /\ \A line \in Active : \E i \in DOMAIN names : order[i] = line
    /\ \A i \in DOMAIN names : names[i] = Key(read[order[i]])

\* The facts are those the lines read so far state.
AsWritten ==
  /\ valid /\ \A i \in DOMAIN read : read[i].kind # "malformed"
  /\ facts.nodeSize = IF In("node_size") = {} THEN Empty ELSE Text(read[Min(In("node_size"))])
  /\ facts.db = Said("node_db", DBKeys) /\ facts.defaults = Said("server", PortKeys)
  /\ InFileOrder(facts.names)
  /\ facts.ports = [n \in Stanzas |-> IF n \in Reserved THEN NoSettings ELSE Said(n, PortKeys)]
  /\ facts.grpc = Said("port_grpc", PortKeys) /\ (facts.grpcPresent <=> HasHeader("port_grpc"))
  /\ (facts.token <=> In("validator_token") # {})
  /\ (facts.seed <=> In("validation_seed") # {})

\* Wherever its sections stand, repeated, split or misspelled in case, the
\* facts are those the file as a whole states: the first node_size, the last
\* value of every other key within its own section, the listeners in file
\* order; and of a file with a malformed header, however late, or one that is
\* not UTF-8, nothing at all.
FactsAsWritten ==
  /\ pc = "failed" => /\ facts = NoFacts
                      /\ valid => read # << >> /\ Last(read).kind = "malformed"
  /\ pc = "parsed" => AsWritten

=============================================================================
