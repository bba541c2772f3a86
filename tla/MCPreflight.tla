---------------------------- MODULE MCPreflight ----------------------------
(* A small instance of Preflight for TLC.  Each initial world is a host on *)
(* which everything is right but one fact, at the values the thresholds    *)
(* tell apart; memory is also varied together with node_size, the one pair *)
(* of facts that two checks share.  During the run the world may become    *)
(* another one that differs in the file, the memory, the disk or the link. *)
EXTENDS Preflight, TLC

MCWords ==
  {"", "linux", "other", "amd64", "arm64", "386", "up", "down", "dormant", "loopback", "exposed",
   "tiny", "medium", "large", "huge", "HUGE", "enormous", "nudb", "NuDB", "rocksdb", "sqlite"}

MCLower == [w \in MCWords |-> CASE w = "HUGE" -> "huge" [] w = "NuDB" -> "nudb" [] OTHER -> w]

MCPaths == {"/", "/db", "/data"}
MCInterfaces == {"eth0", "absent", ""}

GoodFacts ==
  [nodeSize |-> "huge", dbType |-> "NuDB", dbPath |-> "/db",
   listeners |-> <<[peer |-> TRUE, port |-> 51235, api |-> FALSE, ip |-> ""],
                   [peer |-> FALSE, port |-> 5005, api |-> TRUE, ip |-> "loopback"]>>,
   grpc |-> TRUE, grpcIP |-> "", token |-> TRUE, seed |-> FALSE]

File(facts, mode) == [readable |-> TRUE, facts |-> facts, mode |-> mode]
GoodFile == File(GoodFacts, "owner")
NoFile == [readable |-> FALSE, facts |-> NoFacts, mode |-> "error"]

Disk(capacity, media) == [ok |-> TRUE, capacity |-> capacity, media |-> media]
NoDisk == [ok |-> FALSE, capacity |-> 0, media |-> "unknown"]
Link(state, speed) == [ok |-> TRUE, state |-> state, speed |-> speed]
NoLink == [ok |-> FALSE, state |-> "", speed |-> 0]
Links(link) == [eth0 |-> link, absent |-> NoLink] @@ ("" :> NoLink)
Nofile(soft) == [verified |-> TRUE, infinite |-> FALSE, soft |-> soft]

GoodWorld ==
  [os |-> "linux", arch |-> "amd64", cpus |-> 8, memory |-> 64,
   storage |-> [p \in MCPaths |-> Disk(1, "ssd")],
   route |-> "eth0", links |-> Links(Link("up", 1000)),
   time |-> "synchronized", nofile |-> Nofile(65536), binary |-> "versioned",
   file |-> GoodFile]

HostWorlds ==
  {[GoodWorld EXCEPT !.os = "other"], [GoodWorld EXCEPT !.route = ""]}
  \cup {[GoodWorld EXCEPT !.arch = a] : a \in {"arm64", "386"}}
  \cup {[GoodWorld EXCEPT !.cpus = n] : n \in {Unknown, 3, 4, 7}}
  \cup {[GoodWorld EXCEPT !.storage["/db"] = d] :
          d \in {NoDisk, Disk(0, "ssd"), Disk(1, "rotational"), Disk(1, "unknown")}}
  \cup {[GoodWorld EXCEPT !.links = Links(l)] :
          l \in {NoLink, Link("down", 0), Link("dormant", 1000), Link("", 999), Link("up", 0)}}
  \cup {[GoodWorld EXCEPT !.time = t] : t \in {"unsynchronized", "unknown"}}
  \cup {[GoodWorld EXCEPT !.nofile = l] :
          l \in {Nofile(65535), [Nofile(0) EXCEPT !.infinite = TRUE],
                 [Nofile(0) EXCEPT !.verified = FALSE]}}
  \cup {[GoodWorld EXCEPT !.binary = b] : b \in {"error", "absent", "silent"}}

OddFacts ==
  {[GoodFacts EXCEPT !.nodeSize = s] : s \in {"", "tiny", "large", "enormous"}}
  \cup {[GoodFacts EXCEPT !.dbType = t] : t \in {"", "nudb", "rocksdb", "sqlite"}}
  \cup {[GoodFacts EXCEPT !.dbPath = ""]}
  \cup {[GoodFacts EXCEPT !.listeners = << >>],
        [GoodFacts EXCEPT !.listeners[1].port = 0],
        [GoodFacts EXCEPT !.listeners[1].port = 65536],
        [GoodFacts EXCEPT !.listeners[2].peer = TRUE],
        [GoodFacts EXCEPT !.listeners[2].ip = "exposed"],
        [GoodFacts EXCEPT !.listeners[2].ip = ""]}
  \cup {[GoodFacts EXCEPT !.grpcIP = "exposed"], [GoodFacts EXCEPT !.grpc = FALSE]}
  \cup {[GoodFacts EXCEPT !.token = FALSE, !.seed = s] : s \in BOOLEAN}

ConfigWorlds ==
  {[GoodWorld EXCEPT !.file = f] :
      f \in {NoFile, File(GoodFacts, "shared")} \cup {File(x, "owner") : x \in OddFacts}}

MemoryWorlds ==
  {[GoodWorld EXCEPT !.memory = m, !.file.facts.nodeSize = s] :
      m \in {Unknown, 15, 16, 31, 32, 63}, s \in {"HUGE", "medium"}}

MCWorlds == {GoodWorld} \cup HostWorlds \cup ConfigWorlds \cup MemoryWorlds

MCLater ==
  {[GoodWorld EXCEPT !.file = NoFile],
   [GoodWorld EXCEPT !.file.facts.dbPath = "", !.file.mode = "shared"],
   [GoodWorld EXCEPT !.memory = 15],
   [GoodWorld EXCEPT !.storage["/db"] = NoDisk, !.links = Links(NoLink)],
   GoodWorld}

Command(role, level, cfg, dir) ==
  [command |-> "check", parses |-> TRUE, extra |-> FALSE, role |-> role, level |-> level,
   format |-> "text", config |-> cfg, dataDir |-> dir, iface |-> Unset]

Default == Command("node", "production", Unset, Unset)

MCArgs ==
  {Command(r, l, c, Unset) :
      r \in {"node", "validator"}, l \in {"production", "minimum"}, c \in {Unset, "cfg"}}
  \cup {Command("validator", l, "cfg", "/data") : l \in {"production", "minimum"}}
  \cup {[Default EXCEPT !.iface = i] : i \in {"eth0", "absent", ""}}
  \cup {[Default EXCEPT !.command = ""], [Default EXCEPT !.extra = TRUE, !.level = "test"],
        [Default EXCEPT !.config = "", !.dataDir = ""],
        [Default EXCEPT !.format = "yaml", !.iface = ""]}
  \cup {[Default EXCEPT !.command = "inspect"], [Default EXCEPT !.parses = FALSE],
        [Default EXCEPT !.role = "auditor"], [Default EXCEPT !.level = "test"],
        [Default EXCEPT !.format = "yaml"], [Default EXCEPT !.config = ""]}

=============================================================================
