--------------------------- MODULE MCStoragePath ---------------------------
(* Small instances of StoragePath: a root on a disk, filesystems of other    *)
(* media mounted on the way to the target, one of them at a point the kernel *)
(* prints with escapes, a line the parser ignores, a directory this process  *)
(* may not look into with a target below it; and a data directory that is a  *)
(* symbolic link.                                                            *)
EXTENDS StoragePath

var == <<"var">>
db == <<"db">>
nvme == <<"nvme">>

\* A name with a blank and the text of an escape: `my \040`.
disk == <<"my", " ", "\\", "040">>

DB == <<var, db>>
Disk == <<disk>>
DiskDB == <<disk, db>>
Below == <<disk, db, var>>

MCSpell == [c \in {var, db, nvme, disk} |->
              IF c = disk THEN <<"my", "\\", "040", "\\", "134", "040">> ELSE c]

\* A partition below its disk, a whole disk, a device with an odd attribute, one
\* with none, and one that is not a block device.
MCChain ==
  [sda1 |-> <<"none", "1", "none">>, nvme0 |-> <<"0">>, odd |-> <<"other", "0">>,
   bare |-> <<"none">>, tmpfs |-> << >>]

Line(point, dev) == [point |-> point, dev |-> dev, shaped |-> TRUE]
Junk == [point |-> <<var>>, dev |-> "odd", shaped |-> FALSE]
Root == Line(<< >>, "sda1")
Host(ds, lines) == [dirs |-> {<< >>} \cup ds, table |-> <<Root>> \o lines]

MCTargets == {DB, DiskDB, Below}

MCHosts ==
  {[dirs |-> {<< >>, <<var>>, Disk}, table |-> <<Line(<<var>>, "nvme0")>>], Host({}, << >>)}
  \cup {Host(ds, lines) :
     ds \in {{<<var>>, Disk}, {<<var>>, Disk, DB}, {<<var>>, Disk, DiskDB, Below}},
     lines \in {<< >>, <<Junk>>}
                 \cup {<<Line(p, d)>> : p \in {<<var>>, <<MCSpell[disk]>>},
                                        d \in {"nvme0", "odd", "bare", "tmpfs"}}
                 \cup {<<Line(<<MCSpell[disk]>>, "nvme0"), Junk, Line(<<var>>, "odd")>>}}

MCMountable == {[point |-> p, dev |-> "nvme0"] : p \in {DB, Disk}}
MCMakeable == {DB, DiskDB}

NoLink == [p \in {} |-> << >>]
MCClosed == {DiskDB}

\* /var/db is a link to a directory on another filesystem.
DBLink == (DB :> <<nvme, db>>)
LinkHosts == {Host({<<var>>, <<nvme>>, <<nvme, db>>}, <<Line(<<nvme>>, "nvme0")>>)}
LinkTargets == {DB}
NoMounts == {}

=============================================================================
