---------------------------- MODULE DiskLayout ----------------------------
(* Where the partitions of a template come to lie on a disk, and which disk. *)
(*                                                                           *)
(* A disk is [name, size, hw, phys, type, mapped, iso, removable, hotplug,   *)
(* tran, usb, rota, ssd, label, parts, used]: its size and block sizes in    *)
(* the unit of the model, what the system says of it, and its partitions by  *)
(* their number.  A boundary is [fromEnd, bytes]; Zero is "0", the start of  *)
(* the disk or the rest of it, and a negative size is none.                  *)
EXTENDS Lists

Align == 8          \* 1 MiB
GptReserved == 2    \* sectors a GPT takes at either end

Zero == [fromEnd |-> FALSE, bytes |-> 0]
IsSize(b) == b.bytes >= 0
ParseBoundary(b) == IsSize(b) /\ (b.fromEnd => b.bytes > 0)

BoundariesOutOfOrder(l, r) ==
    /\ l.fromEnd = r.fromEnd
    /\ IF l.fromEnd THEN l.bytes < r.bytes ELSE l.bytes > r.bytes

ValidatePartitionLayoutOrder(parts) ==
    \A i \in DOMAIN parts : LET p == parts[i] IN
        /\ ParseBoundary(p.start)
        /\ i > 1 => ~BoundariesOutOfOrder(parts[i - 1].end, p.start)
        /\ IF p.end = Zero THEN i = Len(parts)
           ELSE /\ ParseBoundary(p.end) /\ p.start # p.end
                /\ ~BoundariesOutOfOrder(p.start, p.end)

Boundaries(parts) == UNION {{p.start, p.end} : p \in Range(parts)}
HasEndRelativeBoundary(parts) == \E b \in Boundaries(parts) : b.fromEnd

(* The most asked for from the start and from the end, and a unit between.   *)
HasRequiredInstallDiskBytes(size, parts) ==
    /\ \A b \in Boundaries(parts) : ParseBoundary(b)
    /\ \A b, e \in {Zero} \cup Boundaries(parts) :
          ~b.fromEnd => size >= b.bytes + IF e.fromEnd THEN e.bytes + Align ELSE 0

-----------------------------------------------------------------------------
(* A size in sectors: up to the next physical block; what is less than one   *)
(* is whole sectors.                                                         *)
SectorOffsetFromSize(d, bytes) ==
    IF bytes < d.phys THEN IF bytes % d.hw = 0 THEN <<bytes \div d.hw>> ELSE Refused
    ELSE <<(((bytes + d.phys - 1) \div d.phys) * d.phys) \div d.hw>>

EndRelativeSector(d, bytes) ==
    IF bytes = 0 \/ bytes >= d.size THEN Refused
    ELSE <<(((d.size - bytes) \div Align) * Align) \div d.hw>>

BoundarySector(d, b) ==
    IF b.fromEnd THEN EndRelativeSector(d, b.bytes) ELSE SectorOffsetFromSize(d, b.bytes)

(* <<<<start, end>>>>, the end inclusive, and 0 the rest of the disk. *)
PartitionSectors(d, p) ==
    LET at(b) == IF b = Zero THEN <<0>> ELSE IF ParseBoundary(b) THEN BoundarySector(d, b) ELSE Refused
        start == at(p.start)
        end == at(p.end)
    IN  IF start = Refused \/ end = Refused \/ (p.end # Zero /\ end = <<0>>) THEN Refused
        ELSE <<<<start[1], IF p.end = Zero THEN 0 ELSE end[1] - 1>>>>

LastSector(d) == d.size \div d.hw - 1

(* Only a layout that is measured from the end, too, is held to the disk.    *)
CheckEndRelativeLayoutFits(d, parts) ==
    HasEndRelativeBoundary(parts) =>
        LET sectors == [i \in DOMAIN parts |-> PartitionSectors(d, parts[i])]
            first(i) == sectors[i][1][1]
            last(i) == IF parts[i].end = Zero THEN LastSector(d) ELSE sectors[i][1][2]
        IN  /\ HasRequiredInstallDiskBytes(d.size, parts)
            /\ \A i \in DOMAIN parts :
                 /\ sectors[i] # Refused
                 /\ first(i) <= last(i)
                 /\ i > 1 => first(i) > last(i - 1)

-----------------------------------------------------------------------------
(* The disks there are, and the one the policy takes. *)
SystemBlockDevices(devices) ==
    {i \in DOMAIN devices : devices[i].type = "disk" /\ ~devices[i].mapped /\ ~devices[i].iso}

IsExternallyAttached(d) == d.removable \/ d.tran = "usb" \/ d.hotplug \/ d.usb

EligibleCandidates(devices, cfg) ==
    {i \in SystemBlockDevices(devices) :
        /\ cfg.excludeRemovable => ~IsExternallyAttached(devices[i])
        /\ HasRequiredInstallDiskBytes(devices[i].size, cfg.partitions)
        /\ cfg.requireEmpty => DOMAIN devices[i].parts = {}}

TransportTier(d) ==
    CASE d.tran = "nvme"            -> 6
      [] d.tran = "virtio"          -> 5
      [] d.tran \in {"sas", "scsi"} -> 4
      [] d.tran \in {"sata", "ata"} -> 3
      [] d.tran = "mmc"             -> 2
      [] d.tran = "usb"             -> 1
      [] OTHER                      -> 0

LargerCandidate(a, b) == a.size > b.size \/ (a.size = b.size /\ a.name < b.name)
FasterCandidate(a, b) ==
    LET rank(d) == <<TransportTier(d), IF d.rota THEN 0 ELSE 1, IF d.ssd THEN 1 ELSE 0>>
        differ == {k \in 1..3 : rank(a)[k] # rank(b)[k]}
    IN  IF differ = {} THEN LargerCandidate(a, b)
        ELSE rank(a)[Min(differ)] > rank(b)[Min(differ)]

(* The place of the disk, by its path or by the policy: in a set, none when   *)
(* there is none.                                                            *)
ResolveInstallDisk(devices, cfg) ==
    LET named == {i \in DOMAIN devices : <<devices[i].name>> = cfg.path}
        eligible == EligibleCandidates(devices, cfg)
        first(S) == {i \in S : \A j \in S : i <= j}
        best(Better(_, _)) == {i \in eligible : \A j \in eligible :
                                 devices[i] = devices[j] \/ Better(devices[i], devices[j])}
    IN  IF cfg.path # <<>> THEN {i \in first(named) : devices[i].type # "part"}
        ELSE CASE cfg.strategy = "first"   -> first(eligible)
               [] cfg.strategy = "largest" -> best(LargerCandidate)
               [] cfg.strategy = "fastest" -> best(FasterCandidate)
               [] OTHER                    -> {}

-----------------------------------------------------------------------------
(* The numbers of the partitions. *)
Indexed(parts) == {i \in DOMAIN parts : parts[i].index # <<>>}
ValidIndexes(parts) ==
    \A i \in Indexed(parts) : /\ parts[i].index[1] > 0
                              /\ \A j \in Indexed(parts) \ {i} : parts[i].index # parts[j].index

(* A partition without an index takes the first from its place on that no    *)
(* other was given (one taken this way by an earlier partition is not one).   *)
PartitionNum(parts, i, table) ==
    IF table = "mbr" THEN i
    ELSE IF parts[i].index # <<>> THEN parts[i].index[1]
    ELSE Min({n \in i .. i + Len(parts) : \A j \in Indexed(parts) : parts[j].index[1] # n})

MaxPrimary == 4
PartitionKind(parts, i, table) ==
    IF table = "mbr" /\ i >= MaxPrimary /\ Len(parts) > MaxPrimary THEN "logical" ELSE "primary"

(* The tools: what of the disk is taken, and where a partition may be.       *)
Usable(d) == IF d.label = "gpt" THEN GptReserved .. LastSector(d) - GptReserved ELSE 1 .. LastSector(d)
Taken(d, kind) ==
    UNION {d.parts[n].from .. d.parts[n].to :
             n \in {x \in DOMAIN d.parts : kind = "logical" => d.parts[x].kind # "extended"}}

(* <<<<number, from, to>>>> of the partition sgdisk or sfdisk makes: without *)
(* a start at the first free sector, without an end up to the next partition. *)
ToolCreates(d, num, kind, start, end) ==
    LET free == Usable(d) \ Taken(d, kind)
        from == IF start = 0 /\ free # {} THEN Min(free) ELSE start
        next == {s \in Taken(d, kind) : s > from}
        rest == IF next = {} THEN LastSector(d) - IF d.label = "gpt" THEN GptReserved ELSE 0
                ELSE Min(next) - 1
        to == IF end = 0 THEN rest ELSE end
        logicals == {x \in DOMAIN d.parts : x > MaxPrimary}
        n == IF d.label = "gpt" THEN num
             ELSE IF kind = "logical" THEN 5 + Cardinality(logicals)
             ELSE Min((1 .. MaxPrimary + 1) \ DOMAIN d.parts)
    IN  IF n \in DOMAIN d.parts \/ from > to \/ ~(from .. to \subseteq free) THEN Refused
        ELSE <<<<n, from, to>>>>

FsTypes == {"fat32", "fat16", "vfat", "ext2", "ext3", "ext4", "xfs", "linux-swap"}

(* <<the disk with the partition>>: made, then formatted by the number that  *)
(* was asked for; an extended partition cannot be.                           *)
DiskPartitionCreate(d, num, p, kind) ==
    LET sectors == PartitionSectors(d, p)
        shift(s) == IF kind = "logical" THEN s + 1 ELSE s
        start == shift(sectors[1][1])
        \* sfdisk is given a size, of a sector less than there is
        end == IF sectors[1][2] = 0 THEN 0 ELSE shift(sectors[1][2]) - IF d.label = "gpt" THEN 0 ELSE 1
        made == ToolCreates(d, num, kind, start, end)
    IN  IF ~ParseBoundary(p.start) \/ ~ParseBoundary(p.end) \/ p.fs \notin FsTypes
           \/ sectors = Refused \/ made = Refused \/ (d.label # "gpt" /\ start = 0)
        THEN Refused
        ELSE <<[d EXCEPT !.parts = Put(@, made[1][1],
                 [from |-> made[1][2], to |-> made[1][3], kind |-> kind, fs |-> "", id |-> p.id])]>>

(* Formatted by the node of the number asked for. *)
Format(d, num, p) ==
    IF num \notin DOMAIN d.parts \/ d.parts[num].kind = "extended" THEN Refused
    ELSE <<[d EXCEPT !.parts[num].fs = p.fs]>>
=============================================================================
