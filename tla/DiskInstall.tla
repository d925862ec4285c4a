---------------------------- MODULE DiskInstall ----------------------------
(* The disk an image is installed on: a fresh file of a raw image, or the    *)
(* disk the live installer takes.  It is checked, cleared, given a partition *)
(* table and its partitions; and when the image is on it the installer makes *)
(* the firmware start it.  The tools may fail at any step.                   *)
(*                                                                           *)
(* A world is kind ("raw" or "live"), devices, cfg (of the disk: path,       *)
(* strategy, excludeRemovable, requireEmpty, table, partitions), firmware,   *)
(* policy, efi and arch.  A partition asked for is [id, type, fs, mount,     *)
(* start, end, index].                                                       *)
EXTENDS DiskLayout

(* The boot entries of the firmware, [order, entries]: the number it tries at *)
(* each place - some places may be empty - and each number's [label, disk,   *)
(* part].                                                                    *)
BootEntryLabel == "ICT"
EfiLoaders == {"x86_64", "aarch64"}
Policies == {"preserve", "exclusive"}

OldBootEntries(fw) == {n \in DOMAIN fw.entries : fw.entries[n].label = BootEntryLabel}

(* The ESP by its type before its mount point. *)
EspPartition(parts, idMap) ==
    LET known == {i \in DOMAIN parts : parts[i].id \in DOMAIN idMap}
        typed == {i \in known : parts[i].type = "esp"}
        mounted == {i \in known : parts[i].mount = "/boot/efi"}
    IN  IF typed # {} THEN <<parts[Min(typed)].id>>
        ELSE IF mounted # {} THEN <<parts[Min(mounted)].id>> ELSE <<>>

(* The entries of nums, where they are in the order; and one before them all. *)
Trying(order, nums) == Restrict(order, {k \in DOMAIN order : order[k] \in nums})
PutFirst(order, n) == Put(order, 0, n)

(* efibootmgr gives the entry a free number, and puts it first - if the       *)
(* firmware lets it.                                                         *)
FreeNumbers(fw) == (0 .. Cardinality(DOMAIN fw.entries)) \ DOMAIN fw.entries
CreateBootEntry(fw, n, disk, part, first) ==
    [entries |-> Put(fw.entries, n, [label |-> BootEntryLabel, disk |-> disk, part |-> part]),
     order |-> Put(fw.order, IF first THEN 0 ELSE Len(fw.order) + 1, n)]

BootOrderFor(policy, new, current) ==
    PutFirst(IF policy = "exclusive" THEN <<>> ELSE Trying(current, Range(current) \ {new}), new)

(* <<the entries with the new one first>>: the last that is not an earlier one. *)
SetBootOrder(fw, policy, earlier) ==
    LET new == OldBootEntries(fw) \ earlier
        current == Trying(fw.order, Range(fw.order) \ earlier)
    IN  IF new = {} THEN <<>> ELSE <<[fw EXCEPT !.order = BootOrderFor(policy, Max(new), current)]>>

RemoveBootEntry(fw, n) ==
    [entries |-> Restrict(fw.entries, DOMAIN fw.entries \ {n}),
     order |-> Trying(fw.order, Range(fw.order) \ {n})]

CONSTANT Worlds

(* A disk has its description, in whole sectors of no more than a unit, and a *)
(* name of its own; a layout has a table there is, and boundaries that are    *)
(* numbers; and the firmware's order is a list of numbers.                   *)
ASSUME DisksAssumption ==
    \A w \in Worlds :
        /\ w.devices # <<>> /\ w.devices \in Seq(Range(w.devices))
        /\ \A d \in Range(w.devices) :
             /\ {"name", "size", "hw", "phys", "parts", "label", "used"} \subseteq DOMAIN d
             /\ d.size \in Nat /\ d.hw \in Nat \ {0} /\ d.phys \in 1 .. Align
             /\ \A e \in Range(w.devices) : e.name = d.name => e = d
        /\ w.cfg.table \in {"gpt", "mbr"}
        /\ w.cfg.partitions \in Seq(Range(w.cfg.partitions))
        /\ \A b \in Boundaries(w.cfg.partitions) : b \in [fromEnd : BOOLEAN, bytes : Int]
        /\ w.firmware.order \in Seq(Int)
        /\ DOMAIN w.firmware = {"order", "entries"}

VARIABLES
    world,
    pc,
    disk,      \* the disk installed on
    idMap,     \* the number of the partition made for each id
    made,      \* how many of the partitions have been gone through
    firmware,
    old        \* the entries of earlier installations, once they are known
diskVars == <<world, pc, disk, idMap, made, firmware, old>>

IsDisk == world.kind \in {"raw", "live"}
Parts == world.cfg.partitions
Goto(next) == pc' = next /\ UNCHANGED <<world, disk, idMap, made, firmware, old>>
Fail == Goto("failed")
DiskBecomes(d, next) == disk' = d /\ pc' = next /\ UNCHANGED <<world, idMap, made, firmware, old>>

(* A command of the step fails. *)
CommandFails == pc \in {"wipe", "table", "release", "rewipe", "force"} /\ Fail

SelectDisk ==
    /\ pc = "select"
    /\ LET r == ResolveInstallDisk(world.devices, world.cfg)
       IN  (r = {} /\ Fail) \/ \E i \in r : DiskBecomes(world.devices[i], "check")

CheckLayout ==
    /\ pc = "check"
    /\ IF ~ValidatePartitionLayoutOrder(Parts) \/ ~CheckEndRelativeLayoutFits(disk, Parts) THEN Fail
       ELSE Goto(IF DOMAIN disk.parts = {} THEN "table" ELSE "wipe")

Wiped(d) == [d EXCEPT !.parts = <<>>, !.label = ""]
Labelled(d) == [d EXCEPT !.parts = <<>>, !.label = world.cfg.table]

WipePartitions == pc = "wipe" /\ DiskBecomes(Wiped(disk), "table")

(* The table is taken when the disk shows its label. *)
Verified(d) == d.label = world.cfg.table

(* Mutant: a table that hung is taken for written. *)
CreateTableUnverified ==
    /\ pc = "table"
    /\ \/ /\ ~disk.used
          /\ \E d \in {disk, Labelled(disk)} : DiskBecomes(d, "partition")
       \/ disk.used /\ Goto("release")
(* sfdisk writes the table; or a disk in use is left alone; or it hangs, and  *)
(* is cut off before or after it wrote.                                      *)
CreatePartitionTable ==
    /\ pc = "table"
    /\ \/ /\ ~disk.used
          /\ \E d \in {disk, Labelled(disk)} : DiskBecomes(d, IF Verified(d) THEN "partition" ELSE "rewipe")
       \/ disk.used /\ Goto("release")
       \/ \E d \in {disk, Labelled(disk)} : DiskBecomes(d, "release")

ReleaseDisk == pc = "release" /\ DiskBecomes([disk EXCEPT !.used = FALSE], "rewipe")

(* Wiped until the disk shows no partitions, labelled until it shows the      *)
(* label; each for half a minute.                                            *)
WipeAgain ==
    /\ pc = "rewipe"
    /\ \E d \in {disk, Wiped(disk)} : DiskBecomes(d, IF DOMAIN d.parts = {} THEN "force" ELSE "rewipe")

ForceTable ==
    /\ pc = "force"
    /\ \E d \in {disk, Labelled(disk)} : DiskBecomes(d, IF Verified(d) THEN "partition" ELSE "force")

-----------------------------------------------------------------------------
(* A partition that cannot be made, or not formatted, takes those of lower    *)
(* numbers with it.                                                          *)
PartitionFails(d, num) ==
    DiskBecomes([d EXCEPT !.parts = Restrict(@, {n \in DOMAIN @ : n >= num})], "failed")

(* The fourth of more than four partitions of an MBR lies in an extended one  *)
(* up to the end of the last, which is made - and formatted - first.         *)
Extended(i) == [Parts[i] EXCEPT !.end = Last(Parts).end]
NeedsExtended(i) == world.cfg.table = "mbr" /\ i = MaxPrimary /\ Len(Parts) > MaxPrimary

CreateExtended ==
    /\ pc = "partition" /\ made < Len(Parts) /\ NeedsExtended(made + 1)
    /\ LET r == DiskPartitionCreate(disk, MaxPrimary, Extended(made + 1), "extended")
       IN  /\ \A d \in Range(r) : Format(d, MaxPrimary, Parts[made + 1]) = Refused
           /\ PartitionFails(IF r = Refused THEN disk ELSE r[1], MaxPrimary)

CreatePartition ==
    /\ pc = "partition" /\ made < Len(Parts) /\ ~NeedsExtended(made + 1)
    /\ ValidIndexes(Parts) \/ world.cfg.table = "mbr"
    /\ LET p == Parts[made + 1]
           num == PartitionNum(Parts, made + 1, world.cfg.table)
           r == DiskPartitionCreate(disk, num, p, PartitionKind(Parts, made + 1, world.cfg.table))
           f == IF r = Refused THEN Refused ELSE Format(r[1], num, p)
       IN  \/ /\ f # Refused
              /\ disk' = f[1] /\ made' = made + 1
              /\ idMap' = Put(idMap, p.id, num)
              /\ UNCHANGED <<world, pc, firmware, old>>
           \/ \E d \in {disk} \cup Range(r) : PartitionFails(d, num)

InvalidIndexes ==
    /\ pc = "partition" /\ world.cfg.table = "gpt" /\ ~ValidIndexes(Parts) /\ Fail

PartitionsCreated == pc = "partition" /\ made = Len(Parts) /\ Goto("image")

-----------------------------------------------------------------------------
(* Mutant: the old entries go before there is a new one. *)
ReplaceOldEntriesFirst ==
    /\ pc = "bootorder" /\ world.efi
    /\ old' = OldBootEntries(firmware) /\ pc' = "bootentry"
    /\ firmware' = [entries |-> Restrict(firmware.entries, DOMAIN firmware.entries \ old'),
                    order |-> Trying(firmware.order, Range(firmware.order) \ old')]
    /\ UNCHANGED <<world, disk, idMap, made>>
(* The installer, after the image is installed: nothing of the firmware is    *)
(* touched but for an EFI image with a policy it knows.                      *)
UpdateBootOrder ==
    /\ pc = "bootorder"
    /\ IF ~world.efi THEN Goto("done")
       ELSE IF world.policy \notin Policies THEN Fail
       ELSE old' = OldBootEntries(firmware) /\ pc' = "bootentry"
            /\ UNCHANGED <<world, disk, idMap, made, firmware>>

FirmwareBecomes(fw, next) ==
    firmware' = fw /\ pc' = next /\ UNCHANGED <<world, disk, idMap, made, old>>

CreateNewBootEntry ==
    /\ pc = "bootentry"
    /\ LET esp == EspPartition(Parts, idMap)
       IN  IF esp = <<>> \/ world.arch \notin EfiLoaders THEN Fail
           ELSE \E first \in BOOLEAN, n \in FreeNumbers(firmware) :
                    FirmwareBecomes(CreateBootEntry(firmware, n, disk.name, idMap[esp[1]], first), "setorder")

SetOrder ==
    /\ pc = "setorder"
    /\ LET r == SetBootOrder(firmware, world.policy, old)
       IN  IF r = <<>> THEN Fail ELSE FirmwareBecomes(r[1], "removeold")

RemoveOldEntry ==
    /\ pc = "removeold"
    /\ LET left == old \cap DOMAIN firmware.entries
       IN  IF left = {} THEN Goto("done")
           ELSE \E n \in left : FirmwareBecomes(RemoveBootEntry(firmware, n), pc)

FirmwareFails == pc \in {"bootentry", "setorder", "removeold"} /\ Fail

DiskInit ==
    /\ world \in Worlds
    /\ pc = CASE world.kind = "live" -> "select" [] world.kind = "raw" -> "check" [] OTHER -> "image"
    /\ disk = world.devices[1]
    /\ idMap = <<>> /\ made = 0
    /\ firmware = world.firmware /\ old = {}

DiskNext ==
    \/ SelectDisk \/ CheckLayout \/ WipePartitions \/ CreatePartitionTable \/ ReleaseDisk \/ WipeAgain \/ ForceTable
    \/ CreateExtended \/ CreatePartition \/ InvalidIndexes \/ PartitionsCreated
    \/ UpdateBootOrder \/ CreateNewBootEntry \/ SetOrder \/ RemoveOldEntry
    \/ CommandFails \/ FirmwareFails

-----------------------------------------------------------------------------
Untouched(d) == d \in Range(world.devices)
Partitioned == IsDisk /\ pc \in {"image", "bootorder", "bootentry", "setorder", "removeold", "done"}

(* Where the layout is measured from the end, what passed the check before    *)
(* the disk was cleared can be made: every partition has its sectors, in      *)
(* order, on the disk, whatever the disk's blocks round them to - but for an  *)
(* end in the few sectors the table keeps for itself.                        *)
CheckedLayoutFits ==
    ~Untouched(disk) /\ HasEndRelativeBoundary(Parts) =>
        LET s == [i \in DOMAIN Parts |-> PartitionSectors(disk, Parts[i])]
        IN  \A i \in DOMAIN Parts :
              /\ s[i] # Refused
              /\ s[i][1][2] # 0 => s[i][1][1] <= s[i][1][2] /\ s[i][1][2] <= LastSector(disk)
              /\ s[i][1][1] <= LastSector(disk)
              /\ i > 1 => s[i][1][1] > s[i - 1][1][2]

(* An installer left to choose never clears a disk that has partitions, is    *)
(* plugged in from outside or is the medium it runs from, unless the template *)
(* allows it.                                                                *)
OccupiedDisksAreKept ==
    world.kind = "live" /\ world.cfg.path = <<>> /\ ~Untouched(disk) =>
        \A d \in Range(world.devices) : d.name = disk.name =>
            /\ ~d.iso /\ d.type = "disk"
            /\ world.cfg.requireEmpty => DOMAIN d.parts = {}
            /\ world.cfg.excludeRemovable => ~(d.removable \/ d.hotplug \/ d.usb \/ d.tran = "usb")

(* What an image is installed on is what was asked for: the table's label, no *)
(* partition of before, and by the id of each partition (the last of an id)   *)
(* a file system of its kind, alone in its sectors.                          *)
IdsNameTheirPartitions ==
    Partitioned =>
        /\ disk.label = world.cfg.table
        /\ Cardinality(DOMAIN disk.parts) = Len(Parts)
        /\ \A i \in DOMAIN Parts :
             (\A j \in i + 1 .. Len(Parts) : Parts[j].id # Parts[i].id) =>
                LET it(id) == disk.parts[idMap[id]]
                IN  it(Parts[i].id).id = Parts[i].id /\ it(Parts[i].id).fs = Parts[i].fs
        /\ \A m, n \in DOMAIN disk.parts :
             m # n => disk.parts[m].to < disk.parts[n].from \/ disk.parts[n].to < disk.parts[m].from

(* The disk an image lies on is one that may be cleared, laid out as asked.  *)
DiskAsAsked == OccupiedDisksAreKept /\ CheckedLayoutFits /\ IdsNameTheirPartitions

(* The firmware always has something to start that it had, or the image:      *)
(* wherever the installer fails, its order names an entry that exists; no     *)
(* entry but an installer's goes; and at the end the new entry is first, for  *)
(* the disk's ESP, before the order there was.                               *)
FirmwareKeepsBooting ==
    LET was == world.firmware
        foreign == {n \in DOMAIN was.entries : was.entries[n].label # BootEntryLabel}
    IN  /\ Range(was.order) \cap DOMAIN was.entries # {} =>
              Range(firmware.order) \cap DOMAIN firmware.entries # {}
        /\ \A n \in foreign : n \in DOMAIN firmware.entries /\ firmware.entries[n] = was.entries[n]
        /\ pc = "done" /\ world.kind = "live" /\ world.efi =>
              LET new == firmware.order[0] IN
              /\ OldBootEntries(firmware) = {new}
              /\ firmware.entries[new].disk = disk.name
              /\ disk.parts[firmware.entries[new].part].id = EspPartition(Parts, idMap)[1]
              /\ Trying(firmware.order, DOMAIN firmware.entries) =
                    PutFirst(Trying(was.order, IF world.policy = "exclusive" THEN {} ELSE foreign), new)
=============================================================================
