---------------------------- MODULE BlockDevices ----------------------------
(***************************************************************************)
(* The block devices of the hosts of a session and the ones that tests may *)
(* format (lib/host.py, rescan_block_devices_info; conftest.py, disks).    *)
(*                                                                         *)
(* A row of lsblk gives the kernel name of a device, that of the device it *)
(* is shown under (<<>> at the top), its type, whether it is mounted and   *)
(* its WWN.  A multipath device has no WWN of its own, its name tells it.  *)
(***************************************************************************)
EXTENDS Naturals, Sequences, SequencesExt

NoWwn == ""
Row(kname, pkname, type, mounted, wwn) ==
    [kname |-> kname, pkname |-> pkname, type |-> type, mounted |-> mounted, wwn |-> wwn]

RAID_TYPES == {"raid1"}
USED_TYPES == RAID_TYPES \cup {"lvm", "mpath", "crypt"}

_row_by_kname(rows, kname) == rows[SelectInSeq(rows, LAMBDA r : r.kname = kname)]

children(rows, kname) == {rows[i].kname : i \in {j \in DOMAIN rows : rows[j].pkname = kname}}

_all_available(rows) ==
    LET free[kname \in {rows[i].kname : i \in DOMAIN rows}] ==
            LET r == _row_by_kname(rows, kname)
            IN  ~r.mounted /\ r.type \notin USED_TYPES /\ \A c \in children(rows, kname) : free[c]
    IN  free

\* Mutant: the device is looked at, not what is on it.
TopOnly(rows, r) == ~r.mounted /\ (r.type \in USED_TYPES => children(rows, r.kname) = {})

\* A RAID or multipath device is of a used type itself: only its children count.
_available(rows, r) ==
    IF r.type \in RAID_TYPES \cup {"mpath"}
    THEN ~r.mounted /\ \A c \in children(rows, r.kname) : _all_available(rows)[c]
    ELSE _all_available(rows)[r.kname]

\* The rows that are devices: disks at the top, RAID and multipath devices.
Listed(r) == \/ r.type = "disk" /\ r.pkname = <<>>
             \/ r.type \in RAID_TYPES \cup {"mpath"}

\* A disk seen twice is known by its WWN, another device by its kernel name.
Seen(rows, i) ==
    \E j \in 1..(i - 1) :
        /\ Listed(rows[j])
        /\ IF rows[i].type = "disk" THEN rows[j].type = "disk" /\ rows[i].wwn # NoWwn /\ rows[j].wwn = rows[i].wwn
                                    ELSE rows[j].kname = rows[i].kname

rescan_block_devices_info(rows) ==
    {[name |-> rows[i].kname, available |-> _available(rows, rows[i]),
      wwn |-> IF rows[i].type \in RAID_TYPES THEN NoWwn ELSE rows[i].wwn] :
        i \in {j \in DOMAIN rows : Listed(rows[j]) /\ ~Seen(rows, j)}}

-----------------------------------------------------------------------------
(* The disks of a session: those that --disks allows on each host, less    *)
(* the LUNs that another host uses.                                        *)

All == {<<>>}   \* no --disks for the host
_host_disks(devices, cli) == {d \in devices : cli = All \/ d.name \in cli}

\* Mutant: a disk without a WWN, or of a nested host, counts as shared.
UsedAnyWwn(found, Nested) == UNION {{d.wwn : d \in {x \in found[h] : ~x.available}} : h \in DOMAIN found}

\* The local disks of nested hosts have the same WWNs on all of them.
used_wwns(found, Nested) ==
    UNION {{d.wwn : d \in {x \in found[h] : ~x.available}} : h \in DOMAIN found} \ ({NoWwn} \cup Nested)

disks(rows, cli, Nested) ==
    LET found == [h \in DOMAIN rows |-> _host_disks(rescan_block_devices_info(rows[h]), cli[h])]
        used  == used_wwns(found, Nested)
    IN  [h \in DOMAIN rows |-> {[d EXCEPT !.available = @ /\ d.wwn \notin used] : d \in found[h]}]

unused_512B_disks(rows, cli, Nested) ==
    [h \in DOMAIN rows |-> {d.name : d \in {x \in disks(rows, cli, Nested)[h] : x.available}}]
=============================================================================
