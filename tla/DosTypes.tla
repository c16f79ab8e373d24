------------------------------ MODULE DosTypes ------------------------------
(***************************************************************************)
(* The type byte of an msdos partition (libparted/labels/dos.c): it stores *)
(* the file system, whether the partition is extended, and every flag but  *)
(* "boot", so that setting one of them may disturb the others.  A          *)
(* partition record carries sys (the type byte), boot and fs.              *)
(***************************************************************************)
EXTENDS Geometry, TLC

\* The type bytes, in decimal.
EMPTY == 0
FAT12 == 1
FAT16_SM == 4
DOS_EXT == 5
FAT16 == 6
NTFS == 7
FAT32 == 11
FAT32_LBA == 12
FAT16_LBA == 14
EXT_LBA == 15
HiddenBit == 16
COMPAQ_DIAG == 18
MSFT_RECOVERY == 39
PREP == 65
LINUX_SWAP == 130
LINUX == 131
IRST == 132
LINUX_EXT == 133
LINUX_LVM == 142
HFS == 175
SUN_UFS == 191
DELL_DIAG == 222
BLS_BOOT == 234
GPT == 238
ESP == 239
PALO == 240
LINUX_RAID == 253
LINUX_LVM_OLD == 254

\* flag_id_mapping: type_id and alt_type_id, which is 0 where none is given.
FlagIdMapping(flag) ==
  CASE flag = "bls_boot" -> <<BLS_BOOT, 0>>
    [] flag = "diag"     -> <<COMPAQ_DIAG, DELL_DIAG>>
    [] flag = "esp"      -> <<ESP, 0>>
    [] flag = "irst"     -> <<IRST, 0>>
    [] flag = "lvm"      -> <<LINUX_LVM, LINUX_LVM_OLD>>
    [] flag = "msftres"  -> <<MSFT_RECOVERY, 0>>
    [] flag = "palo"     -> <<PALO, 0>>
    [] flag = "prep"     -> <<PREP, 0>>
    [] flag = "raid"     -> <<LINUX_RAID, 0>>
    [] flag = "swap"     -> <<LINUX_SWAP, 0>>
    [] OTHER             -> NULL

\* skip_set_system_types.
SkipTypes ==
  {EXT_LBA, DOS_EXT, COMPAQ_DIAG, MSFT_RECOVERY, LINUX_LVM, LINUX_SWAP, LINUX_RAID,
   PALO, PREP, IRST, ESP, BLS_BOOT}

Hideable == {DOS_EXT, FAT12, FAT16, FAT16_LBA, FAT16_SM, FAT32, FAT32_LBA, NTFS}
Hidden(ids) == {id + HiddenBit : id \in ids}

IsHidden(id) == id \in Hidden(Hideable)
SupportsHidden(id) == id \in Hideable \/ IsHidden(id)

SupportsLba(id) ==
  id \in {DOS_EXT, EXT_LBA} \cup {FAT16, FAT16_LBA, FAT32, FAT32_LBA}
           \cup Hidden({FAT16, FAT16_LBA, FAT32, FAT32_LBA})

IsLba(id) == id \in {FAT16_LBA, FAT32_LBA, EXT_LBA} \cup Hidden({FAT16_LBA, FAT32_LBA})

SetHidden(id, state) ==
  IF state /\ ~IsHidden(id) THEN id + HiddenBit
  ELSE IF ~state /\ IsHidden(id) THEN id - HiddenBit ELSE id

\* dos_type_id_set_lba: hidden types are left as they are.
SetLba(id, state) ==
  LET lba == (FAT16 :> FAT16_LBA) @@ (FAT32 :> FAT32_LBA) @@ (DOS_EXT :> EXT_LBA)
  IN  IF state /\ id \in DOMAIN lba THEN lba[id]
      ELSE IF ~state /\ \E x \in DOMAIN lba : lba[x] = id
           THEN CHOOSE x \in DOMAIN lba : lba[x] = id
      ELSE id

RawPartIsExtended(id) == id \in {DOS_EXT, EXT_LBA, LINUX_EXT}

(***************************************************************************)
(* The operations on a partition, and whether they are carried out.        *)
(***************************************************************************)
\* The type byte of a file system.
SystemOf(fs) ==
  CASE fs = "fat16" -> FAT16
    [] fs = "fat32" -> FAT32
    [] fs \in {"ntfs", "hpfs", "udf"} -> NTFS
    [] fs \in {"hfs", "hfs+"} -> HFS
    [] fs = "sun-ufs" -> SUN_UFS
    [] fs = "linux-swap" -> LINUX_SWAP
    [] OTHER -> LINUX

\* msdos_partition_set_system.
SetSystem(part, fs) ==
  [part EXCEPT !.fs = fs,
               !.sys = IF @ \in SkipTypes THEN @
                       ELSE IF part.type = "extended" THEN EXT_LBA ELSE SystemOf(fs)]

\* msdos_partition_new, and ped_partition_new's call of set_system.
WithSystem(part, fs) ==
  LET new == part @@ [sys |-> LINUX, boot |-> FALSE, fs |-> fs]
  IN  IF fs # NULL \/ part.type = "extended" THEN SetSystem(new, fs) ELSE new

IsFlagAvailable(part, flag) ==
  IF FlagIdMapping(flag) # NULL THEN part.type # "extended"
  ELSE CASE flag = "hidden" -> SupportsHidden(part.sys)
         [] flag = "lba"    -> SupportsLba(part.sys)
         [] flag = "boot"   -> TRUE
         [] OTHER           -> FALSE

GetFlag(part, flag) ==
  IF FlagIdMapping(flag) # NULL
  THEN part.sys \in {FlagIdMapping(flag)[1], FlagIdMapping(flag)[2]}
  ELSE CASE flag = "hidden" -> IsHidden(part.sys)
         [] flag = "lba"    -> IsLba(part.sys)
         [] flag = "boot"   -> part.boot
         [] OTHER           -> FALSE

\* A flag that is a type of its own; clearing it goes back to the type of
\* the file system.
SetMapped(part, ids, state) ==
  IF state THEN [part EXCEPT !.sys = ids[1]]
  ELSE IF part.sys \in {ids[1], ids[2]} THEN SetSystem([part EXCEPT !.sys = LINUX], part.fs)
  ELSE part

\* What msdos_partition_set_flag does to the partition itself; "boot" is
\* also taken from every other partition.
SetOwnFlag(part, flag, state) ==
  IF FlagIdMapping(flag) # NULL THEN SetMapped(part, FlagIdMapping(flag), state)
  ELSE CASE flag = "hidden" -> [part EXCEPT !.sys = SetHidden(@, state)]
         [] flag = "lba"    -> [part EXCEPT !.sys = SetLba(@, state)]
         [] flag = "boot"   -> [part EXCEPT !.boot = state]
         [] OTHER           -> part
=============================================================================
