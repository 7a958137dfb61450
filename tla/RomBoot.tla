------------------------------ MODULE RomBoot ------------------------------
(***************************************************************************)
(* The boot flow of nexell_riscv/romboot: romboot() (iROMBOOT.c), iSDBOOT  *)
(* and SDMMCBOOT (iSDBOOT.c), iSPIBOOT (iSPIBOOT.c) and the questions they *)
(* ask a partition table (nx_gpt.c), from one reset to the next.  SRAM     *)
(* keeps its contents over a reset; the medium need not.                   *)
(*                                                                         *)
(* A sector is a block: an identity and the answers it gives to the code   *)
(* that looks into it.  NX_SDMMC_Open and NX_SDMMC_ReadSectors are steps   *)
(* that keep what modules SdOpen and SdRead check: a read that returns 1   *)
(* has stored every sector, one that returns 0 may have stored some.       *)
(***************************************************************************)
EXTENDS Integers

CONSTANTS
    Disks,              \* SD/MMC contents: functions from 0 .. n to blocks
    Flashes,            \* SPI flash contents, cut into blocks likewise
    BLOCK_LENGTH,       \* bytes of a block, and of the boot header (512)
    INTERNAL_SRAM_SIZE, \* bytes (0x8000)
    SECONDBOOT_STACK,   \* bytes kept for the next stage's stack (0x2000)
    FAULTS,             \* whether opening a card and reading it may fail
    MAX_RESETS          \* resets after the first

SDBOOT == 0
SPIBOOT == 1
Media == ({SDBOOT} \X Disks \X FAULTS)
            \cup ({SPIBOOT} \X Flashes \X {FALSE})
Blocks == UNION {{d[i] : i \in DOMAIN d} : d \in Disks \cup Flashes}

\* Blocks of SRAM after the header.
Slots == 0 .. INTERNAL_SRAM_SIZE \div BLOCK_LENGTH - 2

\* What the code reads in a block, beside its identity.
BlockType ==
    [id : STRING,
     ee : BOOLEAN,                   \* byte 450 is 0xee or 0xed
     gpt : {"none", "bad", "ok"},    \* signature and CRC of a GPT header
     partition_entry_lba : Nat,
     num_partition_entries : Nat,
     sizeof_partition_entry : Nat,
     nsih : BOOLEAN,                 \* signature is HEADER_ID
     LoadSize : Nat]

ASSUME RomBootAssumption ==
    /\ BLOCK_LENGTH \in Nat \ {0}
    /\ INTERNAL_SRAM_SIZE \in Nat /\ SECONDBOOT_STACK \in Nat
    /\ BLOCK_LENGTH <= SECONDBOOT_STACK
    /\ SECONDBOOT_STACK <= INTERNAL_SRAM_SIZE
    /\ \A d \in Disks \cup Flashes : DOMAIN d \subseteq Nat
    /\ Blocks \subseteq BlockType
    /\ \A d \in Flashes : \A i \in {-1, 0} \cup Slots : i + 1 \in DOMAIN d
    /\ FAULTS \subseteq BOOLEAN /\ MAX_RESETS \in Nat

VARIABLES
    pc,
    source,     \* boot mode pin, what is on the medium it selects, whether
                \* that medium may fail
    bi,         \* pbm->bi, the block at the start of SRAM
    image,      \* pbm->image, the blocks that follow it
    ret,        \* "not GPT" or "not valid", in SDMMCBOOT
    rsn,        \* sector to read next
    sectorsize, \* blocks of the image
    result,     \* what the boot function will return
    resets

vars == <<pc, source, bi, image, ret, rsn, sectorsize, result, resets>>
pins == <<source, resets>>

option == source[1]
medium == source[2]
faulty == source[3]

\* (size + BLOCK_LENGTH - 1) / BLOCK_LENGTH
BlocksOf(size) == (size + BLOCK_LENGTH - 1) \div BLOCK_LENGTH

\* BootSize, cut to the SRAM the next stage's stack leaves.
BootSize(b) ==
    IF b.LoadSize > INTERNAL_SRAM_SIZE - SECONDBOOT_STACK
    THEN INTERNAL_SRAM_SIZE - SECONDBOOT_STACK ELSE b.LoadSize

get_first_empty_lba(b) ==
    b.partition_entry_lba
      + (b.num_partition_entries * b.sizeof_partition_entry) \div BLOCK_LENGTH

\* pbm->image once the first k blocks from rsn have been stored.
Stored(k) ==
    [i \in Slots |-> IF i < k THEN medium[rsn + i] ELSE image[i]]

-----------------------------------------------------------------------------
\* Power is on; SRAM holds anything, the pin selects a medium.
Init ==
    /\ pc = "reset"
    /\ source \in Media
    /\ bi \in Blocks
    /\ image \in {[i \in Slots |-> b] : b \in Blocks}
    /\ ret = 0 /\ rsn = 0 /\ sectorsize = 0 /\ result = 0 /\ resets = 0

\* A reset at any moment; meanwhile the medium or the pin may have changed.
Reset ==
    /\ resets < MAX_RESETS
    /\ resets' = resets + 1
    /\ source' \in Media
    /\ pc' = "reset"
    /\ ret' = 0 /\ rsn' = 0 /\ sectorsize' = 0 /\ result' = 0
    /\ UNCHANGED <<bi, image>>

\* romboot: getBootMode and the switch.
romboot ==
    /\ pc = "reset"
    /\ pc' = IF option = SPIBOOT THEN "spi" ELSE "open"
    /\ UNCHANGED <<pins, bi, image, ret, rsn, sectorsize, result>>

\* iSDBOOT: pads, NX_SDMMC_Init, NX_SDMMC_Open and the reset of the FIFO.
Open ==
    /\ pc = "open"
    /\ \/ pc' = "mbr"
       \/ faulty /\ pc' = "close"
    /\ UNCHANGED <<pins, bi, image, ret, rsn, sectorsize, result>>

\* ReadSectors(lba, 1, &pbm->bi).  What a failed read leaves is anything.
ReadBlock(lba, next) ==
    /\ rsn' = lba + 1
    /\ \/ lba \in DOMAIN medium /\ bi' = medium[lba] /\ pc' = next
       \/ /\ faulty \/ lba \notin DOMAIN medium
          /\ bi' \in Blocks /\ pc' = "close"
    /\ UNCHANGED <<pins, image, sectorsize, result>>

\* The first sector, then is_gpt_part.
ReadMbr ==
    /\ pc = "mbr"
    /\ ReadBlock(rsn, "sector1")
    /\ ret' = IF bi'.ee THEN 0 ELSE -1

\* The second sector, over the first; if it is a GPT header, is_gpt_valid.
ReadSector1 ==
    /\ pc = "sector1"
    /\ ReadBlock(rsn, "which")
    /\ UNCHANGED ret

\* Mutant: gives up when the GPT is not valid.
CheckGpt_GivesUp ==
    /\ pc = "which"
    /\ pc' = IF ret # 0 THEN "signature"
             ELSE IF bi.gpt = "ok" THEN "header" ELSE "close"
    /\ UNCHANGED <<pins, bi, image, ret, rsn, sectorsize, result>>

\* is_gpt_valid.  It clears header_crc32 of the block, which nothing reads again
\* unless one block is a GPT header with a wrong CRC and a boot header too.
CheckGpt ==
    /\ pc = "which"
    /\ \/ ret = 0 /\ bi.gpt = "ok" /\ pc' = "header"
       \/ /\ ret # 0 \/ bi.gpt # "ok"
          /\ pc' = "signature"
    /\ ret' = IF ret = 0 /\ bi.gpt # "ok" THEN -1 ELSE ret
    /\ UNCHANGED <<pins, bi, image, rsn, sectorsize, result>>

\* The sector after the partition entries.
ReadHeader ==
    /\ pc = "header"
    /\ ReadBlock(get_first_empty_lba(bi), "signature")
    /\ UNCHANGED ret

\* Mutant: loads whatever follows, signed or not.
CheckSignature_Ignored ==
    /\ pc = "signature"
    /\ pc' = "image"
    /\ sectorsize' = BlocksOf(BootSize(bi))
    /\ UNCHANGED <<pins, bi, image, ret, rsn, result>>

CheckSignature ==
    /\ pc = "signature"
    /\ pc' = IF bi.nsih THEN "image" ELSE "close"
    /\ sectorsize' = BlocksOf(BootSize(bi))
    /\ UNCHANGED <<pins, bi, image, ret, rsn, result>>

\* Mutant: a read that failed is a success.
ReadImage_IgnoresFailure ==
    /\ pc = "image"
    /\ pc' = "close"
    /\ \E k \in 0 .. sectorsize :
          /\ \A i \in 0 .. k - 1 : rsn + i \in DOMAIN medium
          /\ k < sectorsize =>
                faulty \/ \E i \in 0 .. sectorsize - 1 : rsn + i \notin DOMAIN medium
          /\ image' = Stored(k)
    /\ result' = 1
    /\ UNCHANGED <<pins, bi, ret, rsn, sectorsize>>

ReadImage ==
    /\ pc = "image"
    /\ pc' = "close"
    /\ \/ /\ \A i \in 0 .. sectorsize - 1 : rsn + i \in DOMAIN medium
          /\ image' = Stored(sectorsize) /\ result' = 1
       \/ /\ \/ faulty
             \/ \E i \in 0 .. sectorsize - 1 : rsn + i \notin DOMAIN medium
          /\ \E k \in 0 .. sectorsize :
                /\ \A i \in 0 .. k - 1 : rsn + i \in DOMAIN medium
                /\ image' = Stored(k)
          /\ result' = 0
    /\ UNCHANGED <<pins, bi, ret, rsn, sectorsize>>

-----------------------------------------------------------------------------
\* iSPIBOOT: the header.
SpiReadHeader ==
    /\ pc = "spi"
    /\ bi' = medium[0] /\ rsn' = 1
    /\ pc' = "spiheader"
    /\ UNCHANGED <<pins, image, ret, sectorsize, result>>

\* Signature, image; ret is 1 from the start.
SpiReadImage ==
    /\ pc = "spiheader"
    /\ IF bi.nsih
       THEN /\ sectorsize' = BlocksOf(bi.LoadSize)
            /\ image' = Stored(sectorsize')
       ELSE UNCHANGED <<sectorsize, image>>
    /\ result' = 1
    /\ pc' = "close"
    /\ UNCHANGED <<pins, bi, ret, rsn>>

\* romboot again: jump to StartAddr of what is in SRAM now, or hang.
Launch ==
    /\ pc = "close"
    /\ pc' = IF result # 0 THEN "launched" ELSE "hung"
    /\ UNCHANGED <<pins, bi, image, ret, rsn, sectorsize, result>>

Rom ==
    \/ romboot \/ Open \/ ReadMbr \/ ReadSector1 \/ CheckGpt \/ ReadHeader
    \/ CheckSignature \/ ReadImage
    \/ SpiReadHeader \/ SpiReadImage \/ Launch

Next == Rom \/ Reset

Spec == Init /\ [][Next]_vars

(* The processor runs between resets.                                      *)
FairSpec == Spec /\ WF_vars(Rom)
-----------------------------------------------------------------------------
(* What a medium offers                                                    *)

\* Where the boot header should be: at the start of a flash, after the
\* entries of a valid GPT, else in sector 1.
HeaderLba(s) ==
    IF s[1] = SPIBOOT THEN 0
    ELSE IF s[2][0].ee /\ s[2][1].gpt = "ok" THEN get_first_empty_lba(s[2][1])
    ELSE 1

\* The signed image that follows it, all of it.
Bootable(s) ==
    LET d == s[2]
        h == HeaderLba(s)
        n == BlocksOf(d[h].LoadSize)
    IN  IF /\ {0, 1} \subseteq DOMAIN d /\ h \in DOMAIN d
           /\ d[h].nsih
           /\ \A i \in 0 .. n - 1 : h + 1 + i \in DOMAIN d
        THEN {[header |-> d[h], code |-> [i \in 0 .. n - 1 |-> d[h + 1 + i]]]}
        ELSE {}

\* What the jump to StartAddr starts.
Loaded == [header |-> bi,
           code |-> [i \in 0 .. BlocksOf(bi.LoadSize) - 1 |-> image[i]]]

Running == IF pc = "launched" THEN {Loaded} ELSE {}

Promise == INSTANCE BootPromise WITH medium <- source, running <- Running

-----------------------------------------------------------------------------
TypeOK ==
    /\ pc \in {"reset", "open", "mbr", "sector1", "which", "header",
               "signature", "image", "spi", "spiheader", "close",
               "launched", "hung"}
    /\ source \in Media
    /\ bi \in Blocks
    /\ image \in [Slots -> Blocks]
    /\ ret \in {-1, 0} /\ result \in {0, 1}
    /\ rsn \in Nat /\ sectorsize \in Nat
    /\ resets \in 0 .. MAX_RESETS

(***************************************************************************)
(* romboot() jumps only into a signed image of the medium that is in the   *)
(* slot, loaded whole and from where its header says, whatever an earlier  *)
(* boot or a read that failed left in SRAM.                                *)
(***************************************************************************)
LaunchedWhole == pc = "launched" => Loaded \in Bootable(source)

\* romboot(), from reset to reset, does what a boot ROM promises.
KeepsPromise == Promise!Spec

(***************************************************************************)
(* When no read fails, the ROM starts the image of a medium that has one   *)
(* and hangs on a medium that has none.                                    *)
(***************************************************************************)
EndsRight ==
    <>[](faulty \/ pc = IF Bootable(source) = {} THEN "hung" ELSE "launched")

(***************************************************************************)
(* "32KB - 8KB = 24KB" (iSDBOOT.c:1315): the blocks stored after the       *)
(* header leave SECONDBOOT_STACK bytes of the SRAM alone.                  *)
(***************************************************************************)
StackReserved ==
    pc = "image" => (1 + sectorsize) * BLOCK_LENGTH
                       <= INTERNAL_SRAM_SIZE - SECONDBOOT_STACK
=============================================================================
