--------------------------- MODULE RomBootProofs ---------------------------
(***************************************************************************)
(* Proofs about RomBoot: whatever the media, the sizes, the faults and the *)
(* resets, romboot() starts nothing but a whole signed image of the medium *)
(* in the slot, and so implements BootPromise.                             *)
(***************************************************************************)
EXTENDS RomBoot, TLAPS

-----------------------------------------------------------------------------
(* Division                                                                *)

LEMMA DivNat ==
    ASSUME NEW a \in Nat, NEW b \in Nat \ {0}
    PROVE  a \div b \in Nat
  OBVIOUS

LEMMA MulNat ==
    ASSUME NEW a \in Nat, NEW b \in Nat
    PROVE  a * b \in Nat
  OBVIOUS

LEMMA BlocksOfNat ==
    ASSUME NEW size \in Nat
    PROVE  BlocksOf(size) \in Nat
<1>1. BLOCK_LENGTH \in Nat \ {0}
  BY RomBootAssumption
<1>2. size + BLOCK_LENGTH - 1 \in Nat
  BY <1>1
<1> QED
  BY <1>1, <1>2, DivNat DEF BlocksOf

LEMMA FirstEmptyNat ==
    ASSUME NEW b \in BlockType
    PROVE  get_first_empty_lba(b) \in Nat
<1>1. /\ b.partition_entry_lba \in Nat
      /\ b.num_partition_entries * b.sizeof_partition_entry \in Nat
  BY MulNat DEF BlockType
<1>2. (b.num_partition_entries * b.sizeof_partition_entry) \div BLOCK_LENGTH
         \in Nat
  BY <1>1, DivNat, RomBootAssumption
<1> QED
  BY <1>1, <1>2 DEF get_first_empty_lba

-----------------------------------------------------------------------------
(* Types                                                                   *)

\* The SPI path is taken only for a flash, and reads it from the start.
SpiPath ==
    /\ pc \in {"spi", "spiheader"} => option = SPIBOOT
    /\ pc = "spiheader" => rsn = 1

TypeInv == TypeOK /\ SpiPath

LEMMA MediumType ==
    ASSUME source \in Media
    PROVE  /\ medium \in Disks \cup Flashes
           /\ option = SPIBOOT => medium \in Flashes
           /\ option \in {SDBOOT, SPIBOOT}
           /\ \A i \in DOMAIN medium : i \in Nat /\ medium[i] \in Blocks
<1>1. /\ medium \in Disks \cup Flashes
      /\ option = SPIBOOT => medium \in Flashes
      /\ option \in {SDBOOT, SPIBOOT}
  <2>1. CASE source \in {SDBOOT} \X Disks \X FAULTS
    BY <2>1 DEF medium, option, SDBOOT, SPIBOOT
  <2>2. CASE source \in {SPIBOOT} \X Flashes \X {FALSE}
    BY <2>2 DEF medium, option
  <2> QED
    BY <2>1, <2>2 DEF Media
<1>2. \A i \in DOMAIN medium : i \in Nat /\ medium[i] \in Blocks
  BY <1>1, RomBootAssumption DEF Blocks
<1> QED
  BY <1>1, <1>2

LEMMA StoredType ==
    ASSUME image \in [Slots -> Blocks], source \in Media, NEW k,
           \A i \in Slots : i < k => rsn + i \in DOMAIN medium
    PROVE  Stored(k) \in [Slots -> Blocks]
  BY MediumType DEF Stored

\* A step of the boot flow keeps every variable in its range.
LEMMA TypeStep ==
    ASSUME TypeInv, [Next]_vars
    PROVE  TypeInv'
<1> USE DEF TypeInv, TypeOK, SpiPath
<1>1. CASE romboot
  BY <1>1 DEF romboot, pins, option
<1>2. CASE Open
  BY <1>2 DEF Open, pins, option
<1>3. ASSUME NEW lba \in Nat, NEW next \in {"sector1", "which", "signature"},
             ReadBlock(lba, next), ret' \in {-1, 0}
      PROVE  TypeInv'
  BY <1>3, MediumType DEF ReadBlock, pins
<1>4. CASE ReadMbr
  BY <1>4, <1>3 DEF ReadMbr
<1>5. CASE ReadSector1
  BY <1>5, <1>3 DEF ReadSector1
<1>6. CASE CheckGpt
  BY <1>6 DEF CheckGpt, pins, option
<1>7. CASE ReadHeader
  <2>1. get_first_empty_lba(bi) \in Nat
    BY FirstEmptyNat, RomBootAssumption
  <2> QED
    BY <1>7, <1>3, <2>1 DEF ReadHeader
<1>8. CASE CheckSignature
  <2>1. BootSize(bi) \in Nat
    BY RomBootAssumption DEF BootSize, BlockType
  <2> QED
    BY <1>8, <2>1, BlocksOfNat DEF CheckSignature, pins, option
<1>9. CASE ReadImage
  <2>1. ASSUME NEW k \in 0 .. sectorsize,
               \A i \in 0 .. k - 1 : rsn + i \in DOMAIN medium
        PROVE  Stored(k) \in [Slots -> Blocks]
    <3>1. \A i \in Slots : i < k => i \in 0 .. k - 1
      BY DEF Slots
    <3> QED
      BY <2>1, <3>1, StoredType
  <2>2. image' \in [Slots -> Blocks]
    BY <1>9, <2>1 DEF ReadImage
  <2> QED
    BY <1>9, <2>2 DEF ReadImage, pins, option
<1>10. CASE SpiReadHeader
  <2>1. 0 \in DOMAIN medium
    BY <1>10, MediumType, RomBootAssumption DEF SpiReadHeader
  <2> QED
    BY <1>10, <2>1, MediumType DEF SpiReadHeader, pins, option
<1>11. CASE SpiReadImage
  <2>1. \A i \in Slots : rsn + i \in DOMAIN medium
    <3>1. rsn = 1 /\ medium \in Flashes
      BY <1>11, MediumType DEF SpiReadImage
    <3>2. \A i \in Slots : i + 1 = 1 + i
      BY DEF Slots
    <3>3. \A i \in Slots : i + 1 \in DOMAIN medium
      BY <3>1, RomBootAssumption
    <3> QED
      BY <3>1, <3>2, <3>3
  <2>2. BlocksOf(bi.LoadSize) \in Nat
    BY BlocksOfNat, RomBootAssumption DEF BlockType
  <2>3. image' \in [Slots -> Blocks] /\ sectorsize' \in Nat
    BY <1>11, <2>1, <2>2, StoredType DEF SpiReadImage
  <2> QED
    BY <1>11, <2>3 DEF SpiReadImage, pins, option
<1>12. CASE Launch
  BY <1>12 DEF Launch, pins, option
<1>13. CASE Reset
  BY <1>13, RomBootAssumption DEF Reset
<1>14. CASE UNCHANGED vars
  BY <1>14 DEF vars, option
<1> QED
  BY <1>1, <1>2, <1>4, <1>5, <1>6, <1>7, <1>8, <1>9, <1>10, <1>11, <1>12,
     <1>13, <1>14 DEF Next, Rom

LEMMA TypeInvariance == Spec => []TypeInv
<1>1. Init => TypeInv
  BY RomBootAssumption DEF Init, TypeInv, TypeOK, SpiPath
<1>2. TypeInv /\ [Next]_vars => TypeInv'
  BY TypeStep
<1> QED
  BY <1>1, <1>2, PTL DEF Spec

(***************************************************************************)
(* Every variable of the boot flow keeps to its range: in particular the   *)
(* blocks in SRAM are blocks of some medium, and sizes are not negative.   *)
(***************************************************************************)
THEOREM Typing == Spec => []TypeOK
<1>1. TypeInv => TypeOK
  BY DEF TypeInv
<1> QED
  BY <1>1, TypeInvariance, PTL

-----------------------------------------------------------------------------
(* What is started                                                         *)

\* Every signed image fits beside the stack, and its blocks in SRAM.
Fits ==
    \A b \in Blocks : b.nsih =>
        /\ b.LoadSize <= INTERNAL_SRAM_SIZE - SECONDBOOT_STACK
        /\ 0 .. BlocksOf(b.LoadSize) - 1 \subseteq Slots

\* Flash is programmed.
Programmed == \A d \in Flashes : d[0].nsih

\* Which path is taken, and what has been established on it.
Path ==
    /\ pc \in {"open", "mbr", "sector1", "which", "header", "signature",
               "image"} => option = SDBOOT
    /\ pc \notin {"close", "launched", "hung"} => result = 0
    /\ pc = "launched" => result # 0
    /\ pc \in {"reset", "open", "mbr"} => rsn = 0

FromMbr == ret = 0 <=> medium[0].ee

\* The block in pbm->bi is the one the driver thinks it is.
Found ==
    /\ pc = "sector1" => 0 \in DOMAIN medium /\ rsn = 1 /\ FromMbr
    /\ pc = "which" =>
          /\ 0 \in DOMAIN medium /\ 1 \in DOMAIN medium
          /\ bi = medium[1] /\ rsn = 2 /\ FromMbr
    /\ pc = "header" =>
          /\ 0 \in DOMAIN medium /\ 1 \in DOMAIN medium
          /\ bi = medium[1] /\ medium[0].ee /\ bi.gpt = "ok"
    /\ pc \in {"signature", "image"} =>
          /\ 0 \in DOMAIN medium /\ 1 \in DOMAIN medium
          /\ HeaderLba(source) \in DOMAIN medium
          /\ bi = medium[HeaderLba(source)]
          /\ rsn = HeaderLba(source) + 1
    /\ pc = "image" => bi.nsih /\ sectorsize = BlocksOf(BootSize(bi))
    /\ pc = "spiheader" => bi = medium[0]

\* A boot function that succeeded has left an image of the medium in SRAM.
Ready ==
    pc \in {"close", "launched"} /\ result # 0 => Loaded \in Bootable(source)

IInv == TypeInv /\ Path /\ Found /\ Ready

LEMMA SdHeader ==
    ASSUME option = SDBOOT
    PROVE  HeaderLba(source) =
              IF medium[0].ee /\ medium[1].gpt = "ok"
              THEN get_first_empty_lba(medium[1]) ELSE 1
  BY DEF HeaderLba, option, medium, SDBOOT, SPIBOOT

LEMMA SpiHeader ==
    ASSUME option = SPIBOOT
    PROVE  HeaderLba(source) = 0
  BY DEF HeaderLba, option

(***************************************************************************)
(* Storing the blocks that follow a signed header makes an image of the    *)
(* medium of what is in SRAM.                                              *)
(***************************************************************************)
LEMMA StoredIsImage ==
    ASSUME Fits, source \in Media, NEW h, h = HeaderLba(source),
           h \in DOMAIN medium, 0 \in DOMAIN medium, 1 \in DOMAIN medium,
           medium[h].nsih, rsn = h + 1,
           \A i \in 0 .. BlocksOf(medium[h].LoadSize) - 1 :
              rsn + i \in DOMAIN medium
    PROVE  [header |-> medium[h],
            code |-> [i \in 0 .. BlocksOf(medium[h].LoadSize) - 1 |->
                         Stored(BlocksOf(medium[h].LoadSize))[i]]]
              \in Bootable(source)
<1> DEFINE n == BlocksOf(medium[h].LoadSize)
<1>1. medium[h] \in Blocks /\ h \in Nat
  BY MediumType
<1>2. n \in Nat
  BY <1>1, BlocksOfNat, RomBootAssumption DEF BlockType
<1>3. \A i \in 0 .. n - 1 : i \in Slots
  BY <1>1 DEF Fits
<1>4. \A i \in 0 .. n - 1 : Stored(n)[i] = medium[h + 1 + i]
  <2> SUFFICES ASSUME NEW i \in 0 .. n - 1
               PROVE  Stored(n)[i] = medium[h + 1 + i]
    OBVIOUS
  <2>1. i \in Slots /\ i < n
    BY <1>2, <1>3
  <2> HIDE DEF n
  <2>2. Stored(n)[i] = medium[rsn + i]
    BY <2>1 DEF Stored
  <2> QED
    BY <2>2
<1>5. \A i \in 0 .. n - 1 : h + 1 + i \in DOMAIN medium
  OBVIOUS
<1> HIDE DEF n
<1>6. [i \in 0 .. n - 1 |-> Stored(n)[i]] = [i \in 0 .. n - 1 |-> medium[h + 1 + i]]
  BY <1>4
<1>7. [header |-> medium[h], code |-> [i \in 0 .. n - 1 |-> medium[h + 1 + i]]]
         \in Bootable(source)
  BY <1>5 DEF Bootable, medium, n
<1> QED
  BY <1>6, <1>7 DEF n

\* A step of the boot flow preserves the inductive invariant.
LEMMA SafeStep ==
    ASSUME Fits, Programmed, IInv, [Next]_vars
    PROVE  IInv'
<1>0. TypeInv'
  BY TypeStep DEF IInv
<1> USE DEF IInv, Path
<1>1. CASE romboot
  BY <1>0, <1>1, MediumType
     DEF romboot, pins, option, TypeInv, TypeOK, Found, Ready
<1>2. CASE Open
  BY <1>0, <1>2 DEF Open, pins, option, Found, Ready
<1>4. CASE ReadMbr
  BY <1>0, <1>4
     DEF ReadMbr, ReadBlock, pins, option, medium, Found, FromMbr, Ready
<1>5. CASE ReadSector1
  BY <1>0, <1>5
     DEF ReadSector1, ReadBlock, pins, option, medium, Found, FromMbr, Ready
<1>6. CASE CheckGpt
  BY <1>0, <1>6, SdHeader
     DEF CheckGpt, pins, option, medium, HeaderLba, Found, FromMbr, Ready
<1>7. CASE ReadHeader
  BY <1>0, <1>7, SdHeader
     DEF ReadHeader, ReadBlock, pins, option, medium, HeaderLba, Found, Ready
<1>8. CASE CheckSignature
  BY <1>0, <1>8
     DEF CheckSignature, pins, option, medium, HeaderLba, Found, Ready
<1>9. CASE ReadImage
  <2>1. /\ Path' /\ Found'
        /\ pc' = "close" /\ bi' = bi /\ source' = source
    BY <1>0, <1>9 DEF ReadImage, pins, option, Found
  <2>2. CASE result' = 0
    BY <1>0, <2>1, <2>2 DEF Ready
  <2>3. CASE result' # 0
    <3> DEFINE h == HeaderLba(source)
               n == BlocksOf(medium[h].LoadSize)
    <3>1. /\ h \in DOMAIN medium /\ 0 \in DOMAIN medium /\ 1 \in DOMAIN medium
          /\ bi = medium[h] /\ rsn = h + 1 /\ bi.nsih
          /\ sectorsize = BlocksOf(BootSize(bi))
      BY <1>9 DEF ReadImage, Found
    <3>2. sectorsize = n
      <4>1. bi \in Blocks
        BY DEF TypeInv, TypeOK
      <4>2. BootSize(bi) = bi.LoadSize
        BY <3>1, <4>1, RomBootAssumption DEF Fits, BootSize, BlockType
      <4> QED
        BY <3>1, <4>2
    <3>3. /\ \A i \in 0 .. n - 1 : rsn + i \in DOMAIN medium
          /\ image' = Stored(n)
      BY <1>9, <2>3, <3>2 DEF ReadImage
    <3>4. Loaded' = [header |-> bi, code |-> [i \in 0 .. n - 1 |-> Stored(n)[i]]]
      BY <2>1, <3>1, <3>3 DEF Loaded
    <3>5. source \in Media
      BY DEF TypeInv, TypeOK
    <3>6. Loaded' \in Bootable(source)
      BY <3>1, <3>3, <3>4, <3>5, StoredIsImage
    <3>7. Bootable(source)' = Bootable(source)
      BY <2>1 DEF Bootable, HeaderLba
    <3> QED
      BY <1>0, <2>1, <3>6, <3>7 DEF Ready
  <2> QED
    BY <2>2, <2>3
<1>10. CASE SpiReadHeader
  BY <1>0, <1>10 DEF SpiReadHeader, pins, option, medium, Found, Ready
<1>11. CASE SpiReadImage
  <2> DEFINE n == BlocksOf(medium[0].LoadSize)
  <2>1. /\ Path' /\ Found'
        /\ pc' = "close" /\ bi' = bi /\ source' = source
    BY <1>0, <1>11 DEF SpiReadImage, pins, option, Found
  <2>2. /\ source \in Media /\ medium \in Flashes
        /\ HeaderLba(source) = 0 /\ rsn = 0 + 1 /\ bi = medium[0]
        /\ medium[0].nsih
    BY <1>11, MediumType, SpiHeader
       DEF SpiReadImage, TypeInv, TypeOK, SpiPath, Found, Programmed
  <2>3. 0 \in DOMAIN medium /\ 1 \in DOMAIN medium
    BY <2>2, RomBootAssumption
  <2>4. \A i \in 0 .. n - 1 : rsn + i \in DOMAIN medium
    <3>1. medium[0] \in Blocks
      BY <2>2, <2>3, MediumType
    <3>2. 0 .. n - 1 \subseteq Slots
      BY <2>2, <3>1 DEF Fits
    <3>3. \A i \in 0 .. n - 1 : i + 1 = rsn + i
      BY <2>2
    <3> QED
      BY <2>2, <3>2, <3>3, RomBootAssumption
  <2>5. image' = Stored(n)
    BY <1>11, <2>2 DEF SpiReadImage
  <2>6. Loaded' = [header |-> bi, code |-> [i \in 0 .. n - 1 |-> Stored(n)[i]]]
    BY <2>1, <2>2, <2>5 DEF Loaded
  <2>7. Loaded' \in Bootable(source)
    BY <2>2, <2>3, <2>4, <2>6, StoredIsImage
  <2>8. Bootable(source)' = Bootable(source)
    BY <2>1 DEF Bootable, HeaderLba
  <2> QED
    BY <1>0, <2>1, <2>7, <2>8 DEF Ready
<1>12. CASE Launch
  BY <1>0, <1>12 DEF Launch, pins, option, Found, Ready, Loaded, Bootable,
     HeaderLba
<1>13. CASE Reset
  BY <1>0, <1>13 DEF Reset, Found, Ready
<1>14. CASE UNCHANGED vars
  BY <1>0, <1>14 DEF vars, option, medium, HeaderLba, Found, FromMbr, Ready,
     Loaded, Bootable
<1> QED
  BY <1>1, <1>2, <1>4, <1>5, <1>6, <1>7, <1>8, <1>9, <1>10, <1>11, <1>12,
     <1>13, <1>14 DEF Next, Rom

LEMMA SafeInit ==
    ASSUME Init
    PROVE  IInv
<1>1. TypeInv
  BY RomBootAssumption DEF Init, TypeInv, TypeOK, SpiPath
<1> QED
  BY <1>1 DEF Init, IInv, Path, Found, Ready

LEMMA Invariance == Fits /\ Programmed /\ Spec => []IInv
<1>1. Fits /\ Programmed /\ IInv /\ [Next]_vars => IInv'
  BY SafeStep
<1>2. Init => IInv
  BY SafeInit
<1>3. CASE Fits /\ Programmed
  <2>1. IInv /\ [Next]_vars => IInv'
    BY <1>1, <1>3
  <2> QED
    BY <1>2, <2>1, PTL DEF Spec
<1> QED
  BY <1>3

(***************************************************************************)
(* On media whose images fit and a flash that is programmed, romboot()     *)
(* jumps only into a whole signed image of the medium in the slot, for     *)
(* every set of media, every size of SRAM and block, and any number of     *)
(* resets and failed reads.                                                *)
(***************************************************************************)
THEOREM BootSafe == Fits /\ Programmed /\ Spec => []LaunchedWhole
<1>1. IInv => LaunchedWhole
  BY DEF IInv, Path, Ready, LaunchedWhole
<1> QED
  BY <1>1, Invariance, PTL

-----------------------------------------------------------------------------
(* RomBoot implements BootPromise                                          *)

LEMMA PromiseStep ==
    ASSUME IInv, IInv', [Next]_vars
    PROVE  [Promise!Next]_<<source, Running>>
<1>1. CASE Launch
  <2>1. CASE result = 0
    BY <1>1, <2>1 DEF Launch, Running, pins
  <2>2. CASE result # 0
    <3>1. Running = {} /\ Running' = {Loaded'} /\ source' = source
      BY <1>1, <2>2 DEF Launch, Running, pins
    <3>2. Loaded' = Loaded
      BY <1>1 DEF Launch, Loaded, pins
    <3>3. Loaded \in Bootable(source)
      BY <1>1, <2>2 DEF Launch, IInv, Ready
    <3>4. Promise!Launch
      BY <3>1, <3>2, <3>3 DEF Promise!Launch
    <3> QED
      BY <3>4 DEF Promise!Next
  <2> QED
    BY <2>1, <2>2
<1>2. CASE Reset
  BY <1>2 DEF Reset, Running, IInv, TypeInv, TypeOK, Promise!Next,
     Promise!Reset
<1>3. CASE UNCHANGED vars
  BY <1>3 DEF vars, Running, Loaded
<1>4. ASSUME pc # "launched", pc' # "launched", source' = source
      PROVE  UNCHANGED <<source, Running>>
  BY <1>4 DEF Running
<1>5. CASE romboot \/ Open
  BY <1>4, <1>5 DEF romboot, Open, pins
<1>6. ASSUME NEW lba, NEW next \in {"sector1", "which", "signature"},
             ReadBlock(lba, next), pc # "launched"
      PROVE  UNCHANGED <<source, Running>>
  BY <1>4, <1>6 DEF ReadBlock, pins
<1>7. CASE ReadMbr \/ ReadSector1 \/ ReadHeader
  BY <1>6, <1>7 DEF ReadMbr, ReadSector1, ReadHeader
<1>8. CASE CheckGpt \/ CheckSignature \/ ReadImage
  BY <1>4, <1>8 DEF CheckGpt, CheckSignature, ReadImage, pins
<1>9. CASE SpiReadHeader \/ SpiReadImage
  BY <1>4, <1>9 DEF SpiReadHeader, SpiReadImage, pins
<1> QED
  BY <1>1, <1>2, <1>3, <1>5, <1>7, <1>8, <1>9 DEF Next, Rom

(***************************************************************************)
(* On such media the boot flow implements the promise of a boot ROM: each  *)
(* of its steps starts an image of the medium, is a reset, or is nothing   *)
(* that can be seen from outside.                                          *)
(***************************************************************************)
THEOREM Implements == Fits /\ Programmed /\ Spec => KeepsPromise
<1>1. Init => Promise!Init
  BY DEF Init, Running, Promise!Init
<1>2. IInv /\ IInv' /\ [Next]_vars => [Promise!Next]_<<source, Running>>
  BY PromiseStep
<1> QED
  BY <1>1, <1>2, Invariance, PTL DEF Spec, KeepsPromise, Promise!Spec
=============================================================================
