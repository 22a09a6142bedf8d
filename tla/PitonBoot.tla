----------------------------- MODULE PitonBoot ------------------------------
(***************************************************************************)
(* The OpenPiton boot ROM (startup.S): all harts but NonSmpHart go to the  *)
(* barrier of CountBarrier; NonSmpHart runs main, which copies the first   *)
(* partition of a memory-mapped SD card to DRAM, joins the barrier, and    *)
(* then every hart jumps to the start of DRAM.                             *)
(*                                                                         *)
(* The loader is gpt_find_boot_partition (gpt.c) with three calls of       *)
(* sd_copy (sd.c): the partition table header at LBA 1, the block of       *)
(* partition entries it points to, the blocks of the first entry.  No call *)
(* ever fails, and main returns 0 whatever it has copied.                  *)
(***************************************************************************)
EXTENDS Integers, CountBarrier

CONSTANTS Block,     \* what a block can hold: records of what gpt.c reads
          Disks,     \* the card contents considered
          Capacity,  \* the number of blocks of the card
          LbaMod,    \* 2^32: sd_copy takes uint32_t block numbers
          NoBlock    \* what DRAM, and addresses past the card, hold

ASSUME BlockAssumption ==
  \A b \in Block \union {NoBlock} : {b.partition_entries_lba, b.first_lba,
                                     b.last_lba} \subseteq Nat
ASSUME LbaModAssumption == LbaMod \in Nat \ {0, 1}
ASSUME DisksAssumption == /\ Capacity \in Nat \ {0, 1}
                          /\ Disks \subseteq [0 .. Capacity - 1 -> Block]

VARIABLES disk,     \* the contents of the card
          stage,    \* which sd_copy of the loader is under way
          src_lba,  \* its first block
          size,     \* its number of blocks
          blk,      \* the blocks it has copied
          dst       \* dst[s]: where the copy of stage s goes

loader == <<stage, src_lba, size, blk, dst>>
bootVars == <<vars, disk, loader>>

Stages == {"header", "entries", "image"}

BootInit == /\ Init
            /\ disk \in Disks
            /\ stage = "header"
            /\ src_lba = 1
            /\ size = 1
            /\ blk = 0
            /\ dst = [s \in Stages |-> [k \in 0 .. LbaMod - 1 |-> NoBlock]]

-----------------------------------------------------------------------------
(* The card is a window of the address space. *)
CardWord(a) == IF a \in 0 .. Capacity - 1 THEN disk[a] ELSE NoBlock

(* One round of sd_copy's loop over blocks: 64 double words. *)
CopyBlock ==
  /\ pc[NonSmpHart] = "single"
  /\ blk < size
  /\ dst' = [dst EXCEPT ![stage] = [@ EXCEPT ![blk] = CardWord(src_lba + blk)]]
  /\ blk' = blk + 1
  /\ UNCHANGED <<vars, disk, stage, src_lba, size>>

(* The call sd_copy(dst[s], first, n): both numbers are cut to 32 bits. *)
sd_copy(s, first, n) == /\ stage' = s
                        /\ src_lba' = first % LbaMod
                        /\ size' = n % LbaMod
                        /\ blk' = 0
                        /\ UNCHANGED dst

(* The header is in lba1_buf: on to the block of entries. *)
HeaderRead == /\ pc[NonSmpHart] = "single"
              /\ stage = "header" /\ blk >= size
              /\ sd_copy("entries", dst.header[0].partition_entries_lba, 1)
              /\ UNCHANGED <<vars, disk>>

(* The entries are in lba2_buf: on to the blocks of the first of them. *)
EntriesRead ==
  /\ pc[NonSmpHart] = "single"
  /\ stage = "entries" /\ blk >= size
  /\ LET boot == dst.entries[0]
     IN  sd_copy("image", boot.first_lba, boot.last_lba - boot.first_lba + 1)
  /\ UNCHANGED <<vars, disk>>

(* A fault: the image is copied in the background of the barrier. *)
MainReturns_early == /\ stage = "image"
                     /\ Work(NonSmpHart)
                     /\ UNCHANGED <<disk, loader>>

(* The image is copied: gpt_find_boot_partition and main return. *)
MainReturns == /\ stage = "image" /\ blk >= size
               /\ Work(NonSmpHart)
               /\ UNCHANGED <<disk, loader>>

Load == CopyBlock \/ HeaderRead \/ EntriesRead \/ MainReturns

(* smp_resume, and the jump of startup.S once All lets the hart pass. *)
smp_resume(h) == /\ Turn(h) \/ Swap(h) \/ All(h)
                 /\ UNCHANGED <<disk, loader>>

BootNext == Load \/ \E h \in Hart : smp_resume(h)

BootSpec == BootInit /\ [][BootNext]_bootVars

(* Every hart keeps executing. *)
BootFairSpec == /\ BootSpec
                /\ WF_bootVars(Load)
                /\ \A h \in Hart : WF_bootVars(smp_resume(h))

-----------------------------------------------------------------------------
(* The loader's state is in its type: a copy never runs past its size.     *)
BootTypeOK ==
  /\ TypeOK
  /\ disk \in Disks
  /\ stage \in Stages
  /\ src_lba \in 0 .. LbaMod - 1
  /\ size \in 0 .. LbaMod - 1
  /\ blk \in 0 .. size
  /\ dst \in [Stages -> [0 .. LbaMod - 1 -> Block \union {NoBlock}]]

(* The first partition of the card lies on the card and its numbers fit    *)
(* sd_copy's parameters.                                                   *)
Entries == disk[1].partition_entries_lba
First == disk[Entries].first_lba
Last == disk[Entries].last_lba

WellFormed == /\ Entries < Capacity
              /\ First <= Last
              /\ Last < Capacity
              /\ Capacity < LbaMod

(* What the loader has copied so far is what the card holds: the right     *)
(* number of blocks, from the place the block before names.                *)
LoaderInv ==
  /\ BootTypeOK
  /\ WellFormed =>
       /\ stage = "header" => src_lba = 1 /\ size = 1
       /\ stage = "entries" => src_lba = Entries /\ size = 1
       /\ stage = "image" => src_lba = First /\ size = Last - First + 1
       /\ \A k \in 0 .. LbaMod - 1 :
            k < blk => dst[stage][k] = disk[src_lba + k]
       /\ pc[NonSmpHart] # "single" => stage = "image" /\ blk = size

(* No hart jumps to DRAM before the whole partition is there: whoever has  *)
(* left the barrier finds every block of it, in order.                     *)
StartedLoaded ==
  WellFormed =>
    \A h \in Hart : pc[h] = "multi" =>
      \A k \in 0 .. Last - First : dst.image[k] = disk[First + k]

(* Every hart gets to jump, whatever the card holds. *)
AllStart == \A h \in Hart : <>(pc[h] = "multi")
=============================================================================
