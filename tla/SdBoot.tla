------------------------------- MODULE SdBoot -------------------------------
(***************************************************************************)
(* The FPGA boot ROM's loader: main (main.c) calls gpt_find_boot_partition *)
(* (gpt.c), which initialises the SD card and copies three ranges of       *)
(* blocks with sd_copy (sd.c): the partition table header at LBA 1, the    *)
(* block of partition entries it points to, and the blocks of the first    *)
(* partition, to DRAM.  main jumps there if every part succeeded and spins *)
(* otherwise.                                                              *)
(*                                                                         *)
(* The card is external.  It may garble or withhold any answer, execute a  *)
(* command whose answer is lost, damage blocks and stop answering at any   *)
(* time.  A damaged block is taken to fail its CRC.                        *)
(***************************************************************************)
EXTENDS Integers, Sequences

CONSTANTS Disks,      \* the card contents considered: functions from LBAs to
                      \* blocks, records of what the loader reads of a block
          MaxTries,   \* 10000 in sd_cmd0
          LbaMod,     \* 2^32: sd_copy takes uint32_t block numbers
          Damaged     \* the contents of a damaged block

ASSUME MaxTriesAssumption == MaxTries \in Nat \ {0}
ASSUME LbaModAssumption == LbaMod \in Nat \ {0, 1}
(* A card has fewer than 2^32 blocks (2 TB). *)
ASSUME DisksAssumption ==
  \A d \in Disks : /\ DOMAIN d \subseteq 0 .. LbaMod - 2
                   /\ 1 \in DOMAIN d
                   /\ \A b \in DOMAIN d : /\ d[b].partition_entries_lba \in Nat
                                          /\ d[b].first_lba \in Nat
                                          /\ d[b].last_lba \in Nat

VARIABLES pc,       \* the host's place in the loader
          stage,    \* which of the three copies is under way
          tries,    \* counter of sd_cmd0
          lba,      \* src_lba of the copy
          i,        \* blocks the copy still has to read
          rc,       \* the result of the part that failed, or 0
          dst,      \* dst[s]: the blocks copy s has stored so far
          card,     \* the card: mode, next block of an open read, answering?
          disk,     \* the card's contents
          faulty,   \* has the card misbehaved yet?
          lost      \* has a read stayed open past its CMD12?

host == <<pc, stage, tries, lba, i, rc, dst>>
vars == <<host, card, disk, faulty, lost>>

Stages == {"header", "entries", "image"}

(* The classes of response byte the code tells apart: 0x00, 0x01, another  *)
(* byte with bit 7 clear, and none within the 100 polls of sd_cmd.         *)
R1 == {"ok", "idle", "error", "none"}

(* What init_sd and sd_copy return when they fail. *)
SD_INIT_ERROR == [CMD0 |-> -1, CMD8 |-> -2, ACMD41 |-> -3]
SD_COPY_ERROR == [CMD18 |-> -1, CRC |-> -2]

Init == /\ pc = "cmd0"
        /\ stage = "header"
        /\ tries = MaxTries
        /\ lba = 1
        /\ i = 1
        /\ rc = 0
        /\ dst = [s \in Stages |-> <<>>]
        /\ card = [mode |-> "power", at |-> 0, alive |-> TRUE]
        /\ disk \in Disks
        /\ faulty = FALSE
        /\ lost = FALSE

-----------------------------------------------------------------------------
(* The card answers r to a command that it should answer with expected and *)
(* that takes it to the state to.                                          *)
Answer(r, expected, to) ==
  \/ /\ card.alive
     /\ r = expected
     /\ card' = to
     /\ UNCHANGED faulty
  \/ /\ r # expected
     /\ r # "none" => card.alive
     /\ card' \in IF card.alive THEN {card, to} ELSE {card}
     /\ faulty' = TRUE

(* The card is removed, or stops answering. *)
Die == /\ card.alive
       /\ card' = [card EXCEPT !.alive = FALSE]
       /\ faulty' = TRUE
       /\ UNCHANGED <<host, disk, lost>>

Goto(label) == /\ pc' = label
               /\ UNCHANGED <<stage, tries, lba, i, rc, dst>>

(* On to label, or the part fails with e and main spins. *)
OrFail(ok, label, e) == /\ pc' = IF ok THEN label ELSE "spin"
                        /\ rc' = IF ok THEN rc ELSE e
                        /\ UNCHANGED <<stage, lba, i, dst>>

-----------------------------------------------------------------------------
(* init_sd *)

(* A fault: the retries of CMD0 are not counted. *)
sd_cmd0_uncounted ==
  /\ pc = "cmd0"
  /\ \E r \in R1 : /\ Answer(r, "idle", [card EXCEPT !.mode = "idle"])
                   /\ pc' = IF r = "idle" THEN "cmd8" ELSE "cmd0"
  /\ UNCHANGED <<tries, stage, lba, i, rc, dst, disk, lost>>

(* CMD0 until the card reports idle.  The counter is tested after every    *)
(* attempt, so an answer to the last one is reported as a failure too.     *)
sd_cmd0 ==
  /\ pc = "cmd0"
  /\ \E r \in R1 : /\ Answer(r, "idle", [card EXCEPT !.mode = "idle"])
                   /\ tries' = tries - 1
                   /\ OrFail(tries' > 0, IF r = "idle" THEN "cmd8" ELSE "cmd0", SD_INIT_ERROR.CMD0)
  /\ UNCHANGED <<disk, lost>>

(* CMD8: the answer counts only with the voltage and the check pattern     *)
(* echoed; any other ends the initialisation.                              *)
sd_cmd8 ==
  /\ pc = "cmd8"
  /\ \E r \in R1 : /\ Answer(r, "idle", card)
                   /\ OrFail(r = "idle", "cmd55", SD_INIT_ERROR.CMD8)
  /\ UNCHANGED <<tries, disk, lost>>

(* CMD55: the response is printed and otherwise ignored. *)
sd_cmd55 ==
  /\ pc = "cmd55"
  /\ \E r \in R1 : Answer(r, "idle", [card EXCEPT !.mode = "app"])
  /\ Goto("cmd41")
  /\ UNCHANGED <<disk, lost>>

(* ACMD41, after CMD55, for as long as the card answers that it is busy. *)
Busy == /\ pc = "cmd41"
        /\ Answer("idle", "idle", [card EXCEPT !.mode = "idle"])
        /\ Goto("cmd55")
        /\ UNCHANGED <<disk, lost>>

sd_acmd41 ==
  /\ pc = "cmd41"
  /\ \E r \in R1 \ {"idle"} :
       /\ Answer(r, IF card.mode = "app" THEN "ok" ELSE "error",
                 IF card.mode = "app" THEN [card EXCEPT !.mode = "ready"]
                                      ELSE card)
       /\ OrFail(r = "ok", "cmd18", SD_INIT_ERROR.ACMD41)
  /\ UNCHANGED <<tries, disk, lost>>

-----------------------------------------------------------------------------
(* sd_copy *)

(* CMD18 opens a read of any number of blocks.  On any response but 0x00   *)
(* the copy is given up, with no CMD12.  A card that is still sending      *)
(* blocks does not take the command, and its data may look like any answer. *)
OpenRead ==
  /\ pc = "cmd18"
  /\ \E r \in R1 :
       /\ IF card.mode = "stream"
          THEN /\ r # "none" => card.alive
               /\ faulty' = TRUE
               /\ UNCHANGED card
          ELSE IF lba \in DOMAIN disk
          THEN Answer(r, "ok", [card EXCEPT !.mode = "stream", !.at = lba])
          ELSE Answer(r, "error", card)
       /\ OrFail(r = "ok", "token", SD_COPY_ERROR.CMD18)
  /\ UNCHANGED <<tries, disk, lost>>

(* while (sd_dummy() != SD_DATA_TOKEN): the wait has no bound.  A card     *)
(* that has died, or has reached its last block, never sends the token.    *)
Token == /\ pc = "token"
         /\ card.alive /\ card.mode = "stream" /\ card.at \in DOMAIN disk
         /\ Goto("block")
         /\ UNCHANGED <<card, disk, faulty, lost>>

(* The block's 512 bytes and CRC, stored as they arrive; crc is the result *)
(* of the comparison.                                                      *)
Transfer(crc) ==
  LET intact == card.alive /\ card.mode = "stream"
      store(b) == dst' = [dst EXCEPT ![stage] = Append(@, b)]
  IN  \/ /\ intact /\ crc
         /\ store(disk[card.at])
         /\ UNCHANGED faulty
      \/ /\ ~crc
         /\ store(Damaged)
         /\ faulty' = TRUE

(* A fault: the block is used whatever its CRC. *)
ReadBlock_no_crc ==
  /\ pc = "block"
  /\ \E crc \in BOOLEAN :
       /\ Transfer(crc)
       /\ i' = i - 1
       /\ pc' = IF i' > 0 THEN "token" ELSE "cmd12"
  /\ card' = [card EXCEPT !.at = @ + 1]
  /\ UNCHANGED <<stage, tries, lba, rc, disk, lost>>

(* A fault: the loop runs once more than there are blocks. *)
ReadBlock_one_more ==
  /\ pc = "block"
  /\ \E crc \in BOOLEAN :
       /\ Transfer(crc)
       /\ i' = IF crc THEN i - 1 ELSE i
       /\ rc' = IF crc THEN rc ELSE SD_COPY_ERROR.CRC
       /\ pc' = IF crc /\ i' >= 0 THEN "token" ELSE "cmd12"
  /\ card' = [card EXCEPT !.at = @ + 1]
  /\ UNCHANGED <<stage, tries, lba, disk, lost>>

(* One round of the loop: a CRC mismatch ends it with an error, and so     *)
(* does the last block, with the result so far.                            *)
ReadBlock ==
  /\ pc = "block"
  /\ \E crc \in BOOLEAN :
       /\ Transfer(crc)
       /\ i' = IF crc THEN i - 1 ELSE i
       /\ rc' = IF crc THEN rc ELSE SD_COPY_ERROR.CRC
       /\ pc' = IF crc /\ i' > 0 THEN "token" ELSE "cmd12"
  /\ card' = [card EXCEPT !.at = @ + 1]
  /\ UNCHANGED <<stage, tries, lba, disk, lost>>

-----------------------------------------------------------------------------
(* gpt_find_boot_partition: what follows each copy.  The block numbers are *)
(* 64 bits wide on the disk and truncated by the call of sd_copy.          *)

StartCopy(s, first, size) == /\ stage' = s
                             /\ lba' = first % LbaMod
                             /\ i' = size % LbaMod
                             /\ pc' = "cmd18"
                             /\ UNCHANGED <<tries, rc, dst>>

AfterCopy ==
  \/ /\ rc # 0
     /\ Goto("spin")
  \/ /\ rc = 0 /\ stage = "header"
     /\ StartCopy("entries", dst.header[1].partition_entries_lba, 1)
  \/ /\ rc = 0 /\ stage = "entries"
     /\ LET boot == dst.entries[1]
        IN  StartCopy("image", boot.first_lba, boot.last_lba - boot.first_lba + 1)
  \/ /\ rc = 0 /\ stage = "image"
     /\ Goto("jump")

(* A fault: the read is left open when the last block was good. *)
CloseRead_on_error_only ==
  /\ pc = "cmd12"
  /\ IF rc # 0 THEN \E r \in R1 : Answer(r, "ok", [card EXCEPT !.mode = "ready"])
               ELSE UNCHANGED <<card, faulty>>
  /\ UNCHANGED lost
  /\ AfterCopy
  /\ UNCHANGED disk

(* CMD12 closes the read; its response is ignored.  sd_copy returns. *)
CloseRead ==
  /\ pc = "cmd12"
  /\ \E r \in R1 : Answer(r, "ok", [card EXCEPT !.mode = "ready"])
  /\ lost' = (lost \/ card'.mode = "stream")
  /\ AfterCopy
  /\ UNCHANGED disk

-----------------------------------------------------------------------------
HostStep == \/ sd_cmd0 \/ sd_cmd8 \/ sd_cmd55 \/ Busy \/ sd_acmd41
            \/ OpenRead \/ Token \/ ReadBlock \/ CloseRead

Next == HostStep \/ Die

Spec == Init /\ [][Next]_vars

(* The host keeps running and an answering card keeps sending. *)
FairSpec == Spec /\ WF_vars(HostStep)

-----------------------------------------------------------------------------
Card == [mode : {"power", "idle", "app", "ready", "stream"}, at : Nat, alive : BOOLEAN]
Block == {disk[b] : b \in DOMAIN disk} \cup {Damaged}

(* The loader's state is in its type: the retry counter never goes below   *)
(* zero, a copy never counts blocks below zero, and once a part has failed *)
(* the only command still sent is the one that closes the read.            *)
TypeOK == /\ pc \in {"cmd0", "cmd8", "cmd55", "cmd41", "cmd18", "token",
                     "block", "cmd12", "jump", "spin"}
          /\ stage \in Stages
          /\ tries \in 0 .. MaxTries
          /\ lba \in Nat
          /\ i \in -1 .. LbaMod
          /\ rc \in {0, -1, -2, -3}
          /\ pc = "spin" => rc # 0
          /\ pc \notin {"spin", "cmd12"} => rc = 0
          /\ dst \in [Stages -> Seq(Block)]
          /\ card \in Card
          /\ disk \in Disks
          /\ faulty \in BOOLEAN /\ lost \in BOOLEAN

(* The first partition of the disk, as the 64-bit fields describe it. *)
Entry(d) == d[d[1].partition_entries_lba]
WellFormed(d) ==
  /\ d[1].partition_entries_lba \in DOMAIN d
  /\ Entry(d).first_lba <= Entry(d).last_lba
  /\ Entry(d).first_lba .. Entry(d).last_lba \subseteq DOMAIN d
Image(d) == [k \in 1 .. Entry(d).last_lba - Entry(d).first_lba + 1 |->
               d[Entry(d).first_lba + k - 1]]

(* The hart jumps to DRAM only when DRAM holds exactly the blocks of the   *)
(* first partition, in order and undamaged, whatever the card did on the   *)
(* way, provided it closed its reads.  CMD12's response is not looked at:  *)
(* if the command is lost, the blocks of the old read may pass for those   *)
(* of the next.                                                            *)
LoadedImage == pc = "jump" /\ WellFormed(disk) /\ ~lost => dst.image = Image(disk)

(* While the card does as it should, a read is only opened on a card that  *)
(* is initialised and has no read open, and the loaded program finds the   *)
(* card that way; and all along the counters stay in their range and a     *)
(* failed part is followed by nothing but the command that closes a read   *)
(* (TypeOK).                                                               *)
HostInv == /\ TypeOK
           /\ pc \in {"cmd18", "jump"} /\ ~faulty => card.mode = "ready"

(* The loop of sd_acmd41. *)
Polling == pc \in {"cmd55", "cmd41"}

(* The loader ends, in a jump or in the spin of main, unless one of its two *)
(* unbounded loops keeps it: that of sd_acmd41, and then the card is alive  *)
(* and answers busy forever, or the wait for a data token, and then the     *)
(* card is dead, past its last block or not sending.                        *)
BootEnds == \/ <>(pc \in {"jump", "spin"})
            \/ <>[](Polling /\ card.alive)
            \/ <>[](/\ pc = "token"
                    /\ ~(card.alive /\ card.mode = "stream" /\ card.at \in DOMAIN disk))

(* A card that does as it should, does not stay busy forever and holds a    *)
(* well-formed partition is booted from.                                    *)
GoodCardBoots == WellFormed(disk) /\ []~faulty /\ ~<>[]Polling => <>(pc = "jump")
=============================================================================
