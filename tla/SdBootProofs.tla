---------------------------- MODULE SdBootProofs ----------------------------
(***************************************************************************)
(* Proofs about the FPGA boot ROM's loader, for every card content, every  *)
(* number of retries and every way the card may misbehave, and about the   *)
(* checksum it relies on, for blocks of any length and contents.           *)
(***************************************************************************)
EXTENDS SdBoot, SdCrc, TLAPS

(* The blocks as the disk holds them. *)
Good == {disk[b] : b \in DOMAIN disk}

(* What the partition table of a well-formed disk asks each copy for. *)
From(s) == CASE s = "header"  -> 1
             [] s = "entries" -> disk[1].partition_entries_lba
             [] OTHER         -> Entry(disk).first_lba
Count(s) == IF s = "image" THEN Entry(disk).last_lba - Entry(disk).first_lba + 1 ELSE 1

(* The parts of the inductive invariant.  Whatever the card does, what the *)
(* host reads from a block that passed its CRC is a block of the disk.     *)
SafeInv == /\ HostInv
           /\ pc = "cmd0" => tries > 0
           /\ pc \notin {"cmd12", "jump", "spin"} => i >= 0
           /\ pc = "block" => card.at \in DOMAIN disk
           /\ rc = 0 => dst[stage] \in Seq(Good)
           /\ pc = "cmd12" /\ rc = 0 => dst[stage] # <<>>

(* The copies are made once each and in order. *)
Starting == {"cmd0", "cmd8", "cmd55", "cmd41"}
StageInv == /\ pc \in Starting => stage = "header" /\ card.mode # "stream"
            /\ pc \in Starting \cup {"cmd18"} => dst[stage] = <<>>
            /\ stage # "image" => dst.image = <<>>
            /\ stage = "header" => dst.entries = <<>>
            /\ pc = "jump" => stage = "image"

(* As long as every read was closed, the blocks stored are those from lba  *)
(* on, and the card sends the one after them next.                         *)
CopyInv ==
  ~lost =>
    /\ pc = "cmd18" => card.mode # "stream"
    /\ pc \in {"token", "block"} /\ card.mode = "stream" => card.at = lba + Len(dst[stage])
    /\ rc = 0 => \A k \in 1 .. Len(dst[stage]) : dst[stage][k] = disk[lba + k - 1]

(* Then each copy is the one the partition table asks for, and i counts    *)
(* the blocks it still lacks.                                              *)
ImageInv ==
  WellFormed(disk) /\ ~lost /\ rc = 0 =>
    /\ lba = From(stage)
    /\ i = Count(stage) - Len(dst[stage])
    /\ IF pc \in {"cmd12", "jump"} THEN i = 0 ELSE i > 0

LoadInv == SafeInv /\ StageInv /\ CopyInv /\ ImageInv

-----------------------------------------------------------------------------
(* The numbers in a block of a disk. *)
LEMMA Fields ==
  ASSUME disk \in Disks, NEW b \in Good
  PROVE  b.partition_entries_lba \in Nat /\ b.first_lba \in Nat /\ b.last_lba \in Nat
BY DisksAssumption DEF Good

(* The copies of a well-formed disk read blocks it has, at least one and   *)
(* fewer than sd_copy's parameters can express.                            *)
LEMMA WellFormedCopies ==
  ASSUME disk \in Disks, WellFormed(disk)
  PROVE  /\ From("header") = 1
         /\ From("entries") = disk[1].partition_entries_lba
         /\ From("entries") \in 0 .. LbaMod - 1
         /\ From("image") = Entry(disk).first_lba
         /\ From("image") \in 0 .. LbaMod - 1
         /\ Count("header") = 1 /\ Count("entries") = 1
         /\ Count("image") = Entry(disk).last_lba - Entry(disk).first_lba + 1
         /\ Count("image") \in 1 .. LbaMod - 1
<1> DEFINE e == Entry(disk)
<1>1. e \in Good /\ disk[1].partition_entries_lba \in DOMAIN disk
  BY DEF WellFormed, Entry, Good
<1>2. e.first_lba \in Nat /\ e.last_lba \in Nat
  BY <1>1, Fields
<1>3. e.first_lba <= e.last_lba /\ e.first_lba .. e.last_lba \subseteq DOMAIN disk
  BY DEF WellFormed
<1>4. e.first_lba \in DOMAIN disk /\ e.last_lba \in DOMAIN disk
  BY <1>2, <1>3
<1>5. DOMAIN disk \subseteq 0 .. LbaMod - 2
  BY DisksAssumption
<1> HIDE DEF e
<1>6. From("image") = e.first_lba /\ Count("image") = e.last_lba - e.first_lba + 1
  BY DEF From, Count, e
<1> QED
  BY <1>1, <1>2, <1>3, <1>4, <1>5, <1>6, LbaModAssumption DEF From, Count, e

(* Numbers cut to the width of sd_copy's parameters. *)
LEMMA Cut == ASSUME NEW n \in Int
             PROVE  /\ n % LbaMod \in 0 .. LbaMod - 1
                    /\ n \in 0 .. LbaMod - 1 => n % LbaMod = n
BY LbaModAssumption

LEMMA CopyErrors == SD_COPY_ERROR.CMD18 = -1 /\ SD_COPY_ERROR.CRC = -2
BY DEF SD_COPY_ERROR

(* What an answer leaves behind. *)
LEMMA Answered ==
  ASSUME NEW r, NEW expected, NEW to \in Card, card \in Card, faulty \in BOOLEAN,
         Answer(r, expected, to)
  PROVE  /\ card' \in {card, to} /\ card' \in Card
         /\ faulty' \in BOOLEAN
         /\ r = expected => card' = to
         /\ ~faulty' => r = expected /\ ~faulty
BY DEF Answer

(* The loader starts in its invariant. *)
LEMMA LoadStarts == Init => LoadInv
<1> SUFFICES ASSUME Init PROVE LoadInv
  OBVIOUS
<1>1. dst[stage] = <<>> /\ dst.image = <<>> /\ dst.entries = <<>>
  BY DEF Init, Stages
<1>2. TypeOK
  <2>1. card \in Card
    BY DEF Init, Card
  <2>2. dst \in [Stages -> Seq(Block)]
    BY DEF Init
  <2>3. faulty \in BOOLEAN /\ lost \in BOOLEAN
    BY Zenon DEF Init
  <2> QED
    BY <2>1, <2>2, <2>3, MaxTriesAssumption, LbaModAssumption DEF Init, TypeOK, Stages
<1>3. /\ pc = "cmd0" /\ stage = "header" /\ tries > 0 /\ i = 1 /\ lba = 1
      /\ card.mode = "power"
  BY MaxTriesAssumption DEF Init
<1>4. dst[stage] \in Seq(Good) /\ Len(dst[stage]) = 0
  BY <1>1
<1>5. SafeInv
  BY <1>2, <1>3, <1>4 DEF SafeInv, HostInv
<1>6. StageInv
  BY <1>1, <1>3 DEF StageInv
<1>7. CopyInv
  BY <1>3, <1>4 DEF CopyInv
<1>8. ImageInv
  BY <1>3, <1>4 DEF ImageInv, From, Count
<1> QED BY <1>5, <1>6, <1>7, <1>8 DEF LoadInv

-----------------------------------------------------------------------------
(* The initialisation of the card touches neither the copies nor the disk. *)
LEMMA InitSdStep ==
  ASSUME LoadInv, sd_cmd0 \/ sd_cmd8 \/ sd_cmd55 \/ Busy \/ sd_acmd41
  PROVE  LoadInv'
<1> USE DEF LoadInv, SafeInv, HostInv, TypeOK
<1>0. /\ pc \in Starting /\ UNCHANGED <<stage, lba, i, dst, disk, lost>>
      /\ tries \in Nat /\ rc = 0
  BY MaxTriesAssumption
  DEF sd_cmd0, sd_cmd8, sd_cmd55, Busy, sd_acmd41, Goto, OrFail, Starting
<1>1. \A m \in {"power", "idle", "app", "ready"} : [card EXCEPT !.mode = m] \in Card
  BY DEF Card
<1>2. /\ pc' \in Starting \cup {"cmd18", "spin"}
      /\ pc' = "spin" <=> rc' # 0
      /\ rc' \in {0, -1, -2, -3}
      /\ tries' \in 0 .. MaxTries
      /\ pc' = "cmd0" => tries' > 0
      /\ card' \in Card /\ card'.mode # "stream" /\ faulty' \in BOOLEAN
      /\ pc' = "cmd18" /\ ~faulty' => card'.mode = "ready"
  <2> USE MaxTriesAssumption DEF Starting, SD_INIT_ERROR, R1
  <2>m. card.mode # "stream"
    BY <1>0 DEF StageInv
  <2>1. CASE sd_cmd0
    <3>1. PICK r \in R1 : /\ Answer(r, "idle", [card EXCEPT !.mode = "idle"])
                          /\ tries' = tries - 1
                          /\ OrFail(tries' > 0, IF r = "idle" THEN "cmd8" ELSE "cmd0",
                                    SD_INIT_ERROR.CMD0)
      BY <2>1 DEF sd_cmd0
    <3>2. card' \in {card, [card EXCEPT !.mode = "idle"]} /\ card' \in Card /\ faulty' \in BOOLEAN
      BY <1>1, <3>1, Answered
    <3>3. card'.mode # "stream"
      BY <2>m, <3>2 DEF Card
    <3>4. tries > 0
      BY <2>1 DEF sd_cmd0
    <3> QED BY <1>0, <3>1, <3>2, <3>3, <3>4 DEF OrFail
  <2>2. CASE sd_cmd8
    <3>1. PICK r \in R1 : /\ Answer(r, "idle", card)
                          /\ OrFail(r = "idle", "cmd55", SD_INIT_ERROR.CMD8)
      BY <2>2 DEF sd_cmd8
    <3>2. card' = card /\ faulty' \in BOOLEAN
      BY <3>1, Answered
    <3> QED BY <1>0, <2>2, <2>m, <3>1, <3>2 DEF sd_cmd8, OrFail
  <2>3. CASE sd_cmd55
    <3>1. PICK r \in R1 : Answer(r, "idle", [card EXCEPT !.mode = "app"])
      BY <2>3 DEF sd_cmd55
    <3>2. card' \in {card, [card EXCEPT !.mode = "app"]} /\ card' \in Card /\ faulty' \in BOOLEAN
      BY <1>1, <3>1, Answered
    <3>3. card'.mode # "stream"
      BY <2>m, <3>2 DEF Card
    <3> QED BY <1>0, <2>3, <3>2, <3>3 DEF sd_cmd55, Goto
  <2>4. CASE Busy
    <3>1. Answer("idle", "idle", [card EXCEPT !.mode = "idle"])
      BY <2>4 DEF Busy
    <3>2. card' \in {card, [card EXCEPT !.mode = "idle"]} /\ card' \in Card /\ faulty' \in BOOLEAN
      BY <1>1, <3>1, Answered
    <3>3. card'.mode # "stream"
      BY <2>m, <3>2 DEF Card
    <3> QED BY <1>0, <2>4, <3>2, <3>3 DEF Busy, Goto
  <2>5. CASE sd_acmd41
    <3> DEFINE expected == IF card.mode = "app" THEN "ok" ELSE "error"
               to == IF card.mode = "app" THEN [card EXCEPT !.mode = "ready"] ELSE card
    <3>1. PICK r \in R1 \ {"idle"} : /\ Answer(r, expected, to)
                                     /\ OrFail(r = "ok", "cmd18", SD_INIT_ERROR.ACMD41)
      BY <2>5 DEF sd_acmd41
    <3>2. to \in Card /\ to.mode # "stream" /\ (expected = "ok" => to.mode = "ready")
      BY <1>1, <2>m DEF Card
    <3> HIDE DEF to, expected
    <3>3. /\ card' \in {card, to} /\ card' \in Card /\ faulty' \in BOOLEAN
          /\ r = expected => card' = to
          /\ ~faulty' => r = expected
      BY <3>1, <3>2, Answered
    <3>4. card'.mode # "stream" /\ (r = "ok" /\ ~faulty' => card'.mode = "ready")
      BY <2>m, <3>2, <3>3
    <3> QED BY <1>0, <2>5, <3>1, <3>3, <3>4 DEF sd_acmd41, OrFail
  <2> QED BY <2>1, <2>2, <2>3, <2>4, <2>5
<1>3. i >= 0 /\ dst[stage] \in Seq(Good) /\ dst[stage] = <<>> /\ stage = "header"
  BY <1>0 DEF StageInv, Starting
<1>4. Block' = Block /\ Good' = Good
  BY <1>0 DEF Block, Good
<1>5. SafeInv'
  BY <1>0, <1>2, <1>3, <1>4 DEF Starting
<1>6. StageInv'
  BY <1>0, <1>2, <1>3 DEF StageInv, Starting
<1>7. CopyInv'
  BY <1>0, <1>2, <1>3 DEF CopyInv, Starting
<1>8. ImageInv'
  BY <1>0, <1>2, <1>3 DEF ImageInv, From, Count, Starting
<1> QED BY <1>5, <1>6, <1>7, <1>8

-----------------------------------------------------------------------------
(* The steps of sd_copy. *)

(* What the disk alone determines keeps its value with it. *)
LEMMA SameDisk == ASSUME disk' = disk
                  PROVE  /\ Block' = Block /\ Good' = Good
                         /\ WellFormed(disk)' = WellFormed(disk)
                         /\ \A s : From(s)' = From(s) /\ Count(s)' = Count(s)
BY DEF Block, Good, WellFormed, Entry, From, Count

LEMMA OpenReadStep == ASSUME LoadInv, OpenRead PROVE LoadInv'
<1> USE DEF LoadInv, SafeInv, HostInv, TypeOK
<1>1. PICK r \in R1 :
        /\ IF card.mode = "stream"
           THEN /\ r # "none" => card.alive
                /\ faulty' = TRUE
                /\ UNCHANGED card
           ELSE IF lba \in DOMAIN disk
           THEN Answer(r, "ok", [card EXCEPT !.mode = "stream", !.at = lba])
           ELSE Answer(r, "error", card)
        /\ OrFail(r = "ok", "token", SD_COPY_ERROR.CMD18)
  BY DEF OpenRead
<1>2. pc = "cmd18" /\ rc = 0 /\ UNCHANGED <<tries, stage, lba, i, dst, disk, lost>>
  BY <1>1 DEF OpenRead, OrFail
<1>3. IF r = "ok" THEN pc' = "token" /\ rc' = 0 ELSE pc' = "spin" /\ rc' = -1
  <2>1. OrFail(r = "ok", "token", SD_COPY_ERROR.CMD18)
    BY <1>1
  <2> QED BY <1>2, <2>1, CopyErrors DEF OrFail
<1>4. /\ card' \in Card /\ faulty' \in BOOLEAN
      /\ card.mode # "stream" /\ card'.mode = "stream" /\ r = "ok" => card'.at = lba
  <2> DEFINE to == [card EXCEPT !.mode = "stream", !.at = lba]
  <2>1. to \in Card /\ to.at = lba
    BY DEF Card
  <2> HIDE DEF to
  <2>2. CASE card.mode = "stream"
    BY <1>1, <2>2
  <2>3. CASE card.mode # "stream" /\ lba \in DOMAIN disk
    <3>1. Answer(r, "ok", to)
      BY <1>1, <2>3 DEF to
    <3> QED BY <2>1, <3>1, Answered
  <2>4. CASE card.mode # "stream" /\ lba \notin DOMAIN disk
    <3>1. Answer(r, "error", card)
      BY <1>1, <2>4
    <3>2. card' = card /\ faulty' \in BOOLEAN
      BY <3>1, Answered
    <3> QED BY <2>4, <3>2
  <2> QED BY <2>2, <2>3, <2>4
<1>5. dst[stage] = <<>> /\ Len(dst[stage]) = 0
  BY <1>2 DEF StageInv
<1>6. SafeInv'
  BY <1>2, <1>3, <1>4, <1>5, SameDisk
<1>7. StageInv'
  BY <1>2, <1>3 DEF StageInv, Starting
<1>8. CopyInv'
  BY <1>2, <1>3, <1>4, <1>5 DEF CopyInv
<1>9. ImageInv'
  BY <1>2, <1>3, SameDisk DEF ImageInv
<1> QED BY <1>6, <1>7, <1>8, <1>9

LEMMA TokenStep == ASSUME LoadInv, Token PROVE LoadInv'
<1> USE DEF LoadInv, SafeInv, HostInv, TypeOK, Token, Goto
<1>1. SafeInv'
  BY SameDisk
<1>2. StageInv' /\ CopyInv'
  BY DEF StageInv, CopyInv, Starting
<1>3. ImageInv'
  BY SameDisk DEF ImageInv
<1> QED BY <1>1, <1>2, <1>3

(* A block whose CRC is right is the one the card sends at this place of   *)
(* its read; any other ends the copy with an error.                        *)
LEMMA ReadBlockStep == ASSUME LoadInv, ReadBlock PROVE LoadInv'
<1> USE DEF LoadInv, SafeInv, HostInv, TypeOK
<1>1. PICK right \in BOOLEAN :
        /\ Transfer(right)
        /\ i' = IF right THEN i - 1 ELSE i
        /\ rc' = IF right THEN rc ELSE SD_COPY_ERROR.CRC
        /\ pc' = IF right /\ i' > 0 THEN "token" ELSE "cmd12"
  BY DEF ReadBlock
<1>2. /\ pc = "block" /\ rc = 0 /\ i \in Nat /\ card.at \in DOMAIN disk
      /\ UNCHANGED <<stage, tries, lba, disk, lost>>
  BY DEF ReadBlock
<1>3. card' \in Card /\ card'.mode = card.mode /\ card'.at = card.at + 1
  BY DEF ReadBlock, Card
<1>a. IF right THEN i' = i - 1 /\ rc' = 0 /\ pc' = IF i' > 0 THEN "token" ELSE "cmd12"
             ELSE i' = i /\ rc' = -2 /\ pc' = "cmd12"
  BY <1>1, <1>2, CopyErrors
<1>4. PICK blk \in Block :
        /\ dst' = [dst EXCEPT ![stage] = Append(@, blk)]
        /\ right => blk = disk[card.at] /\ blk \in Good /\ card.mode = "stream"
  BY <1>1, <1>2 DEF Transfer, Block, Good
<1>5. faulty' \in BOOLEAN
  BY <1>1 DEF Transfer
<1>6. /\ dst' \in [Stages -> Seq(Block)]
      /\ dst'[stage] = Append(dst[stage], blk)
      /\ \A s \in Stages : s # stage => dst'[s] = dst[s]
  BY <1>4
<1>7. /\ dst[stage] \in Seq(Good) /\ Len(dst[stage]) \in Nat
      /\ Len(dst'[stage]) = Len(dst[stage]) + 1
      /\ dst'[stage] # <<>>
      /\ \A k \in 1 .. Len(dst[stage]) : dst'[stage][k] = dst[stage][k]
      /\ dst'[stage][Len(dst[stage]) + 1] = blk
      /\ right => dst'[stage] \in Seq(Good)
  BY <1>2, <1>4, <1>6
<1>8. SafeInv'
  <2>1. TypeOK'
    <3>1. /\ pc' \in {"token", "cmd12"} /\ rc' \in {0, -2} /\ i' \in -1 .. LbaMod
          /\ pc' = "token" => rc' = 0
      BY <1>a, <1>2, LbaModAssumption
    <3> QED BY <3>1, <1>2, <1>3, <1>5, <1>6, SameDisk
  <2>2. HostInv'
    BY <1>a, <2>1
  <2> QED BY <1>a, <1>2, <1>7, <2>2, SameDisk
<1>9. StageInv'
  <2>1. stage # "image" => dst'["image"] = dst["image"]
    BY <1>6 DEF Stages
  <2>2. stage = "header" => dst'["entries"] = dst["entries"]
    BY <1>6 DEF Stages
  <2> QED BY <1>1, <1>2, <2>1, <2>2 DEF StageInv, Starting
<1>10. CopyInv'
  <2> SUFFICES ASSUME ~lost' PROVE CopyInv'
    BY DEF CopyInv
  <2>1. CopyInv /\ ~lost
    BY <1>2
  <2>2. right => card.at = lba + Len(dst[stage])
    BY <1>2, <1>4, <2>1 DEF CopyInv
  <2>3. right => \A k \in 1 .. Len(dst'[stage]) : dst'[stage][k] = disk[lba + k - 1]
    <3> SUFFICES ASSUME right, NEW k \in 1 .. Len(dst[stage]) + 1
                 PROVE  dst'[stage][k] = disk[lba + k - 1]
      BY <1>7
    <3>1. CASE k \in 1 .. Len(dst[stage])
      BY <1>2, <1>7, <2>1, <3>1 DEF CopyInv
    <3>2. CASE k = Len(dst[stage]) + 1
      <4>1. lba + k - 1 = card.at
        BY <1>7, <2>2, <3>2
      <4> QED BY <1>4, <1>7, <3>2, <4>1
    <3> QED BY <1>7, <3>1, <3>2
  <2> QED BY <1>a, <1>2, <1>3, <1>7, <2>2, <2>3 DEF CopyInv
<1>11. ImageInv'
  <2> SUFFICES ASSUME WellFormed(disk), ~lost, right PROVE ImageInv'
    BY <1>a, <1>2, SameDisk DEF ImageInv
  <2>1. lba = From(stage) /\ i = Count(stage) - Len(dst[stage]) /\ i > 0
    BY <1>2 DEF ImageInv
  <2>2. Count(stage) \in Nat
    BY WellFormedCopies, LbaModAssumption DEF Stages
  <2>3. i' = Count(stage) - Len(dst'[stage])
    BY <1>a, <1>2, <1>7, <2>1, <2>2
  <2> QED BY <1>a, <1>2, <2>1, <2>3, SameDisk DEF ImageInv
<1> QED BY <1>8, <1>9, <1>10, <1>11

(* CMD12, and what gpt_find_boot_partition makes of the blocks. *)
LEMMA CloseReadStep == ASSUME LoadInv, CloseRead PROVE LoadInv'
<1> USE DEF LoadInv, SafeInv, HostInv, TypeOK
<1>1. pc = "cmd12" /\ UNCHANGED <<tries, rc, dst, disk>>
  BY DEF CloseRead, AfterCopy, Goto, StartCopy
<1>2. /\ card' \in Card /\ faulty' \in BOOLEAN /\ lost' \in BOOLEAN
      /\ ~faulty' => card'.mode = "ready"
      /\ ~lost' => ~lost /\ card'.mode # "stream"
  <2> DEFINE to == [card EXCEPT !.mode = "ready"]
  <2>1. to \in Card /\ to.mode = "ready"
    BY DEF Card
  <2> HIDE DEF to
  <2>2. PICK r \in R1 : Answer(r, "ok", to)
    BY DEF CloseRead, to
  <2>3. card' \in Card /\ faulty' \in BOOLEAN /\ (~faulty' => card' = to)
    BY <2>1, <2>2, Answered
  <2>4. lost' \in BOOLEAN /\ (~lost' => ~lost /\ card'.mode # "stream")
    BY DEF CloseRead
  <2> QED BY <2>1, <2>3, <2>4
<1>3. CASE rc # 0 /\ Goto("spin")
  <2>1. SafeInv'
    BY <1>1, <1>2, <1>3, SameDisk DEF Goto
  <2>2. StageInv' /\ CopyInv' /\ ImageInv'
    BY <1>1, <1>3 DEF Goto, StageInv, CopyInv, ImageInv, Starting
  <2> QED BY <2>1, <2>2
<1>4. ASSUME rc = 0
      PROVE  /\ dst[stage][1] \in Good /\ Len(dst[stage]) >= 1
             /\ ~lost => dst[stage][1] = disk[lba]
             /\ ~lost /\ WellFormed(disk) => lba = From(stage) /\ Len(dst[stage]) = Count(stage)
  <2>1. dst[stage] \in Seq(Good) /\ dst[stage] # <<>>
    BY <1>1, <1>4
  <2>2. dst[stage][1] \in Good /\ Len(dst[stage]) \in Nat /\ Len(dst[stage]) >= 1
    BY <2>1
  <2>3. ~lost => dst[stage][1] = disk[lba]
    <3>1. ~lost => dst[stage][1] = disk[lba + 1 - 1]
      BY <1>4, <2>2 DEF CopyInv
    <3>2. lba + 1 - 1 = lba
      OBVIOUS
    <3> QED BY <3>1, <3>2
  <2>4. ~lost /\ WellFormed(disk) => lba = From(stage) /\ Len(dst[stage]) = Count(stage)
    <3> SUFFICES ASSUME ~lost, WellFormed(disk)
                 PROVE  lba = From(stage) /\ Len(dst[stage]) = Count(stage)
      OBVIOUS
    <3>1. lba = From(stage) /\ i = Count(stage) - Len(dst[stage]) /\ i = 0
      BY <1>1, <1>4 DEF ImageInv
    <3>2. Count(stage) \in Nat
      BY WellFormedCopies, LbaModAssumption DEF Stages
    <3> QED BY <2>2, <3>1, <3>2
  <2> QED BY <2>2, <2>3, <2>4
<1>5. ASSUME NEW s \in Stages, NEW first \in Int, NEW size \in Int, rc = 0,
             StartCopy(s, first, size), dst[s] = <<>>,
             s # "header", s = "entries" => dst.image = <<>>,
             ~lost /\ WellFormed(disk) => first = From(s) /\ size = Count(s)
      PROVE  LoadInv'
  <2>1. /\ stage' = s /\ pc' = "cmd18" /\ rc' = 0
        /\ lba' \in 0 .. LbaMod - 1 /\ i' \in 0 .. LbaMod - 1
    BY <1>5, Cut DEF StartCopy
  <2>2. dst[s] \in Seq(Good) /\ Len(dst[s]) = 0
    BY <1>5
  <2>3. SafeInv'
    BY <1>1, <1>2, <2>1, <2>2, LbaModAssumption, SameDisk
  <2>4. StageInv'
    BY <1>1, <1>5, <2>1 DEF StageInv, Starting, Stages
  <2>5. CopyInv'
    BY <1>1, <1>2, <2>1, <2>2 DEF CopyInv
  <2>6. ASSUME WellFormed(disk), ~lost
        PROVE  lba' = From(s) /\ i' = Count(s) /\ Count(s) > 0
    <3>1. first \in 0 .. LbaMod - 1 /\ size \in 1 .. LbaMod - 1
      BY <1>5, <2>6, WellFormedCopies, LbaModAssumption DEF Stages
    <3>2. first % LbaMod = first /\ size % LbaMod = size
      BY <3>1, Cut
    <3> QED BY <1>5, <2>6, <3>1, <3>2 DEF StartCopy
  <2>7. ImageInv'
    BY <1>1, <1>2, <2>1, <2>2, <2>6, SameDisk DEF ImageInv
  <2> QED BY <2>3, <2>4, <2>5, <2>7
<1>6. CASE rc = 0 /\ stage = "header"
           /\ StartCopy("entries", dst.header[1].partition_entries_lba, 1)
  <2>1. dst.header[1] \in Good /\ dst.header[1].partition_entries_lba \in Nat
    BY <1>4, <1>6, Fields
  <2>2. dst.entries = <<>> /\ dst.image = <<>>
    BY <1>6 DEF StageInv
  <2>3. ~lost /\ WellFormed(disk) =>
          dst.header[1].partition_entries_lba = From("entries") /\ 1 = Count("entries")
    BY <1>4, <1>6, WellFormedCopies
  <2> QED BY <1>5, <1>6, <2>1, <2>2, <2>3 DEF Stages
<1>7. CASE rc = 0 /\ stage = "entries"
           /\ StartCopy("image", dst.entries[1].first_lba,
                        dst.entries[1].last_lba - dst.entries[1].first_lba + 1)
  <2> DEFINE boot == dst.entries[1]
  <2>1. boot \in Good /\ boot.first_lba \in Nat /\ boot.last_lba \in Nat
    BY <1>4, <1>7, Fields
  <2>2. dst.image = <<>>
    BY <1>7 DEF StageInv
  <2>3. ASSUME ~lost, WellFormed(disk)
        PROVE  boot.first_lba = From("image")
               /\ boot.last_lba - boot.first_lba + 1 = Count("image")
    <3>1. boot = Entry(disk)
      BY <1>4, <1>7, <2>3, WellFormedCopies DEF Entry
    <3> QED BY <2>3, <3>1, WellFormedCopies
  <2> HIDE DEF boot
  <2>4. StartCopy("image", boot.first_lba, boot.last_lba - boot.first_lba + 1)
    BY <1>7 DEF boot
  <2> QED BY <1>5, <1>7, <2>1, <2>2, <2>3, <2>4 DEF Stages
<1>8. CASE rc = 0 /\ stage = "image" /\ Goto("jump")
  <2>1. SafeInv'
    BY <1>1, <1>2, <1>8, SameDisk DEF Goto
  <2>2. StageInv' /\ CopyInv'
    BY <1>1, <1>2, <1>8 DEF Goto, StageInv, CopyInv, Starting
  <2>3. ImageInv'
    BY <1>1, <1>2, <1>8, SameDisk DEF Goto, ImageInv
  <2> QED BY <2>1, <2>2, <2>3
<1> QED BY <1>3, <1>6, <1>7, <1>8 DEF CloseRead, AfterCopy

(* The card stops answering. *)
LEMMA DieStep == ASSUME LoadInv, Die PROVE LoadInv'
<1> USE DEF LoadInv, SafeInv, HostInv, TypeOK
<1>1. UNCHANGED <<pc, stage, tries, lba, i, rc, dst, disk, lost>> /\ faulty' = TRUE
  BY DEF Die, host
<1>2. card' \in Card /\ card'.mode = card.mode /\ card'.at = card.at
  BY DEF Die, Card
<1>3. SafeInv'
  BY <1>1, <1>2, SameDisk
<1>4. StageInv' /\ CopyInv'
  BY <1>1, <1>2 DEF StageInv, CopyInv
<1>5. ImageInv'
  BY <1>1, SameDisk DEF ImageInv
<1> QED BY <1>3, <1>4, <1>5

LEMMA LoadStep == LoadInv /\ [Next]_vars => LoadInv'
<1> SUFFICES ASSUME LoadInv, [Next]_vars PROVE LoadInv'
  OBVIOUS
<1>1. CASE UNCHANGED vars
  <2>1. UNCHANGED <<pc, stage, tries, lba, i, rc, dst, card, disk, faulty, lost>>
    BY <1>1 DEF vars, host
  <2>2. SafeInv'
    BY <2>1, SameDisk DEF LoadInv, SafeInv, HostInv, TypeOK
  <2>3. StageInv' /\ CopyInv' /\ ImageInv'
    BY <2>1, SameDisk DEF LoadInv, StageInv, CopyInv, ImageInv
  <2> QED BY <2>2, <2>3 DEF LoadInv
<1> QED
  BY <1>1, InitSdStep, OpenReadStep, TokenStep, ReadBlockStep, CloseReadStep, DieStep
  DEF Next, HostStep

-----------------------------------------------------------------------------
(* The loader's counters stay in their range, a failed part is followed by *)
(* nothing but the command that closes its read, and a card that does as   *)
(* it should is asked for blocks, and handed to the loaded program, only   *)
(* when it is initialised and has no read open: for every card.            *)
THEOREM HostSafe == Spec => []HostInv
<1>1. LoadInv => HostInv
  BY DEF LoadInv, SafeInv
<1> QED BY <1>1, LoadStarts, LoadStep, PTL DEF Spec

(* The hart jumps only to an exact copy of the first partition, for every  *)
(* well-formed card of fewer than 2^32 blocks, whatever answers the card   *)
(* garbles or withholds and whichever blocks it damages, if it closed its  *)
(* reads.                                                                  *)
THEOREM ImageExact == Spec => []LoadedImage
<1>1. LoadInv => LoadedImage
  <2> SUFFICES ASSUME LoadInv, pc = "jump", WellFormed(disk), ~lost
               PROVE  dst.image = Image(disk)
    BY DEF LoadedImage
  <2> DEFINE e == Entry(disk)
             n == e.last_lba - e.first_lba + 1
  <2>1. rc = 0 /\ stage = "image" /\ dst.image \in Seq(Good) /\ disk \in Disks
    BY DEF LoadInv, SafeInv, HostInv, TypeOK, StageInv
  <2>2. From("image") = e.first_lba /\ Count("image") = n /\ n \in Nat
    BY <2>1, WellFormedCopies, LbaModAssumption
  <2>3. lba = e.first_lba /\ 0 = n - Len(dst.image)
    BY <2>1, <2>2 DEF LoadInv, ImageInv
  <2>4. Len(dst.image) = n
    BY <2>1, <2>2, <2>3
  <2>5. \A k \in 1 .. n : dst.image[k] = disk[e.first_lba + k - 1]
    BY <2>1, <2>3, <2>4 DEF LoadInv, CopyInv
  <2>6. Image(disk) = [k \in 1 .. n |-> disk[e.first_lba + k - 1]]
    BY DEF Image
  <2> HIDE DEF e, n
  <2> QED BY <2>1, <2>4, <2>5, <2>6
<1> QED BY <1>1, LoadStarts, LoadStep, PTL DEF Spec

-----------------------------------------------------------------------------
(* The checksum of a block.  One byte of crc16 and eight steps of the      *)
(* division are brought to the same form: the byte fed back to the         *)
(* polynomial (Feedback), and where its bits end up (Mixed).               *)

Word16 == SUBSET (0 .. 15)
Byte8 == SUBSET (0 .. 7)

(* Exclusive or, bit by bit. *)
LEMMA SymDiffBit == ASSUME NEW a, NEW b PROVE \A j : j \in SymDiff(a, b) <=> ~(j \in a <=> j \in b)
BY DEF SymDiff

(* The eight bits fed back while a byte is taken in: the register's high   *)
(* byte plus the data, and for the later four what the first four left at  *)
(* bit 12; and the register after the byte.                                *)
Feedback(c, d) == LET u == SymDiff(Right(16, c, 8), d) IN SymDiff(u, Right(8, u, 4))
Mixed(c, f) == SymDiff(SymDiff(Left(16, c, 8), f), SymDiff(Left(16, f, 5), Left(16, f, 12)))

(* A step of the division shifts the register and, if the bit that leaves  *)
(* it differs from the one that comes in, adds the polynomial.             *)
LEMMA DivideBits ==
  ASSUME NEW r, NEW d, NEW k
  PROVE  LET q == DivideBit(Poly16, 16, r, k \in d)
             f == ~((15 \in r) <=> (k \in d))
         IN /\ q \in Word16
            /\ (0 \in q) <=> f
            /\ (5 \in q) <=> ~((4 \in r) <=> f)
            /\ (12 \in q) <=> ~((11 \in r) <=> f)
            /\ \A j \in (1 .. 15) \ {5, 12} : (j \in q) <=> (j - 1 \in r)
<1> DEFINE L == Left(16, r, 1)
           P == Poly16 \ {16}
<1>1. \A j : j \in L <=> j \in 1 .. 15 /\ j - 1 \in r
  BY DEF Left
<1>2. P = {12, 5, 0}
  BY DEF Poly16
<1>3. \A j : j \in SymDiff(L, P) <=> ~(j \in L <=> j \in P)
  BY DEF SymDiff
<1>4. DivideBit(Poly16, 16, r, k \in d) = IF (15 \in r) <=> (k \in d) THEN L ELSE SymDiff(L, P)
  BY DEF DivideBit
<1> HIDE DEF L, P
<1> QED BY <1>1, <1>2, <1>3, <1>4 DEF Word16

(* Feedback, bit by bit. *)
LEMMA FeedbackBits ==
  ASSUME NEW c \in Word16, NEW d \in Byte8
  PROVE  LET U(j) == ~((j + 8 \in c) <=> (j \in d))
             f == Feedback(c, d)
         IN  /\ f \in Byte8
             /\ \A j \in 4 .. 7 : (j \in f) <=> U(j)
             /\ \A j \in 0 .. 3 : (j \in f) <=> ~(U(j) <=> U(j + 4))
<1> DEFINE R == Right(16, c, 8)
           u == SymDiff(R, d)
           v == Right(8, u, 4)
<1>1. \A j : j \in R <=> j \in 0 .. 15 /\ j + 8 \in c
  BY DEF Left, Right
<1>2. \A j : j \in u <=> ~(j \in R <=> j \in d)
  BY SymDiffBit
<1>3. \A j : j \in v <=> j \in 0 .. 7 /\ j + 4 \in u
  BY DEF Left, Right
<1>4. \A j : j \in SymDiff(u, v) <=> ~(j \in u <=> j \in v)
  BY SymDiffBit
<1>5. Feedback(c, d) = SymDiff(u, v)
  BY DEF Feedback
<1> HIDE DEF R, u, v
<1>6. \A j : j \in u => j \in 0 .. 7
  <2>1. \A j : j \in R => j \in 0 .. 7
    BY <1>1 DEF Word16
  <2> QED BY <1>2, <2>1 DEF Byte8
<1>7. \A j \in 0 .. 7 : j \in u <=> ~((j + 8 \in c) <=> (j \in d))
  BY <1>1, <1>2
<1>8. \A j \in 4 .. 7 : j \notin v
  BY <1>3, <1>6
<1>9. \A j \in 0 .. 3 : j \in v <=> j + 4 \in u
  BY <1>3
<1>10. \A j \in 0 .. 3 : j + 4 \in 0 .. 7 /\ j \in 0 .. 7
  OBVIOUS
<1>11. \A j \in 4 .. 7 : j \in 0 .. 7
  OBVIOUS
<1>12. SymDiff(u, v) \in Byte8
  BY <1>3, <1>4, <1>6 DEF Byte8
<1>13. \A j \in 4 .. 7 : (j \in SymDiff(u, v)) <=> ~((j + 8 \in c) <=> (j \in d))
  BY <1>4, <1>7, <1>8, <1>11
<1>14. \A j \in 0 .. 3 : (j \in SymDiff(u, v)) <=> ~(j \in u <=> j + 4 \in u)
  BY <1>4, <1>9
<1> QED BY <1>5, <1>7, <1>10, <1>12, <1>13, <1>14

(* Mixed, bit by bit. *)
LEMMA MixedBits ==
  ASSUME NEW c \in Word16, NEW f \in Byte8
  PROVE  LET r == Mixed(c, f)
         IN  /\ r \in Word16
             /\ \A j \in 0 .. 4 : (j \in r) <=> (j \in f)
             /\ \A j \in 5 .. 7 : (j \in r) <=> ~((j \in f) <=> (j - 5 \in f))
             /\ \A j \in 8 .. 11 : (j \in r) <=> ~((j - 8 \in c) <=> (j - 5 \in f))
             /\ (12 \in r) <=> ~((4 \in c) <=> ~((7 \in f) <=> (0 \in f)))
             /\ \A j \in 13 .. 15 : (j \in r) <=> ~((j - 8 \in c) <=> (j - 12 \in f))
<1> DEFINE L == Left(16, c, 8)
           A == SymDiff(L, f)
           M == Left(16, f, 5)
           N == Left(16, f, 12)
           B == SymDiff(M, N)
           r == SymDiff(A, B)
<1>1. \A j : j \in L <=> j \in 8 .. 15 /\ j - 8 \in c
  BY DEF Left, Right
<1>2. \A j : j \in M <=> j \in 5 .. 15 /\ j - 5 \in f
  BY DEF Left, Right
<1>3. \A j : j \in N <=> j \in 12 .. 15 /\ j - 12 \in f
  BY DEF Left, Right
<1>4. \A j : j \in A <=> ~(j \in L <=> j \in f)
  BY SymDiffBit
<1>5. \A j : j \in B <=> ~(j \in M <=> j \in N)
  BY SymDiffBit
<1>6. \A j : j \in r <=> ~(j \in A <=> j \in B)
  BY SymDiffBit
<1>7. Mixed(c, f) = r
  BY DEF Mixed
<1>8. \A j : j \in f => j \in 0 .. 7
  BY DEF Byte8
<1> HIDE DEF L, A, M, N, B, r
<1>9. r \in Word16
  <2>1. \A j : j \in A => j \in 0 .. 15
    <3>1. \A j : j \in A => j \in L \/ j \in f
      BY <1>4
    <3> QED BY <1>1, <1>8, <3>1
  <2>2. \A j : j \in B => j \in 0 .. 15
    BY <1>2, <1>3, <1>5
  <2>3. \A j : j \in r => j \in 0 .. 15
    BY <1>6, <2>1, <2>2
  <2> QED BY <2>3 DEF Word16
<1>10. \A j \in 0 .. 4 : (j \in r) <=> (j \in f)
  BY <1>1, <1>2, <1>3, <1>4, <1>5, <1>6, <1>8
<1>11. \A j \in 5 .. 7 : (j \in r) <=> ~((j \in f) <=> (j - 5 \in f))
  BY <1>1, <1>2, <1>3, <1>4, <1>5, <1>6, <1>8
<1>12. \A j \in 8 .. 11 : (j \in r) <=> ~((j - 8 \in c) <=> (j - 5 \in f))
  BY <1>1, <1>2, <1>3, <1>4, <1>5, <1>6, <1>8
<1>13. (12 \in r) <=> ~((4 \in c) <=> ~((7 \in f) <=> (0 \in f)))
  BY <1>1, <1>2, <1>3, <1>4, <1>5, <1>6, <1>8
<1>14. \A j \in 13 .. 15 : (j \in r) <=> ~((j - 8 \in c) <=> (j - 12 \in f))
  BY <1>1, <1>2, <1>3, <1>4, <1>5, <1>6, <1>8
<1> QED BY <1>7, <1>9, <1>10, <1>11, <1>12, <1>13, <1>14

(* Words with the same bits are equal. *)
LEMMA WordsEqual ==
  ASSUME NEW a \in Word16, NEW b \in Word16, \A j \in 0 .. 15 : (j \in a) <=> (j \in b)
  PROVE  a = b
BY DEF Word16

(* What the shifts and masks of crc16 compute. *)
LEMMA CrcForm ==
  ASSUME NEW c \in Word16, NEW d \in Byte8
  PROVE  crc16(c, d) = Mixed(c, Feedback(c, d))
<1> DEFINE f == Feedback(c, d)
           U(j) == ~((j + 8 \in c) <=> (j \in d))
           h1 == Right(16, c, 8)
           l1 == Left(16, c, 8)
           s1 == h1 \union l1
           s2 == SymDiff(s1, d)
           t2 == Right(16, s2, 4) \intersect 0 .. 3
           s3 == SymDiff(s2, t2)
           t3 == Left(16, s3, 12)
           s4 == SymDiff(s3, t3)
           t4 == Left(16, s4 \intersect 0 .. 7, 5)
           s5 == SymDiff(s4, t4)
<1>1. /\ f \in Byte8
      /\ \A j \in 4 .. 7 : (j \in f) <=> U(j)
      /\ \A j \in 0 .. 3 : (j \in f) <=> ~(U(j) <=> U(j + 4))
  BY FeedbackBits
<1>0. crc16(c, d) = s5
  BY DEF crc16
<1>2. \A j : j \in s1 <=> (j \in 0 .. 15 /\ j + 8 \in c) \/ (j \in 8 .. 15 /\ j - 8 \in c)
  <2>1. \A j : j \in h1 <=> j \in 0 .. 15 /\ j + 8 \in c
    BY DEF Right
  <2>2. \A j : j \in l1 <=> j \in 8 .. 15 /\ j - 8 \in c
    BY DEF Left
  <2> HIDE DEF h1, l1
  <2> QED BY <2>1, <2>2
<1> HIDE DEF h1, l1, s1
<1>3. \A j : j \in s2 <=> ~(j \in s1 <=> j \in d)
  BY SymDiffBit
<1> HIDE DEF s2
<1>4. \A j : j \in t2 <=> j \in 0 .. 3 /\ j + 4 \in s2
  BY DEF Right
<1> HIDE DEF t2
<1>5. \A j : j \in s3 <=> ~(j \in s2 <=> j \in t2)
  BY SymDiffBit
<1> HIDE DEF s3
<1>6. \A j : j \in t3 <=> j \in 12 .. 15 /\ j - 12 \in s3
  BY DEF Left
<1> HIDE DEF t3
<1>7. \A j : j \in s4 <=> ~(j \in s3 <=> j \in t3)
  BY SymDiffBit
<1> HIDE DEF s4
<1>8. \A j : j \in t4 <=> j \in 5 .. 15 /\ j - 5 \in s4 /\ j - 5 \in 0 .. 7
  BY DEF Left
<1> HIDE DEF t4
<1>9. \A j : j \in s5 <=> ~(j \in s4 <=> j \in t4)
  BY SymDiffBit
<1>11. /\ \A j : j \in c => j \in 0 .. 15
       /\ \A j : j \in d => j \in 0 .. 7
       /\ \A j : j \in f => j \in 0 .. 7
  BY <1>1 DEF Word16, Byte8
<1> HIDE DEF f, s5
<1>12. /\ \A j \in 0 .. 7 : j \in s2 <=> U(j)
       /\ \A j \in 8 .. 15 : j \in s2 <=> j - 8 \in c
       /\ \A j : j \in s2 => j \in 0 .. 15
  <2>1. \A j \in 0 .. 7 : j \in s1 <=> j + 8 \in c
    BY <1>2
  <2>2. \A j \in 8 .. 15 : j \in s1 <=> j - 8 \in c
    BY <1>2, <1>11
  <2>3. \A j : j \in s1 => j \in 0 .. 15
    BY <1>2
  <2>4. \A j \in 8 .. 15 : j \notin d
    BY <1>11
  <2>5. \A j : j \in s2 => j \in s1 \/ j \in d
    BY <1>3
  <2>6. \A j : j \in s2 => j \in 0 .. 15
    BY <1>11, <2>3, <2>5
  <2> QED BY <1>3, <2>1, <2>2, <2>4, <2>6
<1>13. /\ \A j \in 0 .. 7 : j \in s3 <=> j \in f
       /\ \A j \in 8 .. 15 : j \in s3 <=> j - 8 \in c
       /\ \A j : j \in s3 => j \in 0 .. 15
  <2>1. \A j \in 0 .. 3 : j \in s3 <=> j \in f
    <3>1. \A j \in 0 .. 3 : j \in s3 <=> ~(U(j) <=> U(j + 4))
      BY <1>4, <1>5, <1>12
    <3> QED BY <1>1, <3>1
  <2>2. \A j \in 4 .. 7 : j \in s3 <=> j \in f
    <3>1. \A j \in 4 .. 7 : j \in 0 .. 7 /\ j \notin t2
      BY <1>4
    <3>2. \A j \in 4 .. 7 : j \in s3 <=> U(j)
      BY <1>5, <1>12, <3>1
    <3> QED BY <1>1, <3>2
  <2>3. \A j \in 8 .. 15 : j \notin t2
    BY <1>4
  <2>4. \A j : j \in s3 => j \in s2 \/ j \in t2
    BY <1>5
  <2>5. \A j : j \in s3 => j \in 0 .. 15
    BY <1>4, <1>12, <2>4
  <2>6. \A j \in 0 .. 7 : j \in 0 .. 3 \/ j \in 4 .. 7
    OBVIOUS
  <2> QED BY <1>5, <1>12, <2>1, <2>2, <2>3, <2>5, <2>6
<1>14. /\ \A j \in 0 .. 7 : j \in s4 <=> j \in f
       /\ \A j \in 8 .. 11 : j \in s4 <=> j - 8 \in c
       /\ \A j \in 12 .. 15 : j \in s4 <=> ~(j - 8 \in c <=> j - 12 \in f)
       /\ \A j : j \in s4 => j \in 0 .. 15
  <2>1. \A j \in 0 .. 11 : j \notin t3
    BY <1>6
  <2>2. \A j \in 12 .. 15 : j \in t3 <=> j - 12 \in f
    BY <1>6, <1>13
  <2>3. \A j : j \in s4 => j \in s3 \/ j \in t3
    BY <1>7
  <2>4. \A j : j \in s4 => j \in 0 .. 15
    BY <1>6, <1>13, <2>3
  <2>5. /\ \A j \in 0 .. 7 : j \in 0 .. 11
        /\ \A j \in 8 .. 11 : j \in 0 .. 11 /\ j \in 8 .. 15
        /\ \A j \in 12 .. 15 : j \in 8 .. 15
    OBVIOUS
  <2> QED BY <1>7, <1>13, <2>1, <2>2, <2>4, <2>5
<1>15. /\ \A j \in 0 .. 4 : j \notin t4
       /\ \A j \in 5 .. 12 : j \in t4 <=> j - 5 \in f
       /\ \A j \in 13 .. 15 : j \notin t4
       /\ \A j : j \in t4 => j \in 0 .. 15
  BY <1>8, <1>14
<1>16. s5 \in Word16
  <2>1. \A j : j \in s5 => j \in s4 \/ j \in t4
    BY <1>9
  <2>2. \A j : j \in s5 => j \in 0 .. 15
    BY <1>14, <1>15, <2>1
  <2> QED BY <2>2 DEF Word16
<1> DEFINE r == Mixed(c, f)
<1>17. /\ r \in Word16
       /\ \A j \in 0 .. 4 : (j \in r) <=> (j \in f)
       /\ \A j \in 5 .. 7 : (j \in r) <=> ~((j \in f) <=> (j - 5 \in f))
       /\ \A j \in 8 .. 11 : (j \in r) <=> ~((j - 8 \in c) <=> (j - 5 \in f))
       /\ (12 \in r) <=> ~((4 \in c) <=> ~((7 \in f) <=> (0 \in f)))
       /\ \A j \in 13 .. 15 : (j \in r) <=> ~((j - 8 \in c) <=> (j - 12 \in f))
  BY <1>1, MixedBits
<1> HIDE DEF r
<1>18. \A j \in 0 .. 4 : j \in s5 <=> j \in r
  BY <1>9, <1>14, <1>15, <1>17
<1>19. \A j \in 5 .. 7 : j \in s5 <=> j \in r
  BY <1>9, <1>14, <1>15, <1>17
<1>20. \A j \in 8 .. 11 : j \in s5 <=> j \in r
  BY <1>9, <1>14, <1>15, <1>17
<1>21. 12 \in s5 <=> 12 \in r
  BY <1>9, <1>14, <1>15, <1>17
<1>22. \A j \in 13 .. 15 : j \in s5 <=> j \in r
  BY <1>9, <1>14, <1>15, <1>17
<1>23. \A j \in 0 .. 15 : j \in s5 <=> j \in r
  BY <1>18, <1>19, <1>20, <1>21, <1>22
<1> QED BY <1>0, <1>16, <1>17, <1>23, WordsEqual DEF r, f

(* Register q is register r after a step that feeds back f. *)
Shifted(q, r, f) ==
  /\ (0 \in q) <=> f
  /\ (1 \in q) <=> (0 \in r)
  /\ (2 \in q) <=> (1 \in r)
  /\ (3 \in q) <=> (2 \in r)
  /\ (4 \in q) <=> (3 \in r)
  /\ (5 \in q) <=> ~((4 \in r) <=> f)
  /\ (6 \in q) <=> (5 \in r)
  /\ (7 \in q) <=> (6 \in r)
  /\ (8 \in q) <=> (7 \in r)
  /\ (9 \in q) <=> (8 \in r)
  /\ (10 \in q) <=> (9 \in r)
  /\ (11 \in q) <=> (10 \in r)
  /\ (12 \in q) <=> ~((11 \in r) <=> f)
  /\ (13 \in q) <=> (12 \in r)
  /\ (14 \in q) <=> (13 \in r)
  /\ (15 \in q) <=> (14 \in r)

(* DivideBits, written out. *)
LEMMA DivideShifts ==
  ASSUME NEW r, NEW d, NEW k
  PROVE  Shifted(DivideBit(Poly16, 16, r, k \in d), r, ~((15 \in r) <=> (k \in d)))
<1> DEFINE q == DivideBit(Poly16, 16, r, k \in d)
<1>1. /\ (0 \in q) <=> ~((15 \in r) <=> (k \in d))
      /\ (5 \in q) <=> ~((4 \in r) <=> ~((15 \in r) <=> (k \in d)))
      /\ (12 \in q) <=> ~((11 \in r) <=> ~((15 \in r) <=> (k \in d)))
      /\ \A j \in (1 .. 15) \ {5, 12} : (j \in q) <=> (j - 1 \in r)
  BY DivideBits
<1> HIDE DEF q
<1>2. Shifted(q, r, ~((15 \in r) <=> (k \in d)))
  BY <1>1 DEF Shifted
<1> QED BY <1>2 DEF q

(* What the division by the polynomial computes for a byte. *)
LEMMA DivideForm ==
  ASSUME NEW c \in Word16, NEW d \in Byte8
  PROVE  Divide(Poly16, 16, c, d) = Mixed(c, Feedback(c, d))
<1> DEFINE r1 == DivideBit(Poly16, 16, c, 7 \in d)
           r2 == DivideBit(Poly16, 16, r1, 6 \in d)
           r3 == DivideBit(Poly16, 16, r2, 5 \in d)
           r4 == DivideBit(Poly16, 16, r3, 4 \in d)
           r5 == DivideBit(Poly16, 16, r4, 3 \in d)
           r6 == DivideBit(Poly16, 16, r5, 2 \in d)
           r7 == DivideBit(Poly16, 16, r6, 1 \in d)
           r8 == DivideBit(Poly16, 16, r7, 0 \in d)
           f == Feedback(c, d)
           r == Mixed(c, f)
           U(j) == ~((j + 8 \in c) <=> (j \in d))
<1>1. Shifted(r1, c, ~((15 \in c) <=> (7 \in d)))
  BY DivideShifts
<1>2. Shifted(r2, r1, ~((15 \in r1) <=> (6 \in d)))
  BY DivideShifts
<1>3. Shifted(r3, r2, ~((15 \in r2) <=> (5 \in d)))
  BY DivideShifts
<1>4. Shifted(r4, r3, ~((15 \in r3) <=> (4 \in d)))
  BY DivideShifts
<1>5. Shifted(r5, r4, ~((15 \in r4) <=> (3 \in d)))
  BY DivideShifts
<1>6. Shifted(r6, r5, ~((15 \in r5) <=> (2 \in d)))
  BY DivideShifts
<1>7. Shifted(r7, r6, ~((15 \in r6) <=> (1 \in d)))
  BY DivideShifts
<1>8. Shifted(r8, r7, ~((15 \in r7) <=> (0 \in d))) /\ r8 \in Word16
  BY DivideShifts, DivideBits
<1>9. Divide(Poly16, 16, c, d) = r8
  BY DEF Divide
<1>10. /\ f \in Byte8
       /\ \A j \in 4 .. 7 : (j \in f) <=> U(j)
       /\ \A j \in 0 .. 3 : (j \in f) <=> ~(U(j) <=> U(j + 4))
  BY FeedbackBits
<1> HIDE DEF r1, r2, r3, r4, r5, r6, r7, r8, f
<1>11. /\ r \in Word16
       /\ \A j \in 0 .. 4 : (j \in r) <=> (j \in f)
       /\ \A j \in 5 .. 7 : (j \in r) <=> ~((j \in f) <=> (j - 5 \in f))
       /\ \A j \in 8 .. 11 : (j \in r) <=> ~((j - 8 \in c) <=> (j - 5 \in f))
       /\ (12 \in r) <=> ~((4 \in c) <=> ~((7 \in f) <=> (0 \in f)))
       /\ \A j \in 13 .. 15 : (j \in r) <=> ~((j - 8 \in c) <=> (j - 12 \in f))
  BY <1>10, MixedBits
<1> HIDE DEF r
<1>12. /\ (7 \in f) <=> ~((15 \in c) <=> (7 \in d))
       /\ (6 \in f) <=> ~((14 \in c) <=> (6 \in d))
       /\ (5 \in f) <=> ~((13 \in c) <=> (5 \in d))
       /\ (4 \in f) <=> ~((12 \in c) <=> (4 \in d))
       /\ (3 \in f) <=> ~(~((11 \in c) <=> (3 \in d)) <=> (7 \in f))
       /\ (2 \in f) <=> ~(~((10 \in c) <=> (2 \in d)) <=> (6 \in f))
       /\ (1 \in f) <=> ~(~((9 \in c) <=> (1 \in d)) <=> (5 \in f))
       /\ (0 \in f) <=> ~(~((8 \in c) <=> (0 \in d)) <=> (4 \in f))
  BY <1>10
<1>13. /\ ~((15 \in c) <=> (7 \in d)) <=> (7 \in f)
       /\ ~((15 \in r1) <=> (6 \in d)) <=> (6 \in f)
       /\ ~((15 \in r2) <=> (5 \in d)) <=> (5 \in f)
       /\ ~((15 \in r3) <=> (4 \in d)) <=> (4 \in f)
       /\ ~((15 \in r4) <=> (3 \in d)) <=> (3 \in f)
       /\ ~((15 \in r5) <=> (2 \in d)) <=> (2 \in f)
       /\ ~((15 \in r6) <=> (1 \in d)) <=> (1 \in f)
       /\ ~((15 \in r7) <=> (0 \in d)) <=> (0 \in f)
  BY <1>1, <1>2, <1>3, <1>4, <1>5, <1>6, <1>7, <1>12 DEF Shifted
<1>14. /\ Shifted(r1, c, 7 \in f) /\ Shifted(r2, r1, 6 \in f)
       /\ Shifted(r3, r2, 5 \in f) /\ Shifted(r4, r3, 4 \in f)
       /\ Shifted(r5, r4, 3 \in f) /\ Shifted(r6, r5, 2 \in f)
       /\ Shifted(r7, r6, 1 \in f) /\ Shifted(r8, r7, 0 \in f)
  BY <1>1, <1>2, <1>3, <1>4, <1>5, <1>6, <1>7, <1>8, <1>13 DEF Shifted
<1>15. /\ (0 \in r8 <=> 0 \in f) /\ (1 \in r8 <=> 1 \in f) /\ (2 \in r8 <=> 2 \in f)
       /\ (3 \in r8 <=> 3 \in f) /\ (4 \in r8 <=> 4 \in f)
       /\ 5 \in r8 <=> ~(5 \in f <=> 0 \in f)
       /\ 6 \in r8 <=> ~(6 \in f <=> 1 \in f)
       /\ 7 \in r8 <=> ~(7 \in f <=> 2 \in f)
       /\ 8 \in r8 <=> ~(0 \in c <=> 3 \in f)
       /\ 9 \in r8 <=> ~(1 \in c <=> 4 \in f)
       /\ 10 \in r8 <=> ~(2 \in c <=> 5 \in f)
       /\ 11 \in r8 <=> ~(3 \in c <=> 6 \in f)
       /\ 12 \in r8 <=> ~(4 \in c <=> ~(7 \in f <=> 0 \in f))
       /\ 13 \in r8 <=> ~(5 \in c <=> 1 \in f)
       /\ 14 \in r8 <=> ~(6 \in c <=> 2 \in f)
       /\ 15 \in r8 <=> ~(7 \in c <=> 3 \in f)
  BY <1>14 DEF Shifted
<1>16. \A j \in 0 .. 15 : j \in r8 <=> j \in r
  BY <1>11, <1>15
<1> QED BY <1>8, <1>9, <1>11, <1>16, WordsEqual DEF r, f

(* The low byte of the new register gives away what was fed back, and the  *)
(* whole of it the old register's low byte.                                *)
LEMMA MixedBack ==
  ASSUME NEW c \in Word16, NEW f \in Byte8, NEW c2 \in Word16, NEW f2 \in Byte8
  PROVE  /\ (Mixed(c, f) \intersect 0 .. 7 = Mixed(c2, f2) \intersect 0 .. 7) => f = f2
         /\ Mixed(c, f) = Mixed(c2, f2) => c \intersect 0 .. 7 = c2 \intersect 0 .. 7
<1> DEFINE r == Mixed(c, f)
           q == Mixed(c2, f2)
<1>1. /\ \A j \in 0 .. 4 : (j \in r) <=> (j \in f)
      /\ \A j \in 5 .. 7 : (j \in r) <=> ~((j \in f) <=> (j - 5 \in f))
      /\ \A j \in 8 .. 11 : (j \in r) <=> ~((j - 8 \in c) <=> (j - 5 \in f))
      /\ (12 \in r) <=> ~((4 \in c) <=> ~((7 \in f) <=> (0 \in f)))
      /\ \A j \in 13 .. 15 : (j \in r) <=> ~((j - 8 \in c) <=> (j - 12 \in f))
  BY MixedBits
<1>2. /\ \A j \in 0 .. 4 : (j \in q) <=> (j \in f2)
      /\ \A j \in 5 .. 7 : (j \in q) <=> ~((j \in f2) <=> (j - 5 \in f2))
      /\ \A j \in 8 .. 11 : (j \in q) <=> ~((j - 8 \in c2) <=> (j - 5 \in f2))
      /\ (12 \in q) <=> ~((4 \in c2) <=> ~((7 \in f2) <=> (0 \in f2)))
      /\ \A j \in 13 .. 15 : (j \in q) <=> ~((j - 8 \in c2) <=> (j - 12 \in f2))
  BY MixedBits
<1> HIDE DEF r, q
<1>3. ASSUME r \intersect 0 .. 7 = q \intersect 0 .. 7 PROVE f = f2
  <2>1. \A j \in 0 .. 7 : j \in r <=> j \in q
    BY <1>3
  <2>2. \A j \in 0 .. 4 : j \in f <=> j \in f2
    BY <1>1, <1>2, <2>1
  <2>3. \A j \in 5 .. 7 : j \in f <=> j \in f2
    <3>1. \A j \in 5 .. 7 : j \in 0 .. 7 /\ j - 5 \in 0 .. 4
      OBVIOUS
    <3>2. \A j \in 5 .. 7 : (j - 5 \in f) <=> (j - 5 \in f2)
      BY <2>2, <3>1
    <3> QED BY <1>1, <1>2, <2>1, <3>1, <3>2
  <2>4. \A j \in 0 .. 7 : j \in f <=> j \in f2
    BY <2>2, <2>3
  <2> QED BY <2>4 DEF Byte8
<1>4. ASSUME r = q PROVE c \intersect 0 .. 7 = c2 \intersect 0 .. 7
  <2>1. f = f2
    BY <1>3, <1>4
  <2>2. \A k \in 0 .. 3 : k \in c <=> k \in c2
    <3> SUFFICES ASSUME NEW k \in 0 .. 3 PROVE k \in c <=> k \in c2
      OBVIOUS
    <3>1. k + 8 \in 8 .. 11 /\ (k + 8) - 8 = k
      OBVIOUS
    <3> QED BY <1>1, <1>2, <1>4, <2>1, <3>1
  <2>3. 4 \in c <=> 4 \in c2
    BY <1>1, <1>2, <1>4, <2>1
  <2>4. \A k \in 5 .. 7 : k \in c <=> k \in c2
    <3> SUFFICES ASSUME NEW k \in 5 .. 7 PROVE k \in c <=> k \in c2
      OBVIOUS
    <3>1. k + 8 \in 13 .. 15 /\ (k + 8) - 8 = k
      OBVIOUS
    <3> QED BY <1>1, <1>2, <1>4, <2>1, <3>1
  <2>5. \A k \in 0 .. 7 : k \in c <=> k \in c2
    BY <2>2, <2>3, <2>4
  <2> QED BY <2>5
<1> QED BY <1>3, <1>4 DEF r, q

(* What was fed back gives away the sum of the high byte and the data. *)
LEMMA FeedbackBack ==
  ASSUME NEW c \in Word16, NEW d \in Byte8, NEW c2 \in Word16, NEW d2 \in Byte8,
         Feedback(c, d) = Feedback(c2, d2)
  PROVE  \A j \in 0 .. 7 : ((j + 8 \in c) <=> (j \in d)) <=> ((j + 8 \in c2) <=> (j \in d2))
<1> DEFINE f == Feedback(c, d)
           U(j) == ~((j + 8 \in c) <=> (j \in d))
           V(j) == ~((j + 8 \in c2) <=> (j \in d2))
<1>1. /\ \A j \in 4 .. 7 : (j \in f) <=> U(j)
      /\ \A j \in 0 .. 3 : (j \in f) <=> ~(U(j) <=> U(j + 4))
  BY FeedbackBits
<1>2. /\ \A j \in 4 .. 7 : (j \in f) <=> V(j)
      /\ \A j \in 0 .. 3 : (j \in f) <=> ~(V(j) <=> V(j + 4))
  BY FeedbackBits
<1> HIDE DEF f
<1>3. \A j \in 4 .. 7 : U(j) <=> V(j)
  BY <1>1, <1>2
<1>4. \A j \in 0 .. 3 : j + 4 \in 4 .. 7
  OBVIOUS
<1> HIDE DEF U, V
<1>5. \A j \in 0 .. 3 : U(j) <=> V(j)
  BY <1>1, <1>2, <1>3, <1>4
<1>6. \A j \in 0 .. 7 : U(j) <=> V(j)
  BY <1>3, <1>5
<1> QED BY <1>6 DEF U, V

(* A checksum has 16 bits. *)
LEMMA CrcType == ASSUME NEW c \in Word16, NEW d \in Byte8 PROVE crc16(c, d) \in Word16
<1>1. Feedback(c, d) \in Byte8
  BY FeedbackBits
<1>2. Mixed(c, Feedback(c, d)) \in Word16
  BY <1>1, MixedBits
<1> QED BY <1>2, CrcForm

(* Different registers stay different whatever the same data do to both. *)
LEMMA CrcFollows ==
  ASSUME NEW c \in Word16, NEW c2 \in Word16, NEW d \in Byte8, crc16(c, d) = crc16(c2, d)
  PROVE  c = c2
<1>1. Feedback(c, d) \in Byte8 /\ Feedback(c2, d) \in Byte8
  BY FeedbackBits
<1>2. Mixed(c, Feedback(c, d)) = Mixed(c2, Feedback(c2, d))
  BY CrcForm
<1>3. Feedback(c, d) = Feedback(c2, d) /\ c \intersect 0 .. 7 = c2 \intersect 0 .. 7
  BY <1>1, <1>2, MixedBack
<1>4. \A j \in 0 .. 7 : (j + 8 \in c) <=> (j + 8 \in c2)
  BY <1>3, FeedbackBack
<1>5. \A j \in 8 .. 15 : (j \in c) <=> (j \in c2)
  <2> SUFFICES ASSUME NEW j \in 8 .. 15 PROVE (j \in c) <=> (j \in c2)
    OBVIOUS
  <2>1. j - 8 \in 0 .. 7 /\ (j - 8) + 8 = j
    OBVIOUS
  <2> QED BY <1>4, <2>1
<1>6. \A j \in 0 .. 7 : (j \in c) <=> (j \in c2)
  BY <1>3
<1>7. \A j \in 0 .. 15 : (j \in c) <=> (j \in c2)
  BY <1>5, <1>6
<1> QED BY <1>7, WordsEqual

(* Different data show in the low byte of the register. *)
LEMMA CrcDiffers ==
  ASSUME NEW c \in Word16, NEW d \in Byte8, NEW d2 \in Byte8, d # d2
  PROVE  crc16(c, d) \intersect 0 .. 7 # crc16(c, d2) \intersect 0 .. 7
<1> SUFFICES ASSUME crc16(c, d) \intersect 0 .. 7 = crc16(c, d2) \intersect 0 .. 7 PROVE FALSE
  OBVIOUS
<1>1. Feedback(c, d) \in Byte8 /\ Feedback(c, d2) \in Byte8
  BY FeedbackBits
<1>2. /\ crc16(c, d) = Mixed(c, Feedback(c, d))
      /\ crc16(c, d2) = Mixed(c, Feedback(c, d2))
  BY CrcForm
<1>3. Feedback(c, d) = Feedback(c, d2)
  BY <1>1, <1>2, MixedBack
<1>4. \A j \in 0 .. 7 : (j \in d) <=> (j \in d2)
  BY <1>3, FeedbackBack
<1> QED BY <1>4 DEF Byte8

(* A difference in the low byte survives any data that follow. *)
LEMMA CrcKeepsLow ==
  ASSUME NEW c \in Word16, NEW c2 \in Word16, NEW d \in Byte8, NEW d2 \in Byte8,
         crc16(c, d) = crc16(c2, d2)
  PROVE  c \intersect 0 .. 7 = c2 \intersect 0 .. 7
<1>1. Feedback(c, d) \in Byte8 /\ Feedback(c2, d2) \in Byte8
  BY FeedbackBits
<1>2. Mixed(c, Feedback(c, d)) = Mixed(c2, Feedback(c2, d2))
  BY CrcForm
<1> QED BY <1>1, <1>2, MixedBack

(* The inductive invariant.  Directly after the first damaged byte the low *)
(* bytes differ, which the next byte, damaged or not, cannot undo.         *)
CrcInv == /\ crc \in Word16 /\ crc2 \in Word16
          /\ crc = rem
          /\ hit \in {"no", "now", "past"}
          /\ hit = "no" => crc2 = crc
          /\ hit = "now" => crc2 \intersect 0 .. 7 # crc \intersect 0 .. 7
          /\ hit = "past" => crc2 # crc

(* A byte keeps it. *)
LEMMA CrcStep == ASSUME CrcInv, [CrcNext]_crcvars PROVE CrcInv'
<1>1. CASE UNCHANGED crcvars
  BY <1>1 DEF CrcInv, crcvars
<1>2. CASE CrcNext
  <2>1. PICK d, d2 \in Bytes : Feed(d, d2)
    BY <1>2 DEF CrcNext
  <2>2. d \in Byte8 /\ d2 \in Byte8
    BY BytesAssumption DEF Byte8
  <2>3. crc' = crc16(crc, d) /\ crc2' = crc16(crc2, d2) /\ rem' = Divide(Poly16, 16, rem, d)
    BY <2>1 DEF Feed
  <2>4. crc' \in Word16 /\ crc2' \in Word16
    BY <2>2, <2>3, CrcType DEF CrcInv
  <2>5. crc' = rem'
    BY <2>2, <2>3, CrcForm, DivideForm DEF CrcInv
  <2>6. CASE hit = "no" /\ d2 = d
    <3>1. hit' = "no"
      BY <2>1, <2>6 DEF Feed
    <3> QED BY <2>3, <2>4, <2>5, <2>6, <3>1 DEF CrcInv
  <2>7. CASE hit = "no" /\ d2 # d
    <3>1. hit' = "now"
      BY <2>1, <2>7 DEF Feed
    <3>2. crc2' \intersect 0 .. 7 # crc' \intersect 0 .. 7
      BY <2>2, <2>3, <2>7, CrcDiffers DEF CrcInv
    <3> QED BY <2>4, <2>5, <3>1, <3>2 DEF CrcInv
  <2>8. CASE hit = "now"
    <3>1. hit' = "past"
      BY <2>1, <2>8 DEF Feed
    <3>2. crc2' # crc'
      BY <2>2, <2>3, <2>8, CrcKeepsLow DEF CrcInv
    <3> QED BY <2>4, <2>5, <3>1, <3>2 DEF CrcInv
  <2>9. CASE hit = "past"
    <3>1. hit' = "past" /\ d2 = d
      BY <2>1, <2>9 DEF Feed
    <3>2. crc2' # crc'
      BY <2>2, <2>3, <2>9, <3>1, CrcFollows DEF CrcInv
    <3> QED BY <2>4, <2>5, <3>1, <3>2 DEF CrcInv
  <2> QED BY <2>6, <2>7, <2>8, <2>9 DEF CrcInv
<1> QED BY <1>1, <1>2

(* crc16 computes, for a block of any length and contents, the remainder   *)
(* by the polynomial that its comment names.                               *)
THEOREM CrcExact == CrcSpec => []Crc16IsRemainder
<1>1. CrcInit => CrcInv
  BY DEF CrcInit, CrcInv, Word16
<1>2. CrcInv => Crc16IsRemainder
  BY DEF CrcInv, Crc16IsRemainder
<1> QED BY <1>1, <1>2, CrcStep, PTL DEF CrcSpec

(* Damage to one byte or to two bytes in a row changes the checksum that   *)
(* sd_copy compares, for a block of any length and contents, however many  *)
(* bytes follow.                                                           *)
THEOREM DamageSeen == CrcSpec => []DamageShows
<1>1. CrcInit => CrcInv
  BY DEF CrcInit, CrcInv, Word16
<1>2. CrcInv => DamageShows
  BY DEF CrcInv, DamageShows
<1> QED BY <1>1, <1>2, CrcStep, PTL DEF CrcSpec
=============================================================================
