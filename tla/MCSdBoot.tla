------------------------------ MODULE MCSdBoot ------------------------------
(* Instances of SdBoot: cards of a few blocks. *)
EXTENDS SdBoot

Blk(b, e, f, l) == [id |-> b, partition_entries_lba |-> e, first_lba |-> f,
                    last_lba |-> l]

(* A card of six blocks whose header points to LBA e, with the entry       *)
(* f .. l in LBA 2; the other blocks hold nothing the loader looks for.    *)
Disk(e, f, l) == [b \in 0 .. 5 |-> CASE b = 1 -> Blk(1, e, 0, 0)
                                     [] b = 2 -> Blk(2, 0, f, l)
                                     [] OTHER -> Blk(b, 0, 0, 0)]

(* Partitions of two blocks up to the last block, of one block, the unused *)
(* entry 0 .. 0, an empty range, a range that ends before it starts, and   *)
(* block numbers that do not fit sd_copy's parameter.                      *)
MCDisks == {Disk(2, 4, 5), Disk(2, 3, 3), Disk(2, 0, 0), Disk(2, 4, 3),
            Disk(2, 5, 2), Disk(10, 3, 4), Disk(2, 11, 12), Disk(7, 3, 4)}

MCDamaged == Blk(6, 0, 0, 0)
=============================================================================
