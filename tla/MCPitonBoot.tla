---------------------------- MODULE MCPitonBoot ----------------------------
(* Instances of PitonBoot: cards of a few blocks. *)
EXTENDS PitonBoot

Blk(b, e, f, l) == [id |-> b, partition_entries_lba |-> e, first_lba |-> f,
                    last_lba |-> l]

(* A card whose header points to LBA e, with the entry f .. l in LBA 3; the *)
(* other blocks hold nothing the loader looks for.                          *)
Card(e, f, l) == [b \in 0 .. Capacity - 1 |->
                    CASE b = 1 -> Blk(1, e, 0, 0)
                      [] b = 3 -> Blk(3, 0, f, l)
                      [] OTHER -> Blk(b, 0, 0, 0)]

(* Partitions of two blocks up to the last, of one block, an empty range,   *)
(* entries past the card, and numbers that do not fit sd_copy's parameters. *)
MCDisks == {Card(3, 4, 5), Card(3, 2, 2), Card(3, 4, 3), Card(6, 0, 0),
            Card(11, 4, 5), Card(3, 12, 13)}

MCBlock == UNION {{d[a] : a \in 0 .. Capacity - 1} : d \in MCDisks}

MCNoBlock == Blk(99, 0, 0, 0)
=============================================================================
