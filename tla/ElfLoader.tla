----------------------------- MODULE ElfLoader ------------------------------
(***************************************************************************)
(* The testbench's ELF loader (elfloader.cc): read_elf collects the        *)
(* loadable segments of a program, and the testbench fetches them one by   *)
(* one, with get_section and read_section, to preload the main memory.     *)
(*                                                                         *)
(* A program is a record: what the asserts ask of the file, its program    *)
(* headers and its section headers.  Addresses count bytes.  ariane_tb.sv  *)
(* keeps bits 23..0 of them, which span more than its memory has; its      *)
(* memory's model (tc_sram.sv) starts from init_val, which is what is      *)
(* preloaded, and copies it at every edge in reset.                        *)
(***************************************************************************)
EXTENDS Integers, Sequences, FiniteSets

CONSTANTS Programs,   \* the files read_elf may be given
          Base,       \* the DRAM's address, 0x80000000
          Size,       \* its bytes: 512 KB in ariane_tb.sv, 256 MB in ariane_tb.cpp
          Span,       \* addresses told apart by the mask [23:0]: 16 MB
          RowBytes    \* bytes in a row of the memory: 8

ASSUME RowAssumption == /\ RowBytes \in Nat \ {0} /\ Size \in Nat \ {0} /\ Base \in Nat
                        /\ Span \in Nat \ {0} /\ Span % RowBytes = 0

Segment == [load : BOOLEAN, addr : Nat, data : Seq(Nat), memsz : Nat]

(* What the ELF format says of a file: no segment has more bytes in it     *)
(* than in memory, and a string table's type, SHT_STRTAB, is 3.            *)
ASSUME ProgramsAssumption ==
  \A f \in Programs : /\ f.ph \in Seq(Segment)
                      /\ \A i \in DOMAIN f.ph : Len(f.ph[i].data) <= f.ph[i].memsz
                      /\ \A i \in DOMAIN f.sh : f.sh[i].name = ".strtab" => f.sh[i].type = 3

VARIABLES sections,        \* address and memory size of the segments found,
                           \* by their place in the program headers
          mems,            \* their contents, by address
          section_index,   \* the place of the section handed out last, or 0
          mem, init_val,   \* the main memory and what its model starts from
          last_row         \* the row the testbench wrote last

elfvars == <<sections, mems, section_index, mem, init_val, last_row>>

Garbage == 9
NoRow == -1

ElfInit == /\ sections = <<>> /\ mems = <<>> /\ section_index = 0
           /\ mem = [b \in 0 .. Size - 1 |-> Garbage]
           /\ init_val = [b \in 0 .. Size - 1 |-> 0]
           /\ last_row = NoRow

-----------------------------------------------------------------------------
(* The asserts on the file and its headers. *)
WellFormed(f) == f.opens /\ f.elf /\ f.fits

(* Where the loop over the section headers finds the two tables: types     *)
(* with bit 0 set are skipped, and a string table's type is 3.             *)
Table(f, name) == {i \in DOMAIN f.sh : f.sh[i].name = name /\ f.sh[i].type % 2 = 0}

(* The symbols are read only if both tables are found; they go to a local  *)
(* map, so that all that is left of them is the assert on their names.     *)
SymbolsFit(f) == Table(f, ".strtab") # {} /\ Table(f, ".symtab") # {} => f.names

(* The segments that have bytes in the file. *)
Loadable(f) == {i \in DOMAIN f.ph : f.ph[i].load /\ f.ph[i].memsz # 0 /\ f.ph[i].data # <<>>}

(* What write leaves at an address: map::insert keeps what is there, so    *)
(* that the first segment of an address stays.                             *)
write(f, a) == LET at == {i \in Loadable(f) : f.ph[i].addr = a}
               IN  f.ph[CHOOSE i \in at : \A j \in at : i <= j].data

read_elf(f) == /\ WellFormed(f) /\ SymbolsFit(f)
               /\ sections' = [i \in Loadable(f) |-> [addr |-> f.ph[i].addr, len |-> f.ph[i].memsz]]
               /\ mems' = [a \in {f.ph[i].addr : i \in Loadable(f)} |-> write(f, a)]
               /\ UNCHANGED <<section_index, mem, init_val, last_row>>

(* read_elf aborts the process. *)
ReadElfAborts(f) == ~(WellFormed(f) /\ SymbolsFit(f)) /\ UNCHANGED elfvars

(* get_section hands out the next section. *)
Waiting == {i \in DOMAIN sections : i > section_index}
get_section == section_index' \in Waiting /\ \A i \in Waiting : section_index' <= i
NoMoreSections == Waiting = {}

Current == sections[section_index']
read_section(a) == mems[a]

-----------------------------------------------------------------------------
(* ariane_tb.cpp: only the section at the DRAM's address is copied, by a   *)
(* read_section_void that this repository does not define.                 *)
PreloadBase ==
  /\ get_section
  /\ mem' = IF Current.addr # Base THEN mem
            ELSE LET d == read_section(Base)
                 IN  [b \in DOMAIN mem |-> IF b < Len(d) THEN d[b + 1] ELSE mem[b]]
  /\ UNCHANGED <<sections, mems, init_val, last_row>>

(* ariane_tb.sv: every section is copied row by row, to init_val, from a   *)
(* buffer that is zero after the section's bytes; a row that was the last  *)
(* one written is left alone, and a row the memory does not have is lost.  *)
PreloadRows ==
  /\ get_section
  /\ LET d == read_section(Current.addr)
         num_words == (Current.len + RowBytes - 1) \div RowBytes
         buffer == [k \in 0 .. num_words * RowBytes - 1 |-> IF k < Len(d) THEN d[k + 1] ELSE 0]
         first == (Current.addr % Span) \div RowBytes
         from == IF first = last_row THEN first + 1 ELSE first
     IN  /\ init_val' = [b \in DOMAIN init_val |->
                           LET r == b \div RowBytes
                           IN  IF from <= r /\ r < first + num_words
                               THEN buffer[b - first * RowBytes] ELSE init_val[b]]
         /\ last_row' = IF from < first + num_words THEN first + num_words - 1 ELSE last_row
  /\ UNCHANGED <<sections, mems, mem>>

(* A rising edge in reset. *)
ResetSram == mem' = init_val /\ UNCHANGED <<sections, mems, section_index, init_val, last_row>>

-----------------------------------------------------------------------------
(* What ariane_tb.cpp makes of the memory: the section at the DRAM's       *)
(* address, if there is one, and nothing else.                             *)
BaseImage(f) == LET d == IF \E i \in Loadable(f) : f.ph[i].addr = Base THEN write(f, Base) ELSE <<>>
                IN  [b \in 0 .. Size - 1 |-> IF b < Len(d) THEN d[b + 1] ELSE Garbage]

Rows(p) == {((p.addr % Span) + k) \div RowBytes : k \in 0 .. p.memsz - 1}

(* Segment i starts on a row and at an address of its own, and a byte of   *)
(* the memory is in a row of no other segment.                             *)
Placed(f, i) == /\ f.ph[i].addr % RowBytes = 0
                /\ \A j \in Loadable(f) \ {i} : f.ph[j].addr # f.ph[i].addr
Alone(f, i, b) == b < Size /\ \A j \in Loadable(f) \ {i} : b \div RowBytes \notin Rows(f.ph[j])

(* Memory m has the bytes of segment i that are in it and share no row:    *)
(* the file's, then zeros.                                                 *)
Holds(m, f, i) ==
  \A k \in 0 .. f.ph[i].memsz - 1 :
    LET b == (f.ph[i].addr % Span) + k
    IN  Alone(f, i, b) => m[b] = IF k < Len(f.ph[i].data) THEN f.ph[i].data[k + 1] ELSE 0
=============================================================================
