---------------------------- MODULE MCTestbench -----------------------------
(* Constants of the run of Testbench: a DRAM of twelve bytes in rows of    *)
(* two, addresses that tell twenty-four apart, and programs and command    *)
(* lines of every kind the code tells apart.                               *)
EXTENDS Testbench

MCBase == 48
Seg(a, d, m) == [load |-> TRUE, addr |-> MCBase + a, data |-> d, memsz |-> m]
Tables == <<[name |-> ".symtab", type |-> 2], [name |-> ".strtab", type |-> 3]>>
File(ph) == [opens |-> TRUE, elf |-> TRUE, fits |-> TRUE, names |-> TRUE, sh |-> Tables, ph |-> ph]

MCPrograms == {
  File(<<Seg(0, <<1, 2, 3>>, 5), Seg(8, <<4>>, 3)>>),
  File(<<[Seg(2, <<>>, 0) EXCEPT !.load = FALSE], Seg(6, <<5, 6>>, 2), Seg(0, <<1, 2, 3, 4>>, 4)>>),
  File(<<Seg(0, <<1, 2, 3>>, 3), Seg(2, <<7>>, 1), Seg(6, <<8>>, 2)>>),
  File(<<Seg(10, <<1, 2, 3>>, 4), Seg(20, <<4>>, 1), Seg(24, <<5, 6, 7>>, 3)>>),
  [File(<<Seg(0, <<1>>, 1)>>) EXCEPT !.fits = FALSE]}

MCLines == {
  <<Binary>>, <<"-p", "-v", Binary>>, <<"-v -", Binary, "x">>,
  <<"-f", "-m", "+verbose", "+time_out", Binary>>, <<"+jtag_rbb_enable", Binary>>,
  <<"+elf_file">>, <<"+elf_file", "+jtag_rbb_enable">>,
  <<"+permissive", "+other", "+permissive-off", "+elf_file", "++arg">>,
  <<>>, <<"-h">>, <<"-c", "-?">>, <<"--signature", Binary>>,
  <<"-p", "+signature", Binary>>, <<"+other", Binary>>,
  <<"-s", "+permissive", "+time_out", "+permissive-off", Binary, "++arg">>}
=============================================================================
