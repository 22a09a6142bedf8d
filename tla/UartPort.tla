------------------------------ MODULE UartPort ------------------------------
(***************************************************************************)
(* The boot ROMs' UART driver (uart.c): init_uart, the print functions,    *)
(* and the progress line that OpenPiton's sd_copy keeps up to date with    *)
(* backspaces.  Characters are bytes; every fixed text is one letter.      *)
(* The UART and the terminal behind it are external.                       *)
(***************************************************************************)
EXTENDS Naturals, Sequences, FiniteSets

CONSTANTS Freq, Baud,   \* init_uart's arguments
          Values,       \* numbers printed by print_uart_dec
          Words,        \* numbers printed in hexadecimal: byte sequences, low byte first
          Sizes,        \* sizes sd_copy is called with, in blocks
          Period,       \* blocks between two updates of the progress line: 100
          Word          \* 2^32: values of a uint32_t

(* The divisor fits the UART's two registers of one byte. *)
ASSUME BaudAssumption == /\ Freq \in Nat /\ Baud \in Nat \ {0}
                         /\ Freq \div (Baud * 16) < 65536
(* A uint32_t has at most ten digits. *)
ASSUME ValuesAssumption == /\ Word \in Nat /\ Word \div 10 < 1000000000
                           /\ Values \subseteq 0 .. Word - 1
                           /\ Words \subseteq Seq(0 .. 255)
(* The percentage is computed in 32 bits: the partition is below 22 GB. *)
ASSUME SizesAssumption == /\ Sizes \subseteq Nat \ {0} /\ Period \in Nat \ {0}
                          /\ \A n \in Sizes : n * 100 < Word

VARIABLES dlab, lsb, msb,   \* the UART's divisor registers and the bit that uncovers them
          thr,              \* its transmit holding register: at most one byte
          row, col,         \* the terminal's last line and its cursor
          upc,              \* where the driver is
          todo,             \* the print calls still to be made
          arg, out,         \* what is being printed; what has been written of it
          num_chars, blk, size   \* variables of sd_copy

uart == <<dlab, lsb, msb, thr>>
term == <<row, col>>
copy == <<blk, size>>
uvars == <<uart, term, upc, todo, arg, out, num_chars, copy>>

Backspace == 8
CrLf == <<13, 10>>
Letter == 116
None == [k |-> "none"]

(* The calls: print_uart, the loop of backspaces, print_uart_dec, and the  *)
(* three functions that print 4, 8 or 1 bytes in hexadecimal.              *)
Str(s) == [k |-> "str", s |-> s]
Erase(n) == [k |-> "erase", n |-> n]
Dec(v, d) == [k |-> "dec", val |-> v, digits |-> d, i |-> 9, pow |-> 1000000000]
Hex(bytes) == [k |-> "hex", bytes |-> bytes, left |-> 2 * Len(bytes)]   \* digits left

UartInit == /\ dlab = FALSE /\ lsb = 0 /\ msb = 0 /\ thr = <<>>
            /\ row = <<>> /\ col = 0
            /\ upc = "reset" /\ todo = <<>> /\ arg = None /\ out = <<>>
            /\ num_chars = 0 /\ blk = 0 /\ size = 0

-----------------------------------------------------------------------------
(* The terminal takes the byte of the holding register. *)
Receive == /\ thr # <<>>
           /\ thr' = <<>>
           /\ LET c == Head(thr) IN
              CASE c = Backspace -> col' = col - 1 /\ UNCHANGED row
                [] c = 13 -> col' = 0 /\ UNCHANGED row
                [] c = 10 -> row' = <<>> /\ UNCHANGED col
                [] OTHER -> /\ col' = col + 1
                            /\ row' = IF col < Len(row) THEN [row EXCEPT ![col + 1] = c]
                                                        ELSE Append(row, c)
           /\ UNCHANGED <<dlab, lsb, msb, upc, todo, arg, out, num_chars, copy>>

(* The registers at the UART's base: the transmitter, or the low byte of   *)
(* the divisor while dlab is set.                                          *)
WriteBase(v) == IF dlab THEN lsb' = v /\ UNCHANGED thr
                        ELSE thr' = <<v>> /\ UNCHANGED lsb

divisor == Freq \div (Baud * 16)

(* A fault: the line control register is not written a second time. *)
init_uart_open ==
  \/ /\ upc = "reset" /\ dlab' = TRUE
     /\ upc' = "lsb" /\ UNCHANGED <<lsb, msb, thr>>
  \/ /\ upc = "lsb" /\ WriteBase(divisor % 256)
     /\ upc' = "msb" /\ UNCHANGED <<dlab, msb>>
  \/ /\ upc = "msb" /\ msb' = (divisor \div 256) % 256
     /\ upc' = "ready" /\ UNCHANGED <<dlab, lsb, thr>>

(* init_uart: dlab is set, the divisor written byte by byte, dlab cleared. *)
init_uart ==
  \/ /\ upc = "reset" /\ dlab' = TRUE
     /\ upc' = "lsb" /\ UNCHANGED <<lsb, msb, thr>>
  \/ /\ upc = "lsb" /\ WriteBase(divisor % 256)
     /\ upc' = "msb" /\ UNCHANGED <<dlab, msb>>
  \/ /\ upc = "msb" /\ msb' = (divisor \div 256) % 256
     /\ upc' = "lcr" /\ UNCHANGED <<dlab, lsb, thr>>
  \/ /\ upc = "lcr" /\ dlab' = FALSE
     /\ upc' = "ready" /\ UNCHANGED <<lsb, msb, thr>>

Initialise == init_uart /\ UNCHANGED <<term, todo, arg, out, num_chars, copy>>

-----------------------------------------------------------------------------
(* Bit 5 of the line status register. *)
is_transmit_empty == thr = <<>>

(* A fault: the status bit is taken for "full". *)
write_serial_inverted(a) == ~is_transmit_empty /\ WriteBase(a)

(* write_serial: waits until the holding register is empty. *)
write_serial(a) == is_transmit_empty /\ WriteBase(a)

(* One more character; p replaces the call at the head of todo. *)
Put(a, p) == /\ write_serial(a)
             /\ out' = Append(out, a)
             /\ num_chars' = num_chars + 1
             /\ todo' = p \o Tail(todo)

(* Nothing is written. *)
Skip(p) == todo' = p \o Tail(todo) /\ UNCHANGED <<lsb, thr, out, num_chars>>

print_uart == LET p == Head(todo) IN
  /\ p.k = "str"
  /\ IF p.s = <<>> THEN Skip(<<>>) ELSE Put(Head(p.s), <<[p EXCEPT !.s = Tail(@)]>>)

(* for (k < num_chars) print_uart("\b"): not counted in num_chars, which   *)
(* starts again with the text that follows.                                *)
BackUp == LET p == Head(todo) IN
  /\ p.k = "erase"
  /\ IF p.n = 0
     THEN /\ todo' = Tail(todo) /\ num_chars' = 0 /\ out' = <<>>
          /\ UNCHANGED <<lsb, thr>>
     ELSE /\ write_serial(Backspace)
          /\ todo' = <<[p EXCEPT !.n = @ - 1]>> \o Tail(todo)
          /\ UNCHANGED <<out, num_chars>>

(* The digits are ASCII codes. *)
bin_to_hex_table == [n \in 0 .. 15 |-> IF n < 10 THEN 48 + n ELSE 55 + n]
bin_to_hex(b, low) == bin_to_hex_table[IF low THEN b % 16 ELSE (b \div 16) % 16]

(* One round of print_uart_dec's loop, which leaves digits at d if a digit *)
(* is printed.                                                             *)
DecRound(d) == LET p == Head(todo)
                   cur == p.val \div p.pow
                   q(e) == IF p.i = 0 THEN <<>> ELSE
                           <<[k |-> "dec", val |-> p.val - cur * p.pow, digits |-> e,
                              i |-> p.i - 1, pow |-> p.pow \div 10]>>
               IN  IF cur # 0 \/ p.i < p.digits THEN Put(bin_to_hex_table[cur % 16], q(d))
                                               ELSE Skip(q(p.digits))

(* A fault: digits is not brought down to the first digit printed. *)
print_uart_dec_sparse == Head(todo).k = "dec" /\ DecRound(Head(todo).digits)

(* print_uart_dec.  A digit is printed once one before it was, because     *)
(* digits has been brought down to that one's place.                       *)
print_uart_dec == Head(todo).k = "dec" /\ DecRound(Head(todo).i)

(* print_uart_addr, print_uart_int and print_uart_byte: the highest byte   *)
(* first, and of each byte the high digit first.                           *)
print_uart_addr == LET p == Head(todo) IN
  /\ p.k = "hex"
  /\ IF p.left = 0 THEN Skip(<<>>)
     ELSE Put(bin_to_hex(p.bytes[(p.left + 1) \div 2], p.left % 2 = 1),
              <<[p EXCEPT !.left = @ - 1]>>)

(* A step of the call at the head of todo. *)
Printing == /\ upc \in {"print", "update", "end"} /\ todo # <<>>
            /\ print_uart \/ BackUp \/ print_uart_dec \/ print_uart_addr
            /\ UNCHANGED <<dlab, msb, term, upc, arg, copy>>

-----------------------------------------------------------------------------
(* A number printed on a line of its own. *)
PrintValue(p) == /\ upc = "ready"
                 /\ upc' = "print" /\ arg' = p /\ out' = <<>>
                 /\ todo' = <<p, Str(CrLf)>>
                 /\ UNCHANGED <<uart, term, num_chars, copy>>

(* sd_copy is called: no character of a progress line has been printed. *)
StartCopy(n) == /\ upc = "ready"
                /\ upc' = "copy" /\ num_chars' = 0 /\ blk' = 0 /\ size' = n
                /\ UNCHANGED <<uart, term, todo, arg, out>>

Percent == ((blk * 100) % Word) \div size

(* "copying block <blk> of <size> blocks (<percent> %)" *)
Line(n) == <<Erase(n), Str(<<Letter>>), Dec(blk, 1), Str(<<Letter>>),
             Dec(size, 1), Str(<<Letter>>), Dec(Percent, 1), Str(<<Letter>>)>>

(* A fault: the erasing loop leaves the first character. *)
Update_short == /\ upc = "copy" /\ blk < size /\ blk % Period = 0
                /\ upc' = "update"
                /\ todo' = Line(IF num_chars = 0 THEN 0 ELSE num_chars - 1)
                /\ UNCHANGED <<uart, term, arg, out, num_chars, copy>>

(* A new progress line goes over the old one. *)
Update == /\ upc = "copy" /\ blk < size /\ blk % Period = 0
          /\ upc' = "update"
          /\ todo' = Line(num_chars)
          /\ UNCHANGED <<uart, term, arg, out, num_chars, copy>>

(* A block is copied: after the update of the line, or without one. *)
NextBlock == /\ \/ upc = "update" /\ todo = <<>>
                \/ upc = "copy" /\ blk < size /\ blk % Period # 0
             /\ upc' = "copy" /\ blk' = blk + 1
             /\ UNCHANGED <<uart, term, todo, arg, out, num_chars, size>>

EndCopy == /\ upc = "copy" /\ blk = size
           /\ upc' = "end" /\ todo' = <<Str(CrLf)>>
           /\ UNCHANGED <<uart, term, arg, out, num_chars, copy>>

(* The function that printed returns; sd_copy's variables go with it. *)
Back == /\ upc \in {"print", "end"} /\ todo = <<>>
        /\ upc' = "ready"
        /\ num_chars' = 0 /\ arg' = None /\ out' = <<>> /\ blk' = 0 /\ size' = 0
        /\ UNCHANGED <<uart, term, todo>>

UartCall == \/ \E v \in Values, d \in 0 .. 3 : PrintValue(Dec(v, d))
            \/ \E w \in Words : PrintValue(Hex(w))
            \/ \E n \in Sizes : StartCopy(n)
UartStep == Initialise \/ Printing \/ Update \/ NextBlock \/ EndCopy \/ Back

-----------------------------------------------------------------------------
(* What a decimal or hexadecimal number looks like: the reference the      *)
(* print functions are compared with.                                      *)
Pow10 == <<1, 10, 100, 1000, 10000, 100000, 1000000, 10000000, 100000000, 1000000000>>
Numeral(v, d) ==
  LET digits == Cardinality({k \in 1 .. 10 : v >= Pow10[k]})
      n == IF digits > d THEN digits ELSE d
  IN  [j \in 1 .. n |-> 48 + ((v \div Pow10[n - j + 1]) % 10)]
HexNumeral(bytes) == [j \in 1 .. 2 * Len(bytes) |->
                        LET b == bytes[Len(bytes) - (j - 1) \div 2]
                        IN  bin_to_hex_table[IF j % 2 = 1 THEN b \div 16 ELSE b % 16]]
Progress(b) == <<Letter>> \o Numeral(b, 1) \o <<Letter>> \o Numeral(size, 1)
                 \o <<Letter>> \o Numeral((b * 100) \div size, 1) \o <<Letter>>

(* Once init_uart has returned the UART divides its clock by the number    *)
(* the driver computed, whatever is printed: the divisor shares its        *)
(* address with the transmit register.                                     *)
DivisorKept == upc \notin {"reset", "lsb", "msb", "lcr"} => lsb + 256 * msb = divisor

(* When a number has been printed, what was written is its numeral: no     *)
(* zero inside it is missing and none stands before it beyond the number   *)
(* of digits asked for.                                                    *)
PrintsNumeral == upc = "print" /\ todo = <<Str(CrLf)>> =>
                   out = IF arg.k = "dec" THEN Numeral(arg.val, arg.digits)
                                          ELSE HexNumeral(arg.bytes)

(* Between two updates the terminal shows the progress line of the last    *)
(* one and nothing else: the backspaces go back to its first character,    *)
(* and what they do not erase the new line covers.                         *)
ScreenShows == upc = "copy" /\ thr = <<>> /\ blk > 0 =>
                 row = Progress(((blk - 1) \div Period) * Period)

(* Every call of the driver returns. *)
PrintsEnd == upc # "ready" ~> upc = "ready"
=============================================================================
