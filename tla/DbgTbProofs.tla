---------------------------- MODULE DbgTbProofs -----------------------------
(* Proofs about the debug module's simulation: for any heap and any         *)
(* sequence of system calls.                                                *)
EXTENDS DbgTb, TLAPS

Moves == [at : Int, n : Int]

(* No byte of the heap at or past the break belongs to a block, unless the  *)
(* program has gone back since the block was handed out.                    *)
BelowBreak == \A i \in DOMAIN moves : Forward(i, Len(moves)) =>
                \A x \in Bytes(moves[i]) : x < HeapSize => x < brk
HeapInv == brk \in Int /\ moves \in Seq(Moves) /\ BelowBreak /\ HeapApart

LEMMA HeapStart == DbgInit => HeapInv
BY DEF DbgInit, HeapInv, HeapApart, BelowBreak

(* A move that is appended: the break stays above the blocks, and the new   *)
(* block lies above the old break.                                          *)
LEMMA HeapMove ==
  ASSUME HeapInv, NEW m \in Moves, moves' = Append(moves, m), brk' \in Int,
         m.n >= 0 => /\ \A x \in Bytes(m) : x >= brk /\ (x < HeapSize => x < brk')
                     /\ \A x \in Int : x < brk /\ x < HeapSize => x < brk'
  PROVE  HeapInv'
<1>0. HeapSize \in Nat /\ brk \in Int
  BY HeapAssumption DEF HeapInv
<1>1. PICK L \in Nat : L = Len(moves)
  BY DEF HeapInv
<1>2. /\ moves' \in Seq(Moves) /\ Len(moves') = L + 1 /\ DOMAIN moves' = 1 .. L + 1 /\ DOMAIN moves = 1 .. L
      /\ moves'[L + 1] = m
      /\ \A i \in 1 .. L : moves'[i] = moves[i] /\ moves[i] \in Moves
  BY <1>1 DEF HeapInv
<1>3. \A i \in 1 .. L : \A x \in Bytes(moves[i]) : x \in Int
  BY <1>2 DEF Bytes, Moves
<1>4. ASSUME NEW i \in 1 .. L, \A k \in i .. L : moves[k].n >= 0
      PROVE  \A x \in Bytes(moves[i]) : x < HeapSize => x < brk
  BY <1>1, <1>2, <1>4 DEF HeapInv, BelowBreak, Forward
<1>5. ASSUME NEW i \in 1 .. L, NEW j \in i .. L + 1, \A k \in i .. j : moves'[k].n >= 0
      PROVE  /\ j = L + 1 => m.n >= 0 /\ \A k \in i .. L : moves[k].n >= 0
             /\ j <= L => \A k \in i .. j : moves[k].n >= 0
  <2>1. \A k \in i .. j : k <= L => moves[k].n >= 0
    BY <1>2, <1>5
  <2>2. j = L + 1 => m.n >= 0
    BY <1>2, <1>5
  <2> QED BY <2>1, <2>2
<1>6. BelowBreak'
  <2> SUFFICES ASSUME NEW i \in 1 .. L + 1, \A k \in i .. L + 1 : moves'[k].n >= 0,
                      NEW x \in Bytes(moves'[i]), x < HeapSize
               PROVE  x < brk'
    BY <1>2 DEF BelowBreak, Bytes, Forward
  <2>1. CASE i = L + 1
    <3>1. moves'[i] = m /\ m.n >= 0
      BY <1>2, <2>1
    <3> QED BY <3>1
  <2>2. CASE i \in 1 .. L
    <3>1. m.n >= 0 /\ \A k \in i .. L : moves[k].n >= 0
      <4>1. L + 1 \in i .. L + 1
        BY <2>2
      <4> QED BY <1>5, <2>2, <4>1
    <3>2. x \in Bytes(moves[i]) /\ x \in Int
      BY <1>2, <1>3, <2>2
    <3> QED BY <1>4, <2>2, <3>1, <3>2
  <2> QED BY <2>1, <2>2
<1>7. HeapApart'
  <2> SUFFICES ASSUME NEW i \in 1 .. L + 1, NEW j \in 1 .. L + 1, i < j,
                      \A k \in i .. j : moves'[k].n >= 0
               PROVE  Bytes(moves'[i]) \cap Bytes(moves'[j]) \cap Heap = {}
    BY <1>2 DEF HeapApart, Bytes, Heap, Forward
  <2>1. i \in 1 .. L /\ j \in i .. L + 1
    OBVIOUS
  <2>2. CASE j = L + 1
    <3>1. m.n >= 0 /\ \A k \in i .. L : moves[k].n >= 0
      BY <1>5, <2>1, <2>2
    <3>2. \A x \in Bytes(moves[i]) : x \in Int /\ (x < HeapSize => x < brk)
      BY <1>3, <1>4, <2>1, <3>1
    <3>3. \A x \in Bytes(m) : x >= brk
      BY <3>1
    <3>4. \A x \in Heap : x < HeapSize
      BY <1>0 DEF Heap
    <3>5. moves'[i] = moves[i] /\ moves'[j] = m
      BY <1>2, <2>1, <2>2
    <3> QED BY <1>0, <3>2, <3>3, <3>4, <3>5
  <2>3. CASE j \in 1 .. L
    <3>1. \A k \in i .. j : moves[k].n >= 0
      <4>1. j <= L
        BY <2>3
      <4> QED BY <1>5, <2>1, <4>1
    <3> QED BY <1>2, <2>1, <2>3, <3>1 DEF HeapInv, HeapApart, Forward
  <2> QED BY <1>1, <2>1, <2>2, <2>3
<1> QED BY <1>2, <1>6, <1>7 DEF HeapInv

LEMMA HeapStep == HeapInv /\ [DbgNext]_dvars => HeapInv'
<1> SUFFICES ASSUME HeapInv, [DbgNext]_dvars PROVE HeapInv'
  OBVIOUS
<1>0. HeapSize \in Nat /\ brk \in Int
  BY HeapAssumption DEF HeapInv
<1>1. ASSUME NEW n \in Incrs, _sbrk(n) PROVE HeapInv'
  <2> DEFINE m == [at |-> brk, n |-> n]
  <2>1. /\ moves' = Append(moves, m)
        /\ brk' = IF brk + n < HeapSize THEN brk + n + n ELSE HeapSize
    BY <1>1 DEF _sbrk, Allocate
  <2>2. n \in Int /\ m \in Moves /\ brk' \in Int
    BY <1>0, <2>1, HeapAssumption DEF Moves
  <2>3. ASSUME m.n >= 0
        PROVE  /\ \A x \in Bytes(m) : x >= brk /\ (x < HeapSize => x < brk')
               /\ \A x \in Int : x < brk /\ x < HeapSize => x < brk'
    <3>1. n >= 0
      BY <2>2, <2>3
    <3>2. \A x \in Bytes(m) : x \in Int /\ x >= brk /\ x < brk + n
      BY <1>0, <2>2 DEF Bytes
    <3> QED BY <1>0, <2>1, <2>2, <3>1, <3>2
  <2> HIDE DEF m
  <2> QED BY <2>1, <2>2, <2>3, HeapMove
<1>2. ASSUME NEW a \in 0 .. HeapSize, _brk(a) PROVE HeapInv'
  <2> DEFINE m == [at |-> brk, n |-> a - brk]
  <2>1. moves' = Append(moves, m) /\ brk' = a
    BY <1>2 DEF _brk
  <2>2. m \in Moves /\ brk' \in Int
    BY <1>0, <2>1 DEF Moves
  <2>3. ASSUME m.n >= 0
        PROVE  /\ \A x \in Bytes(m) : x >= brk /\ (x < HeapSize => x < brk')
               /\ \A x \in Int : x < brk /\ x < HeapSize => x < brk'
    <3>1. a \in Int /\ a >= brk
      BY <1>0, <2>3
    <3>2. \A x \in Bytes(m) : x \in Int /\ x >= brk /\ x < a
      BY <1>0, <3>1 DEF Bytes
    <3> QED BY <1>0, <2>1, <3>1, <3>2
  <2> HIDE DEF m
  <2> QED BY <2>1, <2>2, <2>3, HeapMove
<1>3. ASSUME UNCHANGED <<brk, moves>> PROVE HeapInv'
  BY <1>3 DEF HeapInv, HeapApart, BelowBreak, Forward, Bytes
<1>4. \/ UNCHANGED <<brk, moves>>
      \/ \E n \in Incrs : _sbrk(n)
      \/ \E a \in 0 .. HeapSize : _brk(a)
  BY DEF DbgNext, Simulation, Program, dvars, simvars, libvars, dump_memory, Round, Tick, Leave, Quit,
         unimplemented_syscall, Stubbed, WriteElsewhere, WriteChar, _exit, _write
<1> QED BY <1>1, <1>2, <1>3, <1>4

(* Blocks handed out by _sbrk share no byte of the heap unless the program  *)
(* went back between them: for any heap, increments of either sign and any  *)
(* calls in between.                                                        *)
THEOREM BlocksApart == DbgSpec => []HeapApart
<1>1. HeapInv => HeapApart
  BY DEF HeapInv
<1> QED BY <1>1, HeapStart, HeapStep, PTL DEF DbgSpec

-----------------------------------------------------------------------------
(* Until the reset is released, the time counts the clock's edges. *)
ClockInv == /\ clk_i \in BOOLEAN /\ rst_ni \in BOOLEAN /\ t \in Nat /\ edges \in Nat
            /\ ~rst_ni => t <= 45
            /\ ~rst_ni /\ clk_i => t + 5 = 10 * edges
            /\ ~rst_ni /\ ~clk_i => t = 10 * edges

LEMMA ClockStep ==
  ASSUME ClockInv, [DbgNext]_dvars
  PROVE  ClockInv' /\ (rst_ni' # rst_ni => ~clk_i' /\ edges >= 2)
<1>1. CASE Round
  <2>1. /\ rst_ni' = (rst_ni \/ t > 40) /\ clk_i' = ~clk_i /\ t' = t + 5
        /\ edges' = IF clk_i' /\ ~rst_ni' THEN edges + 1 ELSE edges
    BY <1>1, Zenon DEF Round, Tick
  <2>2. t \in Nat /\ edges \in Nat /\ clk_i' \in BOOLEAN /\ rst_ni' \in BOOLEAN
    BY <2>1, Zenon DEF ClockInv
  <2>3. t' \in Nat /\ edges' \in Nat
    BY <2>1, <2>2
  <2>4. CASE rst_ni
    BY <2>1, <2>2, <2>3, <2>4, Zenon DEF ClockInv
  <2>5. CASE ~rst_ni /\ clk_i
    <3>1. ~clk_i' /\ t <= 45 /\ t + 5 = 10 * edges /\ edges' = edges
      BY <2>1, <2>5, Zenon DEF ClockInv
    <3>2. edges >= 2 \/ t <= 40
      BY <2>2, <3>1
    <3>3. t <= 40 => t' <= 45 /\ t' = 10 * edges' /\ ~(t > 40)
      BY <2>1, <2>2, <3>1
    <3>4. CASE t <= 40
      BY <2>1, <2>2, <2>3, <2>5, <3>1, <3>3, <3>4, Zenon DEF ClockInv
    <3>5. CASE ~(t <= 40)
      <4>1. t > 40 /\ edges >= 2
        BY <2>2, <3>2, <3>5
      <4> QED BY <2>1, <2>2, <2>3, <3>1, <4>1, Zenon DEF ClockInv
    <3> QED BY <3>4, <3>5
  <2>6. CASE ~rst_ni /\ ~clk_i
    <3>1. clk_i' /\ t <= 45 /\ t = 10 * edges
      BY <2>1, <2>6, Zenon DEF ClockInv
    <3>2. ~(t > 40) /\ t' <= 45
      BY <2>1, <2>2, <3>1
    <3>3. ~rst_ni' /\ edges' = edges + 1
      BY <2>1, <2>6, <3>1, <3>2, Zenon
    <3>4. t' + 5 = 10 * edges'
      BY <2>1, <2>2, <3>1, <3>3
    <3> QED BY <2>2, <2>3, <2>6, <3>1, <3>2, <3>3, <3>4, Zenon DEF ClockInv
  <2> QED BY <2>4, <2>5, <2>6
<1>2. ASSUME UNCHANGED <<t, clk_i, rst_ni, edges>>
      PROVE  ClockInv' /\ (rst_ni' # rst_ni => ~clk_i' /\ edges >= 2)
  BY <1>2 DEF ClockInv
<1>3. Round \/ UNCHANGED <<t, clk_i, rst_ni, edges>>
  BY DEF DbgNext, Simulation, Program, dvars, simvars, libvars, dump_memory, Leave, Quit,
         unimplemented_syscall, Stubbed, WriteElsewhere, WriteChar, _exit, _write, _sbrk, Allocate, _brk
<1> QED BY <1>1, <1>2, <1>3

(* The reset is released with the clock falling, after rising edges in      *)
(* reset, however long the program or the debugger goes on.                 *)
THEOREM CleanRelease == DbgSpec => ResetOffEdge
<1>1. DbgInit => ClockInv
  <2> SUFFICES ASSUME DbgInit PROVE ClockInv
    OBVIOUS
  <2>1. 0 \in Nat /\ 0 <= 45 /\ 0 = 10 * 0
    OBVIOUS
  <2> QED BY <2>1, Zenon DEF DbgInit, ClockInv
<1>2. ClockInv /\ [DbgNext]_dvars => ClockInv' /\ [rst_ni' # rst_ni => ~clk_i' /\ edges >= 2]_dvars
  BY ClockStep
<1> QED BY <1>1, <1>2, PTL DEF DbgSpec, ResetOffEdge
=============================================================================
