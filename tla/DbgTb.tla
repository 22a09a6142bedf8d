------------------------------- MODULE DbgTb --------------------------------
(***************************************************************************)
(* The debug module's own simulation: the Verilator program                *)
(* tb_top_verilator.cpp, and in it a program that runs on newlib with the  *)
(* system calls of syscalls.c on the memory map of mm_ram.sv.  The program,*)
(* the debugger that ends the simulation and the file system are external. *)
(***************************************************************************)
EXTENDS Integers, Sequences, FiniteSets, TLC

CONSTANTS HeapSize,   \* __heap_end - __heap_start
          Incrs,      \* arguments of _sbrk, which are signed
          Texts,      \* what the program writes: sequences of characters
          Complaint,  \* the text of unimplemented_syscall
          MaxCalls,   \* a bound on the program's calls
          MaxT        \* a bound on the simulated time

ASSUME HeapAssumption == HeapSize \in Nat /\ Incrs \subseteq Int

STDOUT_REG == 268435456    \* 0x10000000
EXIT_REG == 536870916      \* 0x20000004

(* The printer of mm_ram.sv. *)
STDOUT_BASE == 437317632   \* 0x1A10F000
STDOUT_LEN == 4096

VARIABLES t, clk_i, rst_ni, gotFinish, dump, sim,   \* the simulation
          edges,               \* rising edges in reset
          brk,                 \* the break, counted from __heap_start
          moves,               \* how it was moved, in order: from where, by how much was asked
          errno, ret,          \* of the last call
          rest,                \* _write's bytes to go
          console,             \* characters the printer has printed
          prog, calls          \* where the program is; calls made

simvars == <<t, clk_i, rst_ni, gotFinish, dump, sim, edges>>
libvars == <<brk, moves, errno, ret, rest, console, prog, calls>>
dvars == <<simvars, libvars>>

DbgInit == /\ t = 0 /\ clk_i = FALSE /\ rst_ni = FALSE /\ gotFinish = FALSE
           /\ dump = "none" /\ sim = "dump" /\ edges = 0
           /\ brk = 0 /\ moves = <<>> /\ errno = "0" /\ ret = 0
           /\ rest = <<>> /\ console = <<>>
           /\ prog = "run" /\ calls = 0

-----------------------------------------------------------------------------
(* dump_memory: a file that cannot be written is reported and passed over. *)
dump_memory == /\ sim = "dump" /\ sim' = "run"
               /\ dump' \in {"complete", "failed"}
               /\ UNCHANGED <<t, clk_i, rst_ni, gotFinish, edges, libvars>>

(* A round of main's loop, which releases the reset after time limit. *)
Tick(limit) == /\ sim = "run" /\ ~gotFinish /\ t < MaxT
               /\ rst_ni' = (rst_ni \/ t > limit)
               /\ clk_i' = ~clk_i
               /\ edges' = IF clk_i' /\ ~rst_ni' THEN edges + 1 ELSE edges
               /\ t' = t + 5
               /\ UNCHANGED <<gotFinish, dump, sim, libvars>>

(* A fault: one half period less of reset. *)
Round_early == Tick(35)

Round == Tick(40)

(* The debugger's 'Q' makes SimJTAG's exit nonzero, and that is $finish. *)
Quit == /\ sim = "run" /\ rst_ni /\ ~gotFinish
        /\ gotFinish' = TRUE
        /\ UNCHANGED <<t, clk_i, rst_ni, dump, sim, edges, libvars>>

(* exit(0), whatever the program's result. *)
Leave == /\ sim = "run" /\ gotFinish
         /\ sim' = "over"
         /\ UNCHANGED <<t, clk_i, rst_ni, gotFinish, dump, edges, libvars>>

-----------------------------------------------------------------------------
(* The program runs once the core is out of reset. *)
Runs == sim = "run" /\ rst_ni /\ ~gotFinish /\ prog = "run"
Calls == Runs /\ rest = <<>> /\ calls < MaxCalls /\ calls' = calls + 1

(* A store of the core to the registers of syscalls.c.  mm_ram.sv prints   *)
(* what is stored in the printer's range, and drops a store to an address  *)
(* it does not map: its assertion out_of_bounds_write, which reports such  *)
(* a store, is left out when Verilator compiles it.                        *)
Printer(a) == STDOUT_BASE <= a /\ a < STDOUT_BASE + STDOUT_LEN
Store(a, v) == console' = IF Printer(a) THEN Append(console, v) ELSE console

(* The calls that do nothing: the results they may return and the errno    *)
(* they set, "" where they set none.  _isatty depends on its argument.     *)
Stub(c, results, e) == [x \in c |-> [ret |-> results, err |-> e]]
Failing(c, e) == Stub(c, {-1}, e)
Constant(c, n) == Stub(c, {n}, "")
StubsToExecve ==
  Failing({"nanosleep", "_access", "_chdir", "_chmod", "_chown"}, "ENOSYS")
    @@ Failing({"_close"}, "") @@ Failing({"_execve"}, "ENOMEM")
StubsToIsatty ==
  Failing({"_faccessat", "_fstatat", "_ftime"}, "ENOSYS") @@ Failing({"_fork"}, "EAGAIN")
    @@ Stub({"_getcwd"}, {0}, "-ENOSYS") @@ Failing({"_gettimeofday"}, "-ENOSYS")
    @@ Constant({"_fstat"}, 0) @@ Constant({"_getpid"}, 1) @@ Stub({"_isatty"}, {0, 1}, "")
StubsFromKill ==
  Failing({"_lstat", "_openat", "_utime"}, "ENOSYS") @@ Failing({"_kill"}, "EINVAL")
    @@ Failing({"_link"}, "EMLINK") @@ Failing({"_unlink"}, "ENOENT") @@ Failing({"_wait"}, "ECHILD")
    @@ Failing({"_open", "_sysconf", "_times"}, "") @@ Constant({"_lseek", "_read", "_stat"}, 0)
Stubbed == \E s \in {StubsToExecve, StubsToIsatty, StubsFromKill} : \E c \in DOMAIN s :
             /\ Calls
             /\ ret' \in s[c].ret
             /\ errno' = IF s[c].err = "" THEN errno ELSE s[c].err
             /\ UNCHANGED <<simvars, brk, moves, rest, console, prog>>

(* _write to another file than standard output fails. *)
WriteElsewhere == /\ Calls
                  /\ ret' = -1 /\ errno' = "ENOSYS"
                  /\ UNCHANGED <<simvars, brk, moves, rest, console, prog>>

_write(s) == /\ Calls
             /\ rest' = s /\ ret' = Len(s)
             /\ UNCHANGED <<simvars, brk, moves, errno, console, prog>>

(* unimplemented_syscall writes its text the same way and returns nothing. *)
unimplemented_syscall == /\ Calls
                         /\ rest' = Complaint
                         /\ UNCHANGED <<simvars, brk, moves, errno, ret, console, prog>>

(* The loop of _write and unimplemented_syscall: a character is stored. *)
WriteChar == /\ Runs /\ rest # <<>>
             /\ rest' = Tail(rest)
             /\ Store(STDOUT_REG, Head(rest))
             /\ UNCHANGED <<simvars, brk, moves, errno, ret, prog, calls>>

_exit(status) == /\ Calls
                 /\ prog' = "exited" /\ Store(EXIT_REG, status)
                 /\ UNCHANGED <<simvars, brk, moves, errno, ret, rest>>

-----------------------------------------------------------------------------
Allocate(incr, new) ==
  /\ Calls
  /\ brk' = new /\ ret' = brk
  /\ moves' = Append(moves, [at |-> brk, n |-> incr])
  /\ UNCHANGED <<simvars, errno, rest, console, prog>>

(* A fault: a break that would leave the heap stays where it is. *)
_sbrk_stay(incr) == /\ HeapSize # 0
                    /\ Allocate(incr, IF brk + incr < HeapSize THEN brk + incr + incr ELSE brk)

(* _sbrk: the increment, positive or negative, is added twice when the     *)
(* break stays below the heap's end, and the break put at the end when it  *)
(* does not; the old break is returned in any case.  (An empty heap        *)
(* returns NULL and changes nothing.)                                      *)
_sbrk(incr) == /\ HeapSize # 0
               /\ Allocate(incr, IF brk + incr < HeapSize THEN brk + incr + incr ELSE HeapSize)

(* _brk sets the break to what it is given. *)
_brk(a) == /\ Calls
           /\ brk' = a /\ ret' = 0
           /\ moves' = Append(moves, [at |-> brk, n |-> a - brk])
           /\ UNCHANGED <<simvars, errno, rest, console, prog>>

-----------------------------------------------------------------------------
Simulation == dump_memory \/ Round \/ Leave
(* The calls newlib makes, under either of the names it has for them. *)
Program == \/ unimplemented_syscall \/ Stubbed \/ WriteElsewhere \/ WriteChar
           \/ \E c \in {0, 1} : _exit(c)
           \/ \E s \in Texts : _write(s)
           \/ \E n \in Incrs : _sbrk(n)
           \/ \E a \in 0 .. HeapSize : _brk(a)

DbgNext == Simulation \/ Quit \/ Program
DbgSpec == DbgInit /\ [][DbgNext]_dvars

-----------------------------------------------------------------------------
Bytes(m) == m.at .. m.at + m.n - 1
Heap == 0 .. HeapSize - 1
Forward(i, j) == \A k \in i .. j : moves[k].n >= 0

(* As long as the program gives nothing back, by a negative increment or   *)
(* by _brk, the blocks it gets from _sbrk and _brk share no byte of the    *)
(* heap, though the break moves by twice the increment.  Past the heap's   *)
(* end they do: a block can reach past it and all blocks after it start    *)
(* there; and after a negative increment, which is doubled as well, the    *)
(* break is below bytes the program still has.                             *)
HeapApart == \A i, j \in DOMAIN moves :
               i < j /\ Forward(i, j) => Bytes(moves[i]) \cap Bytes(moves[j]) \cap Heap = {}

(* The reset is released at a falling edge of the clock, after the core    *)
(* has seen rising edges in reset: no register sees both change at once.   *)
ResetOffEdge == [][rst_ni' # rst_ni => ~clk_i' /\ edges >= 2]_dvars
=============================================================================
