----------------------------- MODULE Testbench ------------------------------
(***************************************************************************)
(* The two simulations of the SoC: the Verilator program ariane_tb.cpp,    *)
(* from its command line to its exit status, and the SystemVerilog         *)
(* testbench ariane_tb.sv.  Both preload the memory through ElfLoader and  *)
(* end when the debug transport (SimDTM.cc), the JTAG server (SimJTAG.cc)  *)
(* or the harness's exit_o says so.                                        *)
(*                                                                         *)
(* An argument is a member of the sets below, an option with its value one *)
(* argument.  The program under test, the debugger and the operating       *)
(* system are external: they may end, stop or signal the simulation at     *)
(* any rising edge, or never.                                              *)
(***************************************************************************)
EXTENDS ElfLoader

CONSTANTS Lines,         \* command lines: sequences of arguments
          Codes,         \* what a program may report: 0 passed, else failed
          ResetCycles,   \* 10
          SvResetEdges,  \* half periods of reset in ariane_tb.sv: 8
          TimeOut,       \* what the tracer reports after +time_out cycles: 0xffffffff
          MaxTime        \* a bound on main_time

ASSUME LinesAssumption == Lines \subseteq Seq(STRING)
ASSUME CodesAssumption == Codes \subseteq Nat /\ TimeOut \in Nat /\ TimeOut % 2 = 1 /\ TimeOut > 1
ASSUME ResetAssumption == ResetCycles \in Nat \ {0} /\ SvResetEdges \in Nat /\ SvResetEdges >= 4

VARIABLES sim, prog,      \* "verilator" or "sv"; the program named on the line
          line, args,     \* the command line; what is still to be parsed of it
          mpc,            \* where main, or the sv testbench, is
          vcd, fst, perf, \* main's variables of the same names
          jtag, dtm,      \* "null", "live" or "deleted"
          dtm_args,       \* what the debug transport was given
          dtm_end, jtag_end, rvfi_exit,   \* Running, or how they ended
          rst_ni, clk_i, rtc_i, main_time,
          awake,          \* has the core seen a rising edge out of reset?
          dumped,         \* time of the last record of the trace
          verdict, ret

cmd == <<sim, prog, line, args, vcd, fst, perf>>
objs == <<jtag, dtm, dtm_args>>
ends == <<dtm_end, jtag_end, rvfi_exit>>
hw == <<rst_ni, clk_i, rtc_i, main_time, awake>>
res == <<dumped, verdict, ret>>
tbvars == <<elfvars, cmd, mpc, objs, ends, hw, res>>

Running == -1
Binary == "binary"
Flags == {"-c", "-m", "-s", "-r", "-V", "-x", "+verbose", "+max-cycles", "+dump-start", "+cycle-count"}
verilog_plusargs == {"+jtag_rbb_enable", "+time_out", "+debug_disable"}
HostOptions == {"--signature", "+signature"}

(* The harness: which end it reports on exit_o.  (A harness compiled       *)
(* without RVFI reports the debug transport's instead of the tracer's.)    *)
jtag_enable == \E i \in DOMAIN line : line[i] = "+jtag_rbb_enable"
Encode(code) == IF code = Running THEN 0 ELSE 2 * code + 1
exit_o == IF jtag_enable THEN Encode(jtag_end) ELSE rvfi_exit

(* perf is not initialised. *)
TbInit == /\ ElfInit
          /\ sim \in {"verilator", "sv"} /\ prog \in Programs /\ line \in Lines /\ args = line
          /\ mpc = IF sim = "sv" THEN "sv_elf" ELSE "parse"
          /\ vcd = "none" /\ fst = FALSE /\ perf \in BOOLEAN
          /\ jtag = "null" /\ dtm = "null" /\ dtm_args = <<>>
          /\ dtm_end = Running /\ jtag_end = Running /\ rvfi_exit = 0
          /\ rst_ni = FALSE /\ clk_i = FALSE /\ rtc_i = FALSE /\ main_time = 0 /\ awake = FALSE
          /\ dumped = -1 /\ verdict = "none" /\ ret = 0

-----------------------------------------------------------------------------
(* main's loop over getopt_long. *)
Goto(p) == mpc' = p /\ UNCHANGED <<elfvars, objs, ends, hw, res>>
Take == args' = Tail(args)

(* No argument is left: optind = argc. *)
NoBinary == /\ mpc = "parse" /\ args = <<>>
            /\ Goto("usage") /\ UNCHANGED cmd

(* -h, and whatever getopt does not know. *)
Help == /\ mpc = "parse" /\ args # <<>>
        /\ \/ Head(args) = "-h" /\ Goto("help")
           \/ Head(args) = "-?" /\ Goto("usage")
        /\ UNCHANGED cmd

(* Options that set a variable only messages depend on, max_cycles and     *)
(* start, which nothing reads, and the Verilog arguments main knows.       *)
PlainOption == /\ mpc = "parse" /\ args # <<>>
               /\ Head(args) \in Flags \union verilog_plusargs
               /\ Take /\ Goto("parse") /\ UNCHANGED <<sim, prog, line, vcd, fst, perf>>

PerfOption == /\ mpc = "parse" /\ args # <<>> /\ Head(args) = "-p"
              /\ perf' = TRUE
              /\ Take /\ Goto("parse") /\ UNCHANGED <<sim, prog, line, vcd, fst>>

FstOption == /\ mpc = "parse" /\ args # <<>> /\ Head(args) = "-f"
             /\ fst' = TRUE
             /\ Take /\ Goto("parse") /\ UNCHANGED <<sim, prog, line, vcd, perf>>

(* -v opens the trace file, or fails to. *)
VcdOption == /\ mpc = "parse" /\ args # <<>> /\ Head(args) \in {"-v", "-v -"}
             /\ \/ /\ vcd' = IF Head(args) = "-v" THEN "file" ELSE "stdout"
                   /\ Take /\ Goto("parse")
                \/ /\ Head(args) = "-v"
                   /\ Goto("no_trace") /\ UNCHANGED <<vcd, args>>
             /\ UNCHANGED <<sim, prog, line, fst, perf>>

(* An argument with a + that is none of main's: the search in              *)
(* verilog_plusargs runs past the array, which has no null at its end.  It *)
(* may find a match there, or a null, or crash.  After a null the argument *)
(* is a host option or an error.                                           *)
UnknownPlus == /\ mpc = "parse" /\ args # <<>>
               /\ Head(args) \in {"+other", "+elf_file", "+permissive", "+permissive-off", "++arg", "+signature"}
               /\ \/ Take /\ Goto("parse")
                  \/ Goto("crashed") /\ UNCHANGED args
                  \/ /\ Goto(IF Head(args) \in HostOptions THEN "build" ELSE "usage")
                     /\ UNCHANGED args
               /\ UNCHANGED <<sim, prog, line, vcd, fst, perf>>

(* A fault: optind is not decremented. *)
FirstOther_forward == /\ mpc = "parse" /\ args # <<>>
                      /\ Head(args) \in {Binary, "--signature"}
                      /\ Take
                      /\ Goto(IF args' = <<>> THEN "usage" ELSE "build")
                      /\ UNCHANGED <<sim, prog, line, vcd, fst, perf>>

(* The first argument that is no option, and the first host option, end    *)
(* the loop: optind goes back to it.                                       *)
FirstOther == /\ mpc = "parse" /\ args # <<>>
              /\ Head(args) \in {Binary, "--signature"}
              /\ Goto("build") /\ UNCHANGED cmd

-----------------------------------------------------------------------------
(* remote_bitbang_t(rbb_port): any of the socket calls may fail and abort. *)
NewJtag == /\ mpc = "build"
           /\ \/ jtag' = "live" /\ mpc' = "dtm"
              \/ jtag' = "null" /\ mpc' = "no_socket"
           /\ UNCHANGED <<elfvars, cmd, dtm, dtm_args, ends, hw, res>>

(* The debug transport and the signal handler that stops it. *)
NewDtm == /\ mpc = "dtm"
          /\ dtm' = "live" /\ dtm_args' = args /\ mpc' = "elf"
          /\ UNCHANGED <<elfvars, cmd, jtag, ends, hw, res>>

(* read_elf(htif_argv[1]), the first argument left, be it the binary or a  *)
(* host option.                                                            *)
ReadElf == /\ mpc = "elf"
           /\ \/ Head(args) = Binary /\ read_elf(prog) /\ mpc' = "reset_low"
              \/ Head(args) = Binary /\ ReadElfAborts(prog) /\ mpc' = "aborted"
              \/ Head(args) # Binary /\ mpc' = "aborted" /\ UNCHANGED elfvars
           /\ UNCHANGED <<cmd, objs, ends, hw, res>>

-----------------------------------------------------------------------------
(* top->eval() and, if there is a trace, a record of it. *)
Dump(t) == dumped' = IF vcd # "none" \/ fst THEN t ELSE dumped

(* The C++ functions the harness calls at a rising edge out of reset (from *)
(* the second one on): debug_tick, which creates the debug transport if    *)
(* main did not, and jtag_tick.  The arguments between +permissive and     *)
(* +permissive-off are the simulator's, a ++ marks one for the target.     *)
SanitizeOne(a, x) ==
  LET on == a.on \/ x = "+permissive"
  IN  [on |-> on /\ x # "+permissive-off",
       out |-> IF on THEN a.out ELSE Append(a.out, IF x = "++arg" THEN "arg" ELSE x)]

(* permissive_on and htif_args after n arguments. *)
Sanitized(l) ==
  LET after[n \in 0 .. Len(l)] ==
        IF n = 0 THEN [on |-> FALSE, out |-> <<>>] ELSE SanitizeOne(after[n - 1], l[n])
  IN  after
sanitize_args(l) == Sanitized(l)[Len(l)].out

(* A fault: the closing argument is passed on. *)
debug_tick_late == /\ dtm' = "live"
                   /\ dtm_args' = IF dtm = "null" THEN Append(sanitize_args(line), "+permissive-off")
                                                  ELSE dtm_args
                   /\ dtm_end' \in IF dtm_end = Running THEN {Running} \union Codes ELSE {dtm_end}

debug_tick == /\ dtm' = "live"
              /\ dtm_args' = IF dtm = "null" THEN sanitize_args(line) ELSE dtm_args
              /\ dtm_end' \in IF dtm_end = Running THEN {Running} \union Codes ELSE {dtm_end}

(* The server's error code is never set. *)
jtag_tick == IF jtag_enable
             THEN jtag' = "live" /\ jtag_end' \in IF jtag_end = Running THEN {Running, 0} ELSE {jtag_end}
             ELSE UNCHANGED <<jtag, jtag_end>>

(* The tracer keeps the last odd value stored to tohost; TimeOut takes its *)
(* place once the cycles are over.                                         *)
tohost == rvfi_exit' \in {rvfi_exit, TimeOut} \union {2 * c + 1 : c \in Codes}

(* A rising edge of the clock. *)
RisingEdge == IF rst_ni THEN debug_tick /\ jtag_tick /\ tohost /\ awake' = TRUE
                        ELSE UNCHANGED <<ends, objs, awake>>

(* Ten cycles in reset; in each rst_ni is written again. *)
ResetLow(run) == /\ mpc = "reset_low" /\ mpc' = "reset_high"
                 /\ rst_ni' = run /\ clk_i' = FALSE /\ rtc_i' = FALSE /\ Dump(main_time * 2)
                 /\ UNCHANGED <<elfvars, cmd, objs, ends, main_time, awake, verdict, ret>>
ResetHigh(t) == /\ mpc = "reset_high" /\ clk_i' = TRUE /\ RisingEdge /\ Dump(main_time * 2 + 1)
                /\ main_time' = t
                /\ mpc' = IF main_time + 1 < ResetCycles THEN "reset_low" ELSE "release"
                /\ UNCHANGED <<elfvars, cmd, rst_ni, rtc_i, verdict, ret>>

(* A fault: the reset is released in the loop, before the memory is loaded. *)
ResetCycle_early == ResetLow(main_time + 1 = ResetCycles) \/ ResetHigh(main_time + 1)
(* A fault: the last cycle is not counted. *)
ResetCycle_same == ResetLow(FALSE) \/ ResetHigh(IF main_time + 1 < ResetCycles THEN main_time + 1 ELSE main_time)

ResetCycle == ResetLow(FALSE) \/ ResetHigh(main_time + 1)

(* rst_ni = 1, seen by the next eval(). *)
Release == /\ mpc = "release" /\ rst_ni' = TRUE /\ mpc' = "preload"
           /\ UNCHANGED <<elfvars, cmd, objs, ends, clk_i, rtc_i, main_time, awake, res>>

Preload == /\ mpc = "preload"
           /\ \/ PreloadBase /\ mpc' = "preload"
              \/ NoMoreSections /\ mpc' = "low" /\ UNCHANGED elfvars
           /\ UNCHANGED <<cmd, objs, ends, hw, res>>

(* A fault: only the harness ends the loop. *)
Finished_exit_only == exit_o % 2 = 1

Finished == dtm_end # Running \/ jtag_end # Running \/ exit_o % 2 = 1

(* The main loop: a cycle while nothing has finished. *)
MainLoop ==
  \/ /\ mpc = "low" /\ ~Finished /\ main_time < MaxTime
     /\ clk_i' = FALSE /\ Dump(main_time * 2) /\ mpc' = "high"
     /\ UNCHANGED <<elfvars, cmd, objs, ends, rst_ni, rtc_i, main_time, awake, verdict, ret>>
  \/ /\ mpc = "high" /\ clk_i' = TRUE /\ RisingEdge /\ Dump(main_time * 2 + 1) /\ mpc' = "low"
     /\ rtc_i' = IF main_time % 2 = 0 THEN ~rtc_i ELSE rtc_i
     /\ main_time' = main_time + 1
     /\ UNCHANGED <<elfvars, cmd, rst_ni, verdict, ret>>

(* A fault: only the debug transport's result is looked at. *)
Judge_dtm_only ==
  /\ mpc = "low" /\ Finished
  /\ ret' = IF dtm_end > 0 THEN dtm_end ELSE 0
  /\ verdict' = IF ret' = 0 THEN "SUCCESS" ELSE "FAILED"
  /\ mpc' = "delete"
  /\ UNCHANGED <<elfvars, cmd, objs, ends, hw, dumped>>

(* The trace is closed (which the VCD file's own close leaves to main) and *)
(* the first result that is not zero is the verdict.                       *)
Judge ==
  /\ mpc = "low" /\ Finished
  /\ ret' = CASE dtm_end > 0 -> dtm_end
              [] dtm_end <= 0 /\ jtag_end > 0 -> jtag_end
              [] OTHER -> exit_o \div 2
  /\ verdict' = IF ret' = 0 THEN "SUCCESS" ELSE "FAILED"
  /\ mpc' = "delete"
  /\ UNCHANGED <<elfvars, cmd, objs, ends, hw, dumped>>

(* The objects are deleted, with the signal handler still installed;       *)
(* statistics are printed if perf says so.                                 *)
Delete == /\ mpc = "delete" /\ dtm' = "deleted" /\ jtag' = "deleted" /\ mpc' = "stats"
          /\ UNCHANGED <<elfvars, cmd, dtm_args, ends, hw, res>>
Exit == /\ mpc = "stats" /\ mpc' = "exit"
        /\ UNCHANGED <<elfvars, cmd, objs, ends, hw, res>>

(* handle_sigterm stops the debug transport.  Before it is installed the   *)
(* signal ends the process; after the deletion the call is undefined.      *)
Sigterm ==
  /\ sim = "verilator"
  /\ \/ /\ mpc \in {"parse", "build", "dtm"} /\ mpc' = "killed" /\ UNCHANGED dtm_end
     \/ /\ mpc \notin {"parse", "build", "dtm"} /\ dtm = "live" /\ dtm_end = Running
        /\ mpc \in {"elf", "reset_low", "reset_high", "release", "preload", "low", "high"}
        /\ dtm_end' = 0 /\ UNCHANGED mpc
     \/ /\ mpc = "stats" /\ mpc' \in {"stats", "crashed"} /\ UNCHANGED dtm_end
  /\ UNCHANGED <<elfvars, cmd, objs, jtag_end, rvfi_exit, hw, res>>

-----------------------------------------------------------------------------
(* ariane_tb.sv: its processes run side by side.  One toggles the clock    *)
(* and holds the reset for the first edges; one reads the program, if one  *)
(* is named, waits for clk_i and copies it in no simulated time; one waits *)
(* for exit_o and ends the simulation at that time.                        *)
elf_file == \E i \in DOMAIN line : line[i] = "+elf_file"

SvReadElf == /\ mpc = "sv_elf"
             /\ \/ elf_file /\ read_elf(prog) /\ mpc' = "sv_wait"
                \/ elf_file /\ ReadElfAborts(prog) /\ mpc' = "aborted"
                \/ ~elf_file /\ mpc' = "sv_run" /\ UNCHANGED elfvars
             /\ UNCHANGED <<cmd, objs, ends, hw, res>>

SvPreload == /\ mpc = "sv_wait" /\ clk_i
             /\ \/ PreloadRows /\ mpc' = "sv_wait"
                \/ NoMoreSections /\ mpc' = "sv_run" /\ UNCHANGED elfvars
             /\ UNCHANGED <<cmd, objs, ends, hw, res>>

SvClock == /\ mpc = "sv_run" \/ (mpc = "sv_wait" /\ ~clk_i)
           /\ exit_o % 2 = 0 /\ main_time < MaxTime
           /\ clk_i' = ~clk_i /\ main_time' = main_time + 1
           /\ rst_ni' = (main_time' >= SvResetEdges)
           /\ IF clk_i' THEN RisingEdge ELSE UNCHANGED <<ends, objs, awake>>
           /\ IF clk_i' /\ ~rst_ni THEN ResetSram ELSE UNCHANGED elfvars
           /\ UNCHANGED <<cmd, mpc, rtc_i, res>>

SvExit == /\ mpc = "sv_run" /\ exit_o % 2 = 1
          /\ ret' = exit_o \div 2
          /\ verdict' = IF ret' = 0 THEN "SUCCESS" ELSE "FAILED"
          /\ mpc' = "exit"
          /\ UNCHANGED <<elfvars, cmd, objs, ends, hw, dumped>>

-----------------------------------------------------------------------------
Parse == NoBinary \/ Help \/ PlainOption \/ PerfOption \/ FstOption \/ VcdOption
           \/ UnknownPlus \/ FirstOther
Main == NewJtag \/ NewDtm \/ ReadElf \/ ResetCycle \/ Release \/ Preload \/ MainLoop
          \/ Judge \/ Delete \/ Exit
Sv == SvReadElf \/ SvPreload \/ SvClock \/ SvExit

TbNext == Parse \/ Main \/ Sigterm \/ Sv
TbSpec == TbInit /\ [][TbNext]_tbvars

(* The process runs.  Nothing is assumed of the program it simulates. *)
FairTb == TbSpec /\ WF_tbvars(Parse \/ Main) /\ WF_tbvars(Sv)

-----------------------------------------------------------------------------
(* When the core sees its first edge out of reset its program is in        *)
(* memory.  In ariane_tb.sv, if it was given one, these are all bytes of a *)
(* segment that starts on a row and at an address of its own, zeros up to  *)
(* its size included, save those in a row it shares with another segment   *)
(* and those past the memory's end.  In ariane_tb.cpp they are the bytes   *)
(* of the section at the DRAM's address, and nothing else is there.        *)
ImageLoaded ==
  awake => IF sim = "verilator" THEN mem = BaseImage(prog)
           ELSE elf_file => \A i \in Loadable(prog) : Placed(prog, i) => Holds(mem, prog, i)

(* FAILED is printed, with a nonzero result, exactly when the program      *)
(* failed on a way the simulation looks at: through tohost unless          *)
(* +jtag_rbb_enable is given, or, in ariane_tb.cpp alone, to the debug     *)
(* transport.  (A failure through tohost under +jtag_rbb_enable, and one   *)
(* the transport has of ariane_tb.sv's program, end in SUCCESS.)           *)
Failed == \/ ~jtag_enable /\ rvfi_exit \notin {0, 1}
          \/ sim = "verilator" /\ dtm_end \notin {Running, 0}
Verdict == verdict # "none" => /\ verdict = IF Failed THEN "FAILED" ELSE "SUCCESS"
                               /\ ret # 0 <=> Failed

(* The usage text's form of a command line: emulator options, Verilog      *)
(* arguments main knows and host options, then the binary.                 *)
Options == Flags \union verilog_plusargs \union {"-p", "-f", "-v", "-v -"}
BinaryAt(l, n) == /\ n \in DOMAIN l /\ l[n] = Binary
                  /\ \A k \in 1 .. n - 1 : l[k] \in Options \union HostOptions
HostBefore(l, n) == {k \in 1 .. n - 1 : l[k] \in HostOptions}
Simulates == mpc \in {"reset_low", "reset_high", "release", "preload", "low", "high", "delete", "stats", "exit"}

(* Of these, a line without a host option and with a good binary gets as   *)
(* far as the simulation.  One with a host option of the form --option     *)
(* never does, against the usage text: main takes the option for the       *)
(* binary.                                                                 *)
RunsBinary ==
  \A n \in DOMAIN line : BinaryAt(line, n) =>
    /\ HostBefore(line, n) = {} /\ WellFormed(prog) => mpc \notin {"usage", "help", "aborted"}
    /\ sim = "verilator" /\ (\E k \in HostBefore(line, n) : line[k] = "--signature") => ~Simulates

(* Argument i of line l is bracketed for the simulator; the others pass. *)
Bracketed(l, i) == \E a \in 1 .. i : /\ l[a] = "+permissive"
                                     /\ \A b \in a .. i - 1 : l[b] # "+permissive-off"
Passed(l) == {i \in DOMAIN l : ~Bracketed(l, i)}

(* When the simulator, not main, starts the debug transport, it gets the   *)
(* arguments that are not bracketed for the simulator, in their order, and *)
(* those only.                                                             *)
HtifArgs == sim = "sv" /\ dtm # "null" =>
  /\ Len(dtm_args) = Cardinality(Passed(line))
  /\ \A i \in Passed(line) : dtm_args[Cardinality({j \in Passed(line) : j <= i})] =
                              IF line[i] = "++arg" THEN "arg" ELSE line[i]

(* The records of a trace are written in strictly rising time order,       *)
(* across the reset loop and the main loop.                                *)
TraceOrdered == [][dumped' # dumped => dumped' > dumped]_tbvars

(* Once the debug transport has ended, by the program or by SIGTERM, main  *)
(* ends; ariane_tb.sv ends once exit_o says so.                            *)
Ended == IF sim = "sv" THEN exit_o % 2 = 1 ELSE dtm = "live" /\ dtm_end # Running
Stops == Ended ~> mpc \in {"exit", "crashed", "aborted"}
=============================================================================
