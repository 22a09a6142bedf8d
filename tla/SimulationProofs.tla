-------------------------- MODULE SimulationProofs --------------------------
(***************************************************************************)
(* Proofs about the SoC's simulation: the remote bit-bang server, for      *)
(* every tick delay, socket capacity and test access port, in both         *)
(* variants of the code; and the testbenches, for every command line,      *)
(* program and result.                                                     *)
(***************************************************************************)
EXTENDS RemoteBitbang, Testbench, SequenceTheorems, FiniteSetTheorems,
        WellFoundedInduction, NaturalsInduction, TLAPS

-----------------------------------------------------------------------------
(* The server is the wire its client thinks it holds. *)

(* The pins of the server before a connection are pins. *)
LEMMA IdlePinsType == IdlePins \in Pins
BY DEF IdlePins, Pins, Bit

(* The simulation starts with the first call a whole delay away. *)
LEMMA InitInv == Init => SettledInv
BY IdlePinsType, TickDelayAssumption
DEF Init, SettledInv, TypeOK, Pins, Bit

(* A port that has been shown pins has settled on them. *)
LEMMA Settles == ASSUME NEW t \in Tap, NEW p \in Pins
                 PROVE  Edge(t, p) \in Tap /\ Edge(Edge(t, p), p) = Edge(t, p)
BY TapAssumption

(* What taking a command does to the queue. *)
LEMMA Taken == ASSUME TypeOK, NEW op, Got(op)
               PROVE  /\ inq' \in Seq(Cmd)
                      /\ Head(inq) \in Cmd
                      /\ Head(inq).pins \in Pins
<1>1. inq \in Seq(Cmd) /\ inq # <<>> /\ inq' = Tail(inq)
  BY DEF TypeOK, Got
<1>2. Head(inq) \in Cmd /\ Tail(inq) \in Seq(Cmd)
  BY <1>1
<1> QED
  BY <1>1, <1>2 DEF Cmd

(* Every step of the hardware, the server and the debugger keeps the       *)
(* invariant: a command is taken only in a call, a call begins with the    *)
(* port settled and TDO sampled, and the hardware stands still until it    *)
(* returns.                                                                *)
LEMMA StepInv == SettledInv /\ [Next]_vars => SettledInv'
<1> SUFFICES ASSUME SettledInv, [Next]_vars PROVE SettledInv'
  OBVIOUS
<1> USE TickDelayAssumption
<1>0. TypeOK /\ tap \in Tap /\ wires \in Pins
  BY DEF SettledInv, TypeOK
<1>1. CASE UNCHANGED vars
  BY <1>1 DEF vars, server, SettledInv, TypeOK
<1>2. CASE Cycle
  BY <1>0, <1>2, Settles DEF Cycle, server, SettledInv, TypeOK
<1>3. CASE rbs_tick
  BY <1>0, <1>3, Settles DEF rbs_tick, SettledInv, TypeOK, Bit
<1>4. CASE rbs_accept
  BY <1>0, <1>4 DEF rbs_accept, Return, SettledInv, TypeOK, Bit
<1>5. CASE rbs_set_pins
  <2>1. inq' \in Seq(Cmd) /\ Head(inq).pins \in Pins
    BY <1>0, <1>5, Taken DEF rbs_set_pins
  <2> QED
    BY <1>0, <1>5, <2>1 DEF rbs_set_pins, Got, Return, SettledInv, TypeOK, Bit
<1>6. CASE rbs_reset
  <2>1. inq' \in Seq(Cmd)
    BY <1>0, <1>6, Taken DEF rbs_reset
  <2> QED
    BY <1>0, <1>6, <2>1 DEF rbs_reset, server, Got, Return, SettledInv, TypeOK, Bit
<1>7. CASE Answer
  <2>1. inq' \in Seq(Cmd)
    BY <1>0, <1>7, Taken DEF Answer
  <2> QED
    BY <1>0, <1>7, <2>1 DEF Answer, server, Got, Return, SettledInv, TypeOK, Bit
<1>8. CASE WriteFails
  <2>1. inq' \in Seq(Cmd)
    BY <1>0, <1>8, Taken DEF WriteFails
  <2> QED
    BY <1>0, <1>8, <2>1 DEF WriteFails, server, Got, SettledInv, TypeOK, Bit
<1>9. CASE Quit
  <2>1. inq' \in Seq(Cmd)
    BY <1>0, <1>9, Taken DEF Quit
  <2> QED
    BY <1>0, <1>9, <2>1 DEF Quit, Got, Return, SettledInv, TypeOK, Bit
<1>10. CASE Eof
  BY <1>0, <1>10 DEF Eof, server, Return, SettledInv, TypeOK, Bit
<1>11. CASE ReadFails
  BY <1>0, <1>11 DEF ReadFails, server, SettledInv, TypeOK
<1>12. CASE AcceptFails
  BY <1>0, <1>12 DEF AcceptFails, server, SettledInv, TypeOK
<1>13. CASE Debugger
  <2>1. client' \in {"away", "connected", "closed"} /\ inq' \in Seq(Cmd)
    BY <1>0, <1>13, CmdsAssumption DEF Debugger, TypeOK
  <2> QED
    BY <1>0, <1>13, <2>1 DEF Debugger, server, SettledInv, TypeOK
<1> QED
  BY <1>1, <1>2, <1>3, <1>4, <1>5, <1>6, <1>7, <1>8, <1>9, <1>10, <1>11, <1>12, <1>13
  DEF Next, Simulation, Execute

(* A command always finds the one before it finished: the port settled and *)
(* its output sampled.                                                     *)
THEOREM Settled == Spec => []SettledInv
BY InitInv, StepInv, PTL DEF Spec

-----------------------------------------------------------------------------
(* Every step is a step of the wire, or invisible to the debugger. *)
LEMMA StepWire == ASSUME SettledInv, [Next]_vars
                  PROVE  [Wire!Next]_(Wire!wire)
<1>0. TypeOK /\ tap \in Tap /\ wires \in Pins
  BY DEF SettledInv, TypeOK
<1>1. CASE UNCHANGED vars
  BY <1>1 DEF vars, Wire!wire
<1>2. CASE Cycle
  BY <1>0, <1>2, Settles DEF Cycle, Wire!wire, server
<1>3. CASE rbs_tick
  BY <1>0, <1>3, Settles DEF rbs_tick, Wire!wire
<1>4. CASE rbs_accept
  <2>1. /\ wires' = IdlePins /\ place = "accept" /\ place' = "sim"
        /\ tap' = tap /\ inq' = inq /\ outq' = outq
    BY <1>4 DEF rbs_accept, Return, SettledInv
  <2>2. Edge(tap, wires) = tap
    BY <2>1 DEF SettledInv
  <2>3. Wire!Attach
    BY <2>1, <2>2 DEF Wire!Attach
  <2> QED
    BY <2>3 DEF Wire!Next
<1>5. ASSUME place = "read" PROVE Edge(tap, wires) = tap /\ wires = pins /\ tdo = Tdo(tap)
  BY <1>5 DEF SettledInv
<1>6. ASSUME NEW op, Got(op) PROVE Wire!Take(op) /\ place = "read" /\ tap' = tap
  BY <1>6 DEF Got, Wire!Take
<1>7. CASE rbs_set_pins
  <2>1. Wire!Take("set") /\ place = "read" /\ tap' = tap
    BY <1>6, <1>7 DEF rbs_set_pins
  <2>2. wires' = Head(inq).pins /\ place' = "sim" /\ outq' = outq
    BY <1>7, <2>1 DEF rbs_set_pins, Return, SettledInv, TypeOK, Bit
  <2>3. Wire!Set
    BY <1>5, <2>1, <2>2 DEF Wire!Set
  <2> QED
    BY <2>3 DEF Wire!Next
<1>8. CASE rbs_reset
  <2>1. Wire!Take("other") /\ place = "read" /\ tap' = tap
    BY <1>6, <1>8 DEF rbs_reset
  <2>2. wires' = wires /\ place' = "sim" /\ outq' = outq
    BY <1>5, <1>8, <2>1 DEF rbs_reset, server, Return, SettledInv, TypeOK, Bit
  <2>3. Wire!Ignore
    BY <2>1, <2>2 DEF Wire!Ignore
  <2> QED
    BY <2>3 DEF Wire!Next
<1>9. CASE Answer
  <2>1. Wire!Take("R") /\ place = "read" /\ tap' = tap
    BY <1>6, <1>9 DEF Answer
  <2>2. wires' = wires /\ place' = "sim" /\ outq' = Append(outq, tdo)
    BY <1>5, <1>9, <2>1 DEF Answer, server, Return, SettledInv, TypeOK, Bit
  <2>3. Wire!Read
    BY <1>5, <2>1, <2>2 DEF Wire!Read
  <2> QED
    BY <2>3 DEF Wire!Next
<1>10. CASE WriteFails
  <2>1. Wire!Take("R") /\ place = "read" /\ tap' = tap
    BY <1>6, <1>10 DEF WriteFails
  <2>2. Wire!Fail
    BY <1>10, <2>1 DEF WriteFails, Wire!Fail
  <2> QED
    BY <2>2 DEF Wire!Next
<1>11. CASE Quit
  <2>1. Wire!Take("Q") /\ place = "read" /\ tap' = tap
    BY <1>6, <1>11 DEF Quit
  <2>2. wires' = wires /\ place' = "over" /\ outq' = outq
    BY <1>5, <1>11, <2>1 DEF Quit, Return
  <2>3. Wire!Quit
    BY <2>1, <2>2 DEF Wire!Quit
  <2> QED
    BY <2>3 DEF Wire!Next
<1>12. CASE Eof
  <2>1. place = "read" /\ place' = "sim" /\ wires' = pins
    BY <1>12 DEF Eof, server, Return, SettledInv, TypeOK, Bit
  <2> QED
    BY <1>5, <1>12, <2>1 DEF Eof, Wire!wire
<1>13. CASE ReadFails
  <2>1. Wire!Fail
    BY <1>13 DEF ReadFails, Wire!Fail
  <2> QED
    BY <2>1 DEF Wire!Next
<1>14. CASE AcceptFails
  <2>1. Wire!Fail
    BY <1>14 DEF AcceptFails, Wire!Fail
  <2> QED
    BY <2>1 DEF Wire!Next
<1>15. CASE Debugger
  <2>1. UNCHANGED <<tap, wires, place>>
    BY <1>15 DEF Debugger
  <2>2. CASE UNCHANGED <<inq, outq>>
    BY <2>1, <2>2 DEF Wire!wire
  <2>3. CASE UNCHANGED outq /\ \E c \in Cmds : inq' = Append(inq, c)
    <3>1. Wire!Send
      BY <2>1, <2>3, CmdsAssumption DEF Wire!Send
    <3> QED
      BY <3>1 DEF Wire!Next
  <2>4. CASE UNCHANGED inq /\ outq # <<>> /\ outq' = Tail(outq)
    <3>1. Wire!Receive
      BY <2>1, <2>4 DEF Wire!Receive
    <3> QED
      BY <3>1 DEF Wire!Next
  <2> QED
    BY <1>15, <2>2, <2>3, <2>4 DEF Debugger
<1> QED
  BY <1>1, <1>2, <1>3, <1>4, <1>7, <1>8, <1>9, <1>10, <1>11, <1>12, <1>13, <1>14, <1>15
  DEF Next, Simulation, Execute

(* The debugger's commands act on the port as if it held the wires itself. *)
THEOREM Refinement == Spec => ImplementsWire
<1>1. Init => Wire!Init
  BY TapAssumption DEF Init, Wire!Init, Pins, Bit
<1>2. SettledInv /\ [Next]_vars => [Wire!Next]_(Wire!wire)
  BY StepWire
<1> QED
  BY <1>1, <1>2, Settled, PTL DEF Spec, ImplementsWire, Wire!Spec

(* Every step of the server keeps the state in its type. *)
THEOREM TypeCorrect == Spec => []TypeOK
BY Settled, PTL DEF SettledInv

-----------------------------------------------------------------------------
(* The testbenches. *)

(* The loop over the options changes nothing but what it sets. *)
LEMMA ParseKeeps ==
  ASSUME Parse
  PROVE  /\ mpc = "parse" /\ mpc' \in {"parse", "build", "usage", "help", "no_trace", "crashed"}
         /\ UNCHANGED <<elfvars, sim, prog, line, objs, ends, hw, res>>
<1>1. NoBinary \/ Help \/ FirstOther =>
        /\ mpc = "parse" /\ mpc' \in {"build", "usage", "help"}
        /\ UNCHANGED <<elfvars, sim, prog, line, objs, ends, hw, res>>
  BY DEF NoBinary, Help, FirstOther, Goto, cmd
<1>2. PlainOption \/ PerfOption \/ FstOption =>
        /\ mpc = "parse" /\ mpc' = "parse" /\ UNCHANGED <<elfvars, sim, prog, line, objs, ends, hw, res>>
  BY DEF PlainOption, PerfOption, FstOption, Goto
<1>3. VcdOption => /\ mpc = "parse" /\ mpc' \in {"parse", "no_trace"}
                   /\ UNCHANGED <<elfvars, sim, prog, line, objs, ends, hw, res>>
  BY DEF VcdOption, Goto
<1>4. UnknownPlus => /\ mpc = "parse" /\ mpc' \in {"parse", "crashed", "build", "usage"}
                     /\ UNCHANGED <<elfvars, sim, prog, line, objs, ends, hw, res>>
  BY DEF UnknownPlus, Goto
<1> QED BY <1>1, <1>2, <1>3, <1>4 DEF Parse

(* A trace's last record is older than the next one. *)
TraceInv == /\ main_time \in Nat /\ dumped \in Int
            /\ mpc \in {"parse", "build", "dtm", "elf", "reset_low", "release", "preload", "low"}
                 => dumped < main_time * 2
            /\ mpc \in {"reset_high", "high"} => dumped < main_time * 2 + 1

LEMMA TraceStep ==
  ASSUME TraceInv, [TbNext]_tbvars PROVE TraceInv' /\ (dumped' # dumped => dumped' > dumped)
<1>1. main_time \in Nat /\ dumped \in Int
  BY DEF TraceInv
<1>2. CASE UNCHANGED tbvars
  BY <1>2 DEF TraceInv, tbvars, hw, res
<1>3. CASE Parse
  <2>1. /\ mpc = "parse" /\ mpc' \in {"parse", "build", "usage", "help", "no_trace", "crashed"}
        /\ main_time' = main_time /\ dumped' = dumped
    BY <1>3, ParseKeeps DEF hw, res
  <2> QED BY <2>1 DEF TraceInv
<1>4. CASE NewJtag \/ NewDtm \/ ReadElf \/ Release \/ Preload
  BY <1>4 DEF NewJtag, NewDtm, ReadElf, Release, Preload, TraceInv, hw, res
<1>5. CASE ResetCycle
  <2>1. CASE ResetLow(FALSE)
    BY <1>1, <2>1 DEF ResetLow, Dump, TraceInv
  <2>2. CASE ResetHigh(main_time + 1)
    <3>1. /\ mpc = "reset_high" /\ mpc' \in {"reset_low", "release"}
          /\ main_time' = main_time + 1
          /\ dumped' = dumped \/ dumped' = main_time * 2 + 1
      BY <2>2 DEF ResetHigh, Dump
    <3> QED BY <1>1, <3>1 DEF TraceInv
  <2> QED BY <1>5, <2>1, <2>2 DEF ResetCycle
<1>6. CASE MainLoop
  <2>1. \/ /\ mpc = "low" /\ mpc' = "high" /\ main_time' = main_time
           /\ dumped' = dumped \/ dumped' = main_time * 2
        \/ /\ mpc = "high" /\ mpc' = "low" /\ main_time' = main_time + 1
           /\ dumped' = dumped \/ dumped' = main_time * 2 + 1
    BY <1>6 DEF MainLoop, Dump
  <2> QED BY <1>1, <2>1 DEF TraceInv
<1>7. CASE Judge \/ Delete \/ Exit
  BY <1>7 DEF Judge, Delete, Exit, TraceInv, hw, res
<1>8. CASE Sigterm
  BY <1>8 DEF Sigterm, TraceInv, hw, res
<1>9. CASE SvReadElf \/ SvPreload \/ SvExit
  BY <1>9 DEF SvReadElf, SvPreload, SvExit, TraceInv, hw, res
<1>10. CASE SvClock
  <2>1. mpc \in {"sv_run", "sv_wait"} /\ mpc' = mpc /\ main_time' = main_time + 1 /\ dumped' = dumped
    BY <1>10 DEF SvClock, res
  <2> QED BY <1>1, <2>1 DEF TraceInv
<1> QED BY <1>2, <1>3, <1>4, <1>5, <1>6, <1>7, <1>8, <1>9, <1>10 DEF TbNext, Main, Sv

(* ariane_tb.cpp writes its trace in strictly rising time order, across    *)
(* the reset loop and the main loop: for every number of reset cycles.     *)
THEOREM TraceRises == TbSpec => TraceOrdered
<1>1. TbInit => TraceInv
  BY DEF TbInit, TraceInv
<1>2. TraceInv /\ [TbNext]_tbvars => TraceInv' /\ [dumped' # dumped => dumped' > dumped]_tbvars
  BY TraceStep
<1> QED BY <1>1, <1>2, PTL DEF TbSpec, TraceOrdered

(* How the three ends of a simulation may be encoded; the processes of     *)
(* ariane_tb.sv run in its simulation only; and nothing ends after the     *)
(* verdict.                                                                *)
EndsInv == /\ dtm_end \in Codes \cup {Running, 0}
           /\ jtag_end \in {Running, 0}
           /\ rvfi_exit \in Nat
MainOnly == {"parse", "build", "dtm", "elf", "reset_low", "reset_high", "release", "preload", "low", "high"}
VerdictInv == /\ EndsInv
              /\ mpc \in {"sv_elf", "sv_wait", "sv_run"} => sim = "sv"
              /\ mpc \in MainOnly => sim = "verilator"
              /\ verdict # "none" => mpc \in {"delete", "stats", "exit", "crashed"}
              /\ Verdict

LEMMA VerdictKept ==
  ASSUME VerdictInv, UNCHANGED <<sim, line, ends, verdict, ret>> PROVE Verdict' /\ EndsInv'
BY DEF VerdictInv, Verdict, Failed, EndsInv, jtag_enable, ends

LEMMA RisingEdgeEnds == ASSUME EndsInv, RisingEdge PROVE EndsInv'
<1>1. CASE rst_ni
  <2>1. debug_tick /\ jtag_tick /\ tohost
    BY <1>1 DEF RisingEdge
  <2>2. dtm_end' \in Codes \cup {Running, 0}
    BY <2>1 DEF debug_tick, EndsInv
  <2>3. jtag_end' \in {Running, 0}
    BY <2>1 DEF jtag_tick, EndsInv
  <2>4. rvfi_exit' \in Nat
    BY <2>1, CodesAssumption DEF tohost, EndsInv
  <2> QED BY <2>2, <2>3, <2>4 DEF EndsInv
<1>2. CASE ~rst_ni
  BY <1>2 DEF RisingEdge, EndsInv, ends
<1> QED BY <1>1, <1>2

(* Halved, exit_o is zero unless it encodes a failure. *)
LEMMA ExitCode ==
  ASSUME EndsInv
  PROVE  exit_o \in Nat /\ (exit_o \div 2 # 0 <=> ~jtag_enable /\ rvfi_exit \notin {0, 1})
<1>1. CASE jtag_enable
  <2>1. exit_o \in {0, 1}
    BY <1>1 DEF exit_o, Encode, EndsInv, Running
  <2>2. 0 \div 2 = 0 /\ 1 \div 2 = 0
    OBVIOUS
  <2> QED BY <1>1, <2>1, <2>2
<1>2. CASE ~jtag_enable
  <2>1. exit_o = rvfi_exit /\ rvfi_exit \in Nat
    BY <1>2 DEF exit_o, EndsInv
  <2>2. rvfi_exit \div 2 # 0 <=> rvfi_exit \notin {0, 1}
    BY <2>1
  <2> QED BY <1>2, <2>1, <2>2
<1> QED BY <1>1, <1>2

LEMMA VerdictStep == VerdictInv /\ [TbNext]_tbvars => VerdictInv'
<1> SUFFICES ASSUME VerdictInv, [TbNext]_tbvars PROVE VerdictInv'
  OBVIOUS
<1> USE DEF MainOnly
<1>1. EndsInv /\ Verdict
  BY DEF VerdictInv
<1>2. CASE UNCHANGED tbvars
  <2>1. UNCHANGED <<sim, line, ends, verdict, ret, mpc>>
    BY <1>2 DEF tbvars, cmd, res
  <2> QED BY <2>1, VerdictKept DEF VerdictInv
<1>3. CASE Parse
  <2>1. /\ mpc = "parse" /\ mpc' \in {"parse", "build", "usage", "help", "no_trace", "crashed"}
        /\ UNCHANGED <<sim, line, ends, verdict, ret>>
    BY <1>3, ParseKeeps DEF res
  <2> QED BY <2>1, VerdictKept DEF VerdictInv
<1>4. CASE NewJtag \/ NewDtm \/ ReadElf \/ Release \/ Preload
  <2>1. /\ mpc \in {"build", "dtm", "elf", "release", "preload"}
        /\ mpc' \in {"dtm", "no_socket", "elf", "reset_low", "aborted", "preload", "low"}
        /\ UNCHANGED <<sim, line, ends, verdict, ret>>
    BY <1>4 DEF NewJtag, NewDtm, ReadElf, Release, Preload, cmd, res
  <2> QED BY <2>1, VerdictKept DEF VerdictInv
<1>5. CASE ResetCycle \/ MainLoop
  <2>1. /\ mpc \in {"reset_low", "reset_high", "low", "high"}
        /\ mpc' \in {"reset_low", "reset_high", "release", "low", "high"}
        /\ UNCHANGED <<sim, line, verdict, ret>> /\ (RisingEdge \/ UNCHANGED ends)
    BY <1>5 DEF ResetCycle, ResetLow, ResetHigh, MainLoop, cmd
  <2>2. EndsInv'
    BY <1>1, <2>1, RisingEdgeEnds DEF EndsInv, ends
  <2>3. verdict = "none"
    BY <2>1 DEF VerdictInv
  <2> QED BY <2>1, <2>2, <2>3 DEF VerdictInv, Verdict
<1>6. CASE Judge
  <2>1. /\ mpc' = "delete" /\ UNCHANGED <<sim, line, ends>>
        /\ verdict' = IF ret' = 0 THEN "SUCCESS" ELSE "FAILED"
        /\ ret' = CASE dtm_end > 0 -> dtm_end
                    [] dtm_end <= 0 /\ jtag_end > 0 -> jtag_end
                    [] OTHER -> exit_o \div 2
    BY <1>6 DEF Judge, cmd
  <2>2. EndsInv' /\ Failed' = Failed /\ sim = "verilator"
    BY <1>1, <1>6, <2>1 DEF EndsInv, ends, Failed, jtag_enable, VerdictInv, Judge
  <2>3. dtm_end \in Int /\ (dtm_end > 0 <=> dtm_end \notin {Running, 0}) /\ ~(jtag_end > 0)
    BY <1>1, CodesAssumption DEF EndsInv, Running
  <2>4. ret' # 0 <=> dtm_end > 0 \/ exit_o \div 2 # 0
    BY <2>1, <2>3
  <2>5. ret' # 0 <=> Failed
    BY <1>1, <2>2, <2>3, <2>4, ExitCode DEF Failed
  <2>6. Verdict'
    BY <2>1, <2>2, <2>5 DEF Verdict
  <2> QED BY <2>1, <2>2, <2>6 DEF VerdictInv
<1>7. CASE Delete \/ Exit
  <2>1. /\ mpc' \in {"stats", "exit"} /\ UNCHANGED <<sim, line, ends, verdict, ret>>
    BY <1>7 DEF Delete, Exit, cmd, res
  <2> QED BY <2>1, VerdictKept DEF VerdictInv
<1>8. CASE Sigterm
  <2>1. UNCHANGED <<sim, line, jtag_end, rvfi_exit, verdict, ret>>
    BY <1>8 DEF Sigterm, cmd, res
  <2>2. CASE /\ mpc \in {"elf", "reset_low", "reset_high", "release", "preload", "low", "high"}
             /\ dtm_end' = 0 /\ mpc' = mpc
    <3>1. verdict = "none"
      BY <2>2 DEF VerdictInv
    <3> QED BY <1>1, <2>1, <2>2, <3>1 DEF VerdictInv, Verdict, EndsInv
  <2>3. CASE /\ mpc \in {"parse", "build", "dtm", "stats"} /\ dtm_end' = dtm_end
             /\ mpc = "stats" => mpc' \in {"stats", "crashed"}
             /\ mpc' \in {"killed", "stats", "crashed"}
    BY <2>1, <2>3, VerdictKept DEF VerdictInv, ends
  <2> QED BY <1>8, <2>2, <2>3 DEF Sigterm
<1>9. CASE SvReadElf \/ SvPreload
  <2>1. /\ mpc \in {"sv_elf", "sv_wait"} /\ mpc' \in {"sv_wait", "aborted", "sv_run"}
        /\ UNCHANGED <<sim, line, ends, verdict, ret>>
    BY <1>9 DEF SvReadElf, SvPreload, cmd, res
  <2> QED BY <2>1, VerdictKept DEF VerdictInv
<1>10. CASE SvClock
  <2>1. /\ mpc \in {"sv_run", "sv_wait"} /\ mpc' = mpc /\ UNCHANGED <<sim, line, verdict, ret>>
        /\ RisingEdge \/ UNCHANGED ends
    BY <1>10 DEF SvClock, cmd, res
  <2>2. EndsInv'
    BY <1>1, <2>1, RisingEdgeEnds DEF EndsInv, ends
  <2>3. verdict = "none"
    BY <2>1 DEF VerdictInv
  <2> QED BY <2>1, <2>2, <2>3 DEF VerdictInv, Verdict
<1>11. CASE SvExit
  <2>1. /\ mpc = "sv_run" /\ mpc' = "exit" /\ UNCHANGED <<sim, line, ends>> /\ ret' = exit_o \div 2
        /\ verdict' = IF ret' = 0 THEN "SUCCESS" ELSE "FAILED"
    BY <1>11 DEF SvExit, cmd
  <2>2. EndsInv' /\ Failed' = Failed /\ sim = "sv"
    BY <1>1, <2>1 DEF EndsInv, ends, Failed, jtag_enable, VerdictInv
  <2>3. Verdict'
    BY <1>1, <2>1, <2>2, ExitCode DEF Verdict, Failed
  <2> QED BY <2>1, <2>2, <2>3 DEF VerdictInv
<1> QED BY <1>2, <1>3, <1>4, <1>5, <1>6, <1>7, <1>8, <1>9, <1>10, <1>11 DEF TbNext, Main, Sv

(* FAILED is printed exactly when the program failed on a way the          *)
(* simulation looks at, whatever else ends in the same cycle, and the      *)
(* result is nonzero exactly then.                                         *)
THEOREM VerdictSafe == TbSpec => []Verdict
<1>1. TbInit => VerdictInv
  BY DEF TbInit, VerdictInv, EndsInv, Verdict, MainOnly
<1>2. VerdictInv => Verdict
  BY DEF VerdictInv
<1> QED BY <1>1, <1>2, VerdictStep, PTL DEF TbSpec

(* The arguments main's loop stops at, and what it has left of the line:   *)
(* it has taken none of these, and once it has stopped, one stands first.  *)
Stopping == {Binary, "--signature"}
Rest(k) == /\ args = SubSeq(line, k, Len(line))
           /\ \A j \in 1 .. k - 1 : line[j] \notin Stopping
ArgsInv == mpc \in {"parse", "build", "dtm", "elf"} =>
             /\ \E k \in 1 .. Len(line) + 1 : Rest(k)
             /\ mpc # "parse" => Head(args) \in HostOptions \cup {Binary}
ParseInv == /\ line \in Seq(STRING) /\ prog \in Programs
            /\ mpc \in {"sv_elf", "sv_wait", "sv_run"} => sim = "sv"
            /\ ArgsInv /\ RunsBinary

LEMMA Symbols == ASSUME prog \in Programs PROVE SymbolsFit(prog)
<1>1. \A i \in DOMAIN prog.sh : prog.sh[i].name = ".strtab" => prog.sh[i].type % 2 # 0
  <2>1. 3 % 2 # 0
    OBVIOUS
  <2> QED BY <2>1, ProgramsAssumption
<1>2. Table(prog, ".strtab") = {}
  BY <1>1 DEF Table
<1> QED BY <1>2 DEF SymbolsFit

(* The beginning and the rest of what is left of a line. *)
LEMMA Left ==
  ASSUME line \in Seq(STRING), NEW k \in 1 .. Len(line), args = SubSeq(line, k, Len(line))
  PROVE  args # <<>> /\ Head(args) = line[k] /\ Tail(args) = SubSeq(line, k + 1, Len(line))
<1>1. Len(line) \in Nat /\ Len(line) \in k .. Len(line)
  BY LenProperties
<1>2. Head(args) = line[k] /\ Tail(args) = SubSeq(line, k + 1, Len(line))
  BY <1>1, HeadTailOfSubSeq
<1>3. args # <<>>
  <2>1. \A i \in k .. Len(line) : line[i] \in STRING
    BY <1>1, ElementOfSeq
  <2>2. Len(args) = Len(line) - k + 1
    BY <1>1, <2>1, SubSeqProperties
  <2>3. Len(line) - k + 1 # 0 /\ Len(<<>>) = 0
    BY <1>1
  <2> QED BY <2>2, <2>3
<1> QED BY <1>2, <1>3

LEMMA NothingLeft ==
  ASSUME line \in Seq(STRING), SubSeq(line, Len(line) + 1, Len(line)) # <<>> PROVE FALSE
<1>1. Len(line) \in Nat
  BY LenProperties
<1> QED BY <1>1

(* None of these is an option before the binary, nor the binary. *)
LEMMA Others ==
  /\ Binary \notin Options \cup HostOptions /\ "--signature" \in HostOptions
  /\ Options \cap (Stopping \cup HostOptions) = {}
  /\ \A a \in {"-h", "-?", "+other", "+elf_file", "+permissive", "+permissive-off", "++arg", "+signature"} :
       a \notin Options /\ a \notin Stopping
BY DEF Options, HostOptions, Flags, verilog_plusargs, Binary, Stopping

(* On a line of the documented form the loop stops at the binary or before. *)
LEMMA First ==
  ASSUME line \in Seq(STRING), NEW n \in DOMAIN line, BinaryAt(line, n),
         NEW k \in 1 .. Len(line) + 1, Rest(k)
  PROVE  /\ k \in 1 .. n /\ k \in 1 .. Len(line) /\ n \in Nat
         /\ args # <<>> /\ Head(args) = line[k]
         /\ k # n => Head(args) \in Options \cup HostOptions
         /\ k # n /\ HostBefore(line, n) = {} => Head(args) \in Options
<1>1. Len(line) \in Nat /\ n \in 1 .. Len(line)
  BY LenProperties
<1>2. line[n] \in Stopping
  BY DEF BinaryAt, Stopping
<1>3. k <= n
  BY <1>1, <1>2 DEF Rest
<1>4. k \in 1 .. n /\ k \in 1 .. Len(line)
  BY <1>1, <1>3
<1>5. args # <<>> /\ Head(args) = line[k]
  BY <1>4, Left DEF Rest
<1>6. k # n => k \in 1 .. n - 1
  BY <1>1, <1>4
<1>7. k # n => line[k] \in Options \cup HostOptions
  BY <1>6 DEF BinaryAt
<1>8. k # n /\ HostBefore(line, n) = {} => line[k] \in Options
  BY <1>6, <1>7 DEF HostBefore
<1> QED BY <1>1, <1>4, <1>5, <1>7, <1>8

(* An argument that is taken. *)
LEMMA ArgumentTaken ==
  ASSUME line \in Seq(STRING), line' = line, NEW k \in 1 .. Len(line) + 1, Rest(k),
         args # <<>>, Head(args) \notin Stopping, args' = Tail(args)
  PROVE  \E m \in 1 .. Len(line') + 1 : Rest(m)'
<1>1. Len(line) \in Nat /\ k # Len(line) + 1
  BY LenProperties, NothingLeft DEF Rest
<1>2. k \in 1 .. Len(line)
  BY <1>1
<1>3. Head(args) = line[k] /\ Tail(args) = SubSeq(line, k + 1, Len(line))
  BY <1>2, Left DEF Rest
<1>4. PICK m \in 1 .. Len(line) + 1 : m = k + 1
  BY <1>1, <1>2
<1>5. \A j \in 1 .. m - 1 : line[j] \notin Stopping
  <2>1. \A j \in 1 .. m - 1 : j = k \/ j \in 1 .. k - 1
    BY <1>1, <1>2, <1>4
  <2> QED BY <1>3, <2>1 DEF Rest
<1> QED BY <1>3, <1>4, <1>5 DEF Rest

LEMMA ParseStep == ParseInv /\ [TbNext]_tbvars => ParseInv'
<1> SUFFICES ASSUME ParseInv, [TbNext]_tbvars PROVE ParseInv'
  OBVIOUS
<1>1. line \in Seq(STRING) /\ prog \in Programs /\ RunsBinary /\ ArgsInv
  BY DEF ParseInv
<1>2. UNCHANGED <<line, prog, sim>>
  <2>1. Parse => UNCHANGED <<line, prog, sim>>
    BY ParseKeeps
  <2>2. NewJtag \/ NewDtm \/ ReadElf \/ Release \/ Preload \/ Judge \/ Delete \/ Exit
          => UNCHANGED <<line, prog, sim>>
    BY DEF NewJtag, NewDtm, ReadElf, Release, Preload, Judge, Delete, Exit, cmd
  <2>3. ResetCycle \/ MainLoop => UNCHANGED <<line, prog, sim>>
    BY DEF ResetCycle, ResetLow, ResetHigh, MainLoop, cmd
  <2>4. Sigterm \/ Sv => UNCHANGED <<line, prog, sim>>
    BY DEF Sigterm, Sv, SvReadElf, SvPreload, SvClock, SvExit, cmd
  <2>5. UNCHANGED tbvars => UNCHANGED <<line, prog, sim>>
    BY DEF tbvars, cmd
  <2> QED BY <2>1, <2>2, <2>3, <2>4, <2>5 DEF TbNext, Main
<1>3. /\ \A n : BinaryAt(line, n)' = BinaryAt(line, n) /\ HostBefore(line, n)' = HostBefore(line, n)
      /\ WellFormed(prog)' = WellFormed(prog)
  BY <1>2 DEF BinaryAt, HostBefore, WellFormed
(* Main goes on as it was, or elsewhere than to an error or the simulation. *)
<1>4. ASSUME mpc' \in {"usage", "help", "aborted"} => mpc \in {"usage", "help", "aborted"},
             Simulates' => Simulates \/ sim = "sv"
      PROVE  RunsBinary'
  BY <1>1, <1>2, <1>3, <1>4 DEF RunsBinary
(* Main gives up: the line is none of those that run. *)
<1>5. ASSUME mpc' \in {"usage", "help", "aborted"},
             \A n \in DOMAIN line : BinaryAt(line, n) /\ HostBefore(line, n) = {} => ~WellFormed(prog)
      PROVE  RunsBinary'
  <2>1. ~Simulates'
    BY <1>5 DEF Simulates
  <2> QED BY <1>2, <1>3, <1>5, <2>1 DEF RunsBinary
<1>6. ASSUME RunsBinary', ArgsInv', mpc' \in {"sv_elf", "sv_wait", "sv_run"} => sim = "sv"
      PROVE  ParseInv'
  BY <1>1, <1>2, <1>6 DEF ParseInv
(* The loop. *)
<1>7. CASE Parse
  <2>1. PICK k \in 1 .. Len(line) + 1 : Rest(k)
    BY <1>1, <1>7, ParseKeeps DEF ArgsInv
  <2>2. ASSUME mpc' = "parse", args # <<>>, Head(args) \notin Stopping, args' = Tail(args) PROVE ParseInv'
    <3>1. ArgsInv'
      BY <1>1, <1>2, <2>1, <2>2, ArgumentTaken DEF ArgsInv
    <3>2. RunsBinary'
      BY <1>4, <2>2 DEF Simulates
    <3> QED BY <1>6, <2>2, <3>1, <3>2
  <2>3. ASSUME args' = args,
               mpc' \in {"crashed", "no_trace"} \/ (mpc' = "build" /\ Head(args) \in HostOptions \cup {Binary})
        PROVE  ParseInv'
    <3>1. ArgsInv'
      BY <1>2, <2>1, <2>3 DEF ArgsInv, Rest
    <3>2. RunsBinary'
      BY <1>4, <2>3 DEF Simulates
    <3> QED BY <1>6, <2>3, <3>1, <3>2
  <2>4. ASSUME mpc' \in {"usage", "help"}, args = <<>> \/ Head(args) \notin Options \cup Stopping PROVE ParseInv'
    <3>1. ASSUME NEW n \in DOMAIN line, BinaryAt(line, n), HostBefore(line, n) = {} PROVE FALSE
      <4>1. /\ args # <<>> /\ Head(args) = line[k] /\ (k # n => Head(args) \in Options)
        BY <1>1, <2>1, <3>1, First
      <4>2. line[n] \in Stopping
        BY <3>1 DEF BinaryAt, Stopping
      <4> QED BY <2>4, <4>1, <4>2
    <3>2. RunsBinary'
      BY <1>5, <2>4, <3>1
    <3> QED BY <1>6, <2>4, <3>2 DEF ArgsInv
  <2>5. CASE NoBinary
    BY <2>4, <2>5 DEF NoBinary, Goto
  <2>6. CASE Help
    BY <2>4, <2>6, Others DEF Help, Goto
  <2>7. CASE PlainOption \/ PerfOption \/ FstOption
    <3>1. mpc' = "parse" /\ args # <<>> /\ Head(args) \in Options /\ args' = Tail(args)
      BY <2>7 DEF PlainOption, PerfOption, FstOption, Take, Goto, Options
    <3> QED BY <2>2, <3>1, Others
  <2>8. CASE VcdOption
    <3>1. /\ args # <<>> /\ Head(args) \in Options
          /\ (args' = Tail(args) /\ mpc' = "parse") \/ (mpc' = "no_trace" /\ args' = args)
      BY <2>8 DEF VcdOption, Take, Goto, Options
    <3> QED BY <2>2, <2>3, <3>1, Others
  <2>9. CASE UnknownPlus
    <3>1. /\ args # <<>>
          /\ Head(args) \in {"+other", "+elf_file", "+permissive", "+permissive-off", "++arg", "+signature"}
          /\ \/ args' = Tail(args) /\ mpc' = "parse"
             \/ mpc' = "crashed" /\ args' = args
             \/ mpc' = "build" /\ args' = args /\ Head(args) \in HostOptions
             \/ mpc' = "usage"
      BY <2>9 DEF UnknownPlus, Take, Goto
    <3> QED BY <2>2, <2>3, <2>4, <3>1, Others
  <2>10. CASE FirstOther
    BY <2>3, <2>10, Others DEF FirstOther, Goto, cmd
  <2> QED BY <1>7, <2>5, <2>6, <2>7, <2>8, <2>9, <2>10 DEF Parse
<1>8. CASE NewJtag \/ NewDtm
  <2>1. mpc \in {"build", "dtm"} /\ args' = args /\ mpc' \in {"dtm", "elf", "no_socket"}
    BY <1>8 DEF NewJtag, NewDtm, cmd
  <2>2. ArgsInv'
    BY <1>1, <1>2, <2>1 DEF ArgsInv, Rest
  <2> QED BY <1>4, <1>6, <2>1, <2>2 DEF Simulates
<1>9. CASE ReadElf
  <2>1. PICK k \in 1 .. Len(line) + 1 : Rest(k)
    BY <1>1, <1>9 DEF ReadElf, ArgsInv
  <2>2. CASE Head(args) = Binary /\ mpc' = "reset_low"
    <3>1. ASSUME NEW n \in DOMAIN line, BinaryAt(line, n), NEW j \in HostBefore(line, n), line[j] = "--signature"
          PROVE  FALSE
      <4>1. k = n
        BY <1>1, <2>1, <2>2, <3>1, First, Others
      <4>2. j \in 1 .. k - 1
        BY <4>1 DEF HostBefore
      <4> QED BY <2>1, <3>1, <4>2 DEF Rest, Stopping
    <3>2. RunsBinary'
      BY <1>2, <1>3, <2>2, <3>1 DEF RunsBinary
    <3> QED BY <1>6, <2>2, <3>2 DEF ArgsInv
  <2>3. CASE mpc' = "aborted" /\ Head(args) # Binary
    <3>1. ASSUME NEW n \in DOMAIN line, BinaryAt(line, n), HostBefore(line, n) = {} PROVE ~WellFormed(prog)
      <4>1. Head(args) \in HostOptions
        BY <1>1, <1>9, <2>3 DEF ReadElf, ArgsInv
      <4>2. Head(args) = line[k] /\ (k # n => Head(args) \in Options)
        BY <1>1, <2>1, <3>1, First
      <4> QED BY <2>3, <3>1, <4>1, <4>2, Others DEF BinaryAt
    <3> QED BY <1>5, <1>6, <2>3, <3>1 DEF ArgsInv
  <2>4. CASE mpc' = "aborted" /\ ReadElfAborts(prog)
    <3>1. ~WellFormed(prog)
      BY <1>1, <2>4, Symbols DEF ReadElfAborts
    <3> QED BY <1>5, <1>6, <2>4, <3>1 DEF ArgsInv
  <2> QED BY <1>9, <2>2, <2>3, <2>4 DEF ReadElf
<1>10. CASE SvReadElf
  <2>1. mpc = "sv_elf" /\ sim = "sv"
    BY <1>10 DEF SvReadElf, ParseInv
  <2>2. CASE mpc' \in {"sv_wait", "sv_run"}
    BY <1>4, <1>6, <2>1, <2>2 DEF Simulates, ArgsInv
  <2>3. CASE mpc' = "aborted" /\ ReadElfAborts(prog)
    <3>1. ~WellFormed(prog)
      BY <1>1, <2>3, Symbols DEF ReadElfAborts
    <3> QED BY <1>5, <1>6, <2>3, <3>1 DEF ArgsInv
  <2> QED BY <1>10, <2>2, <2>3 DEF SvReadElf
<1>11. CASE ResetCycle \/ Release \/ Preload \/ MainLoop \/ Judge \/ Delete \/ Exit
  <2>1. Simulates /\ Simulates'
    BY <1>11 DEF ResetCycle, ResetLow, ResetHigh, Release, Preload, MainLoop, Judge, Delete, Exit, Simulates
  <2> QED BY <1>4, <1>6, <2>1 DEF Simulates, ArgsInv
<1>12. CASE SvPreload \/ SvClock \/ SvExit
  <2>1. mpc \in {"sv_wait", "sv_run"} /\ mpc' \in {"sv_wait", "sv_run", "exit"} /\ sim = "sv"
    BY <1>12 DEF SvPreload, SvClock, SvExit, ParseInv
  <2> QED BY <1>4, <1>6, <2>1 DEF ArgsInv
<1>13. CASE Sigterm \/ UNCHANGED tbvars
  <2>1. \/ mpc' \in {"killed", "crashed"}
        \/ mpc' = mpc /\ args' = args
    BY <1>13 DEF Sigterm, tbvars, cmd
  <2>2. CASE mpc' \in {"killed", "crashed"}
    BY <1>4, <1>6, <2>2 DEF Simulates, ArgsInv
  <2>3. CASE mpc' = mpc /\ args' = args
    <3>1. ArgsInv'
      BY <1>1, <1>2, <2>3 DEF ArgsInv, Rest
    <3> QED BY <1>4, <1>6, <2>3, <3>1 DEF Simulates, ParseInv
  <2> QED BY <2>1, <2>2, <2>3
<1> QED BY <1>7, <1>8, <1>9, <1>10, <1>11, <1>12, <1>13 DEF TbNext, Main, Sv

(* A line of the documented form without host options gets as far as the   *)
(* simulation, one with a host option of the form --option never does: for *)
(* every sequence of the options and every program.                        *)
THEOREM DocumentedRuns == TbSpec => []RunsBinary
<1>1. TbInit => ParseInv
  <2> SUFFICES ASSUME TbInit PROVE ParseInv
    OBVIOUS
  <2>1. line \in Seq(STRING) /\ prog \in Programs /\ args = line /\ mpc \in {"parse", "sv_elf"}
    BY LinesAssumption DEF TbInit
  <2>2. mpc \in {"sv_elf", "sv_wait", "sv_run"} => sim = "sv"
    BY DEF TbInit
  <2>3. args = SubSeq(line, 1, Len(line)) /\ 1 \in 1 .. Len(line) + 1
    BY <2>1, SubSeqFull, LenProperties
  <2>4. ArgsInv
    <3>1. \A j \in 1 .. 1 - 1 : line[j] \notin Stopping
      OBVIOUS
    <3>2. Rest(1)
      BY <2>3, <3>1 DEF Rest
    <3>3. mpc # "parse" => mpc = "sv_elf"
      BY <2>1
    <3> QED BY <2>3, <3>2, <3>3 DEF ArgsInv
  <2> QED BY <2>1, <2>2, <2>4 DEF ParseInv, RunsBinary, Simulates
<1>2. ParseInv => RunsBinary
  BY DEF ParseInv
<1> QED BY <1>1, <1>2, ParseStep, PTL DEF TbSpec

-----------------------------------------------------------------------------
(* The image the core starts with. *)

(* Division by the bytes of a row. *)
LEMMA Quotient ==
  ASSUME NEW x \in Nat, NEW d \in Nat \ {0}
  PROVE  /\ x \div d \in Nat /\ x % d \in 0 .. d - 1
         /\ x = d * (x \div d) + (x % d)
OBVIOUS

LEMMA QuotientIs ==
  ASSUME NEW x \in Nat, NEW d \in Nat \ {0}, NEW q \in Nat, d * q <= x, x < d * q + d
  PROVE  x \div d = q
<1>1. PICK r \in Nat : r = x \div d /\ d * r <= x /\ x < d * r + d
  BY Quotient
<1>2. ASSUME r < q PROVE FALSE
  <2>1. r + 1 <= q
    BY <1>2
  <2>2. d * (r + 1) <= d * q
    BY <2>1
  <2> QED BY <1>1, <2>2
<1>3. ASSUME q < r PROVE FALSE
  <2>1. q + 1 <= r
    BY <1>3
  <2>2. d * (q + 1) <= d * r
    BY <2>1
  <2> QED BY <1>1, <2>2
<1> QED BY <1>1, <1>2, <1>3

LEMMA QuotientGrows ==
  ASSUME NEW x \in Nat, NEW y \in Nat, NEW d \in Nat \ {0}, x <= y
  PROVE  x \div d <= y \div d
<1>1. PICK r \in Nat : r = x \div d /\ d * r <= x /\ x < d * r + d
  BY Quotient
<1>2. PICK q \in Nat : q = y \div d /\ d * q <= y /\ y < d * q + d
  BY Quotient
<1>3. ASSUME q < r PROVE FALSE
  <2>1. q + 1 <= r
    BY <1>3
  <2>2. d * (q + 1) <= d * r
    BY <2>1
  <2> QED BY <1>1, <1>2, <2>2
<1> QED BY <1>1, <1>2, <1>3

(* The rows a segment is copied to are rows it covers, also when it does   *)
(* not start on a row.                                                     *)
LEMMA RowsWritten ==
  ASSUME NEW p \in Segment, p.memsz # 0, NEW r \in Nat,
         (p.addr % Span) \div RowBytes <= r,
         r < (p.addr % Span) \div RowBytes + (p.memsz + RowBytes - 1) \div RowBytes
  PROVE  r \in Rows(p)
<1> DEFINE a == p.addr % Span
           m == p.memsz
           R == RowBytes
<1>0. a \in Nat /\ m \in Nat \ {0} /\ R \in Nat \ {0}
  <2>1. p.addr \in Nat /\ p.memsz \in Nat
    BY DEF Segment
  <2>2. Span \in Nat \ {0} /\ RowBytes \in Nat \ {0}
    BY RowAssumption
  <2>3. \A x \in Nat, d \in Nat \ {0} : x % d \in Nat
    OBVIOUS
  <2>4. p.addr % Span \in Nat
    BY <2>1, <2>2, <2>3
  <2> QED BY <2>1, <2>2, <2>4
<1>a. a \div R <= r /\ r < a \div R + (m + R - 1) \div R
  OBVIOUS
<1> HIDE DEF a, m, R
<1>1. PICK f \in Nat : f = a \div R /\ R * f <= a /\ a < R * f + R
  BY <1>0, Quotient
<1>2. PICK w \in Nat : w = (m + R - 1) \div R /\ R * w <= m + R - 1
  <2> DEFINE y == m + R - 1
  <2>1. y \in Nat
    BY <1>0
  <2> HIDE DEF y
  <2>2. y \div R \in Nat /\ R * (y \div R) <= y
    BY <1>0, <2>1, Quotient
  <2> QED BY <2>2 DEF y
<1>3. f <= r /\ r < f + w
  BY <1>a, <1>1, <1>2
<1>4. CASE r = f
  <2>1. (a + 0) \div R = r /\ 0 \in 0 .. m - 1
    BY <1>0, <1>1, <1>4
  <2> QED BY <2>1 DEF Rows, a, m, R
<1>5. CASE r # f
  <2> DEFINE k == R * r - a
  <2>1. r >= f + 1 /\ r <= f + w - 1
    BY <1>1, <1>2, <1>3, <1>5
  <2>2. R * r >= R * (f + 1) /\ R * r <= R * (f + w - 1)
    BY <1>0, <1>1, <1>2, <2>1
  <2>3. R * (f + 1) = R * f + R /\ R * (f + w - 1) = R * f + R * w - R
    BY <1>0, <1>1, <1>2
  <2>4. R * r \in Nat /\ R * f \in Nat /\ R * w \in Nat
    BY <1>0, <1>1, <1>2
  <2>5. k \in 0 .. m - 1 /\ a + k = R * r
    BY <1>0, <1>1, <1>2, <2>2, <2>3, <2>4
  <2>6. (R * r) \div R = r
    BY <1>0, <2>4, QuotientIs
  <2> QED BY <2>5, <2>6 DEF Rows, a, m, R
<1> QED BY <1>4, <1>5

(* The parts of a segment. *)
LEMMA SegmentParts ==
  ASSUME prog \in Programs, NEW i \in DOMAIN prog.ph
  PROVE  /\ i \in Nat \ {0} /\ prog.ph[i] \in Segment
         /\ prog.ph[i].addr \in Nat /\ prog.ph[i].memsz \in Nat
         /\ prog.ph[i].addr % Span \in 0 .. Span - 1
         /\ Len(prog.ph[i].data) \in Nat /\ Len(prog.ph[i].data) <= prog.ph[i].memsz
<1>1. prog.ph \in Seq(Segment) /\ Len(prog.ph[i].data) <= prog.ph[i].memsz
  BY ProgramsAssumption
<1>2. i \in Nat \ {0} /\ prog.ph[i] \in Segment
  <2>1. DOMAIN prog.ph = 1 .. Len(prog.ph) /\ Len(prog.ph) \in Nat
    BY <1>1, LenProperties
  <2> QED BY <1>1, <2>1, ElementOfSeq
<1>3. prog.ph[i].addr \in Nat /\ prog.ph[i].memsz \in Nat /\ prog.ph[i].data \in Seq(Nat)
  BY <1>2 DEF Segment
<1>4. Len(prog.ph[i].data) \in Nat
  BY <1>3, LenProperties
<1>5. prog.ph[i].addr % Span \in 0 .. Span - 1
  <2>1. \A x \in Nat, d \in Nat \ {0} : x % d \in 0 .. d - 1
    OBVIOUS
  <2> QED BY <1>3, <2>1, RowAssumption
<1> QED BY <1>1, <1>2, <1>3, <1>4, <1>5

(* A segment with an address of its own has its bytes in the map. *)
LEMMA OwnBytes ==
  ASSUME prog \in Programs, NEW i \in Loadable(prog), Placed(prog, i)
  PROVE  write(prog, prog.ph[i].addr) = prog.ph[i].data
<1>1. {j \in Loadable(prog) : prog.ph[j].addr = prog.ph[i].addr} = {i}
  BY DEF Placed
<1>2. i <= i
  BY SegmentParts DEF Loadable
<1> QED BY <1>1, <1>2 DEF write

(* What is left of the copying: the map and the list are those of the      *)
(* program, what has been handed out is copied, and the last row written   *)
(* is one of it.                                                           *)
Blank == [b \in 0 .. Size - 1 |-> Garbage]
Copied(n) ==
  IF sim = "sv" THEN \A i \in Loadable(prog) : i <= n /\ Placed(prog, i) => Holds(init_val, prog, i)
  ELSE mem = IF \E i \in Loadable(prog) : i <= n /\ prog.ph[i].addr = Base THEN BaseImage(prog) ELSE Blank
ListInv ==
  /\ DOMAIN sections = Loadable(prog)
  /\ \A i \in Loadable(prog) : /\ sections[i].addr = prog.ph[i].addr /\ sections[i].len = prog.ph[i].memsz
                               /\ mems[prog.ph[i].addr] = write(prog, prog.ph[i].addr)
CopyInv ==
  /\ ListInv
  /\ section_index \in Nat
  /\ last_row = NoRow \/ \E j \in Loadable(prog) : j <= section_index /\ last_row \in Rows(prog.ph[j])
  /\ Copied(section_index)

(* get_section hands out a segment; those before it are out already. *)
LEMMA Handed ==
  ASSUME prog \in Programs, CopyInv, get_section
  PROVE  /\ section_index' \in Loadable(prog) /\ section_index < section_index' /\ section_index' \in Nat
         /\ \A i \in Loadable(prog) : i <= section_index' => i <= section_index \/ i = section_index'
<1>1. section_index' \in Loadable(prog) /\ section_index < section_index'
  BY DEF get_section, Waiting, CopyInv, ListInv
<1>2. section_index' \in Nat /\ section_index \in Nat
  BY <1>1, SegmentParts DEF Loadable, CopyInv, ListInv
<1>3. ASSUME NEW i \in Loadable(prog), i <= section_index', ~(i <= section_index) PROVE i = section_index'
  <2>1. i \in Nat
    BY SegmentParts DEF Loadable
  <2>2. section_index' <= i
    BY <1>2, <1>3, <2>1 DEF get_section, Waiting, CopyInv, ListInv
  <2> QED BY <1>2, <1>3, <2>1, <2>2
<1> QED BY <1>1, <1>2, <1>3

(* A segment that starts on a row does so in the memory, and the rows it   *)
(* is copied to reach its end.                                             *)
LEMMA OnRow ==
  ASSUME NEW x \in Nat, x % RowBytes = 0
  PROVE  RowBytes * ((x % Span) \div RowBytes) = x % Span
<1>1. RowBytes \in Nat \ {0} /\ Span \in Nat \ {0} /\ Span % RowBytes = 0
  BY RowAssumption
<1>2. PICK u \in Nat : x = RowBytes * u
  BY <1>1, Quotient
<1>3. PICK s \in Nat : Span = RowBytes * s
  <2>1. /\ Span \div RowBytes \in Nat
        /\ Span = RowBytes * (Span \div RowBytes) + (Span % RowBytes)
    BY <1>1, Quotient
  <2>2. PICK k \in Nat : Span = RowBytes * k + (Span % RowBytes)
    BY <2>1, Zenon
  <2>3. Span = RowBytes * k
    <3>1. RowBytes * k \in Nat
      BY <1>1
    <3> QED BY <1>1, <2>2, <3>1
  <2> QED BY <2>3, Zenon
<1>4. PICK q \in Nat, a \in Nat : x = Span * q + a /\ a = x % Span
  BY <1>1, Quotient
<1>5. PICK t \in Nat : Span * q = RowBytes * t
  <2>1. s * q \in Nat /\ (RowBytes * s) * q = RowBytes * (s * q)
    BY <1>1, <1>3, <1>4
  <2>2. Span * q = RowBytes * (s * q)
    BY <1>3, <2>1
  <2> QED BY <2>1, <2>2, Zenon
<1> DEFINE v == u - t
<1>6. v \in Int
  BY <1>2, <1>5
<1>7. a = RowBytes * v
  <2>1. RowBytes * (u - t) = RowBytes * u - RowBytes * t
    BY <1>1, <1>2, <1>5
  <2>2. RowBytes * u \in Nat /\ RowBytes * t \in Nat
    BY <1>1, <1>2, <1>5
  <2>3. RowBytes * u = RowBytes * t + a
    BY <1>2, <1>4, <1>5
  <2> QED BY <1>4, <2>1, <2>2, <2>3
<1> HIDE DEF v
<1>8. v \in Nat
  <2>1. ASSUME v < 0 PROVE FALSE
    <3>1. v + 1 <= 0
      BY <1>6, <2>1
    <3>2. RowBytes * (v + 1) <= 0
      BY <1>1, <1>6, <3>1
    <3>3. RowBytes * (v + 1) = RowBytes * v + RowBytes
      BY <1>1, <1>6
    <3>4. a + RowBytes <= 0
      BY <1>7, <3>2, <3>3
    <3> QED BY <1>1, <1>4, <3>4
  <2> QED BY <1>6, <2>1
<1>9. a \div RowBytes = v
  <2>1. a <= a /\ a < a + RowBytes
    BY <1>1, <1>4
  <2>2. RowBytes * v <= a /\ a < RowBytes * v + RowBytes
    BY <1>7, <2>1
  <2> QED BY <1>1, <1>4, <1>8, <2>2, QuotientIs
<1> QED BY <1>4, <1>7, <1>9

LEMMA RowOf ==
  ASSUME NEW a \in Nat, NEW m \in Nat \ {0}, NEW k \in 0 .. m - 1,
         RowBytes * (a \div RowBytes) = a
  PROVE  /\ a \div RowBytes <= (a + k) \div RowBytes
         /\ (a + k) \div RowBytes < a \div RowBytes + (m + RowBytes - 1) \div RowBytes
         /\ k \in 0 .. ((m + RowBytes - 1) \div RowBytes) * RowBytes - 1
         /\ (a + k) - (a \div RowBytes) * RowBytes = k
<1>1. RowBytes \in Nat \ {0}
  BY RowAssumption
<1>2. PICK f \in Nat : f = a \div RowBytes /\ RowBytes * f = a
  BY <1>1, Quotient
<1>3. PICK w \in Nat : w = (m + RowBytes - 1) \div RowBytes /\ m + RowBytes - 1 < RowBytes * w + RowBytes
  <2> DEFINE y == m + RowBytes - 1
  <2>1. y \in Nat
    BY <1>1
  <2> HIDE DEF y
  <2>2. y \div RowBytes \in Nat /\ y < RowBytes * (y \div RowBytes) + RowBytes
    BY <1>1, <2>1, Quotient
  <2> QED BY <2>2 DEF y
<1>4. PICK r \in Nat : r = (a + k) \div RowBytes /\ RowBytes * r <= a + k
  <2> DEFINE y == a + k
  <2>1. y \in Nat
    BY <1>1
  <2> HIDE DEF y
  <2>2. y \div RowBytes \in Nat /\ RowBytes * (y \div RowBytes) <= y
    BY <1>1, <2>1, Quotient
  <2> QED BY <2>2 DEF y
<1>5. RowBytes * w \in Nat /\ m <= RowBytes * w
  BY <1>1, <1>3
<1>6. f <= r
  BY <1>1, <1>2, <1>4, QuotientGrows
<1>7. r < f + w
  <2>1. ASSUME f + w <= r PROVE FALSE
    <3>1. RowBytes * (f + w) <= RowBytes * r
      BY <1>1, <1>2, <1>3, <1>4, <2>1
    <3>2. RowBytes * (f + w) = RowBytes * f + RowBytes * w
      BY <1>1, <1>2, <1>3
    <3> QED BY <1>1, <1>2, <1>4, <1>5, <3>1, <3>2
  <2> QED BY <1>2, <1>3, <1>4, <2>1
<1>8. k \in 0 .. w * RowBytes - 1
  BY <1>1, <1>3, <1>5
<1>9. (a + k) - f * RowBytes = k
  BY <1>1, <1>2
<1> QED BY <1>2, <1>3, <1>4, <1>6, <1>7, <1>8, <1>9

(* A segment with a byte in memory has a row. *)
LEMMA SomeRow ==
  ASSUME NEW m \in Nat \ {0}
  PROVE  (m + RowBytes - 1) \div RowBytes \in Nat \ {0}
<1> DEFINE y == m + RowBytes - 1
<1>1. RowBytes \in Nat \ {0} /\ y \in Nat /\ y >= RowBytes
  BY RowAssumption
<1> HIDE DEF y
<1>2. y \div RowBytes \in Nat /\ y < RowBytes * (y \div RowBytes) + RowBytes
  BY <1>1, Quotient
<1>3. y \div RowBytes # 0
  BY <1>1, <1>2
<1> QED BY <1>2, <1>3 DEF y

(* The program and what is asked of its segments do not change. *)
LEMMA SameProgram ==
  ASSUME UNCHANGED prog
  PROVE  /\ prog'.ph = prog.ph
         /\ Loadable(prog)' = Loadable(prog) /\ BaseImage(prog)' = BaseImage(prog)
         /\ \A i : Placed(prog, i)' = Placed(prog, i) /\ Rows(prog.ph[i])' = Rows(prog.ph[i])
         /\ \A i, b : Alone(prog, i, b)' = Alone(prog, i, b)
         /\ \A a : write(prog, a)' = write(prog, a)
<1>1. prog' = prog
  OBVIOUS
<1>2. Loadable(prog)' = Loadable(prog)
  BY <1>1 DEF Loadable
<1>3. \A i : Placed(prog, i)' = Placed(prog, i) /\ Rows(prog.ph[i])' = Rows(prog.ph[i])
  BY <1>1, <1>2 DEF Placed, Rows
<1>4. \A i, b : Alone(prog, i, b)' = Alone(prog, i, b)
  BY <1>1, <1>2, <1>3 DEF Alone
<1>5. \A a : write(prog, a)' = write(prog, a)
  BY <1>1, <1>2 DEF write
<1>6. BaseImage(prog)' = BaseImage(prog)
  BY <1>1, <1>2, <1>5 DEF BaseImage
<1> QED BY <1>1, <1>2, <1>3, <1>4, <1>5, <1>6

LEMMA SameList ==
  ASSUME ListInv, UNCHANGED <<prog, sections, mems>> PROVE ListInv'
BY SameProgram DEF ListInv

(* ariane_tb.sv's copy of a section puts the bytes of its segment in       *)
(* init_val that share no row, and leaves such bytes of others alone.      *)
LEMMA CopyRows ==
  ASSUME prog \in Programs, CopyInv, DOMAIN init_val = 0 .. Size - 1, sim = "sv",
         PreloadRows, UNCHANGED <<sim, prog>>
  PROVE  CopyInv' /\ DOMAIN init_val' = 0 .. Size - 1
<1> DEFINE n == section_index'
           p == prog.ph[n]
           d == mems[p.addr]
           a == p.addr % Span
           first == a \div RowBytes
           words == (p.memsz + RowBytes - 1) \div RowBytes
           from == IF first = last_row THEN first + 1 ELSE first
           buffer == [k \in 0 .. words * RowBytes - 1 |-> IF k < Len(d) THEN d[k + 1] ELSE 0]
<1>1. /\ n \in Loadable(prog) /\ section_index < n /\ n \in Nat /\ section_index \in Nat
      /\ \A i \in Loadable(prog) : i <= n => i <= section_index \/ i = n
  BY Handed DEF PreloadRows, CopyInv
<1>2. p \in Segment /\ p.memsz \in Nat \ {0} /\ p.addr \in Nat /\ a \in Nat
  BY <1>1, SegmentParts, RowAssumption DEF Loadable
<1>3. sections[n].addr = p.addr /\ sections[n].len = p.memsz
  BY <1>1 DEF CopyInv, ListInv
<1>4. /\ init_val' = [b \in DOMAIN init_val |-> LET r == b \div RowBytes
                                                IN  IF from <= r /\ r < first + words
                                                    THEN buffer[b - first * RowBytes] ELSE init_val[b]]
      /\ last_row' = IF from < first + words THEN first + words - 1 ELSE last_row
      /\ UNCHANGED <<sections, mems, mem>>
  BY <1>3 DEF PreloadRows, Current, read_section
<1>5. RowBytes \in Nat \ {0} /\ Size \in Nat \ {0}
  BY RowAssumption
<1>6. first \in Nat /\ words \in Nat \ {0}
  <2>1. first \in Nat
    BY <1>2, <1>5, Quotient
  <2>2. words \in Nat \ {0}
    BY <1>2, SomeRow
  <2> QED BY <2>1, <2>2
<1>7. /\ \A r \in Nat : first <= r /\ r < first + words => r \in Rows(p)
      /\ \A b \in DOMAIN init_val : b \in Nat /\ b \div RowBytes \in Nat
  <2>1. ASSUME NEW r \in Nat, first <= r, r < first + words PROVE r \in Rows(p)
    BY <1>2, <2>1, RowsWritten
  <2>2. ASSUME NEW b \in DOMAIN init_val PROVE b \in Nat /\ b \div RowBytes \in Nat
    <3>1. b \in Nat
      BY <1>5, <2>2
    <3> QED BY <1>5, <3>1, Quotient
  <2> QED BY <2>1, <2>2
<1> HIDE DEF n, words, buffer
(* Bytes in rows the segment does not cover stay. *)
<1>8. ASSUME NEW b \in DOMAIN init_val, b \div RowBytes \notin Rows(p) PROVE init_val'[b] = init_val[b]
  <2>1. ~(from <= b \div RowBytes /\ b \div RowBytes < first + words)
    <3>1. first <= from
      BY <1>6
    <3> HIDE DEF from, first
    <3>2. from \in Nat
      BY <1>6 DEF from
    <3> QED BY <1>6, <1>7, <1>8, <3>1, <3>2
  <2> QED BY <1>4, <2>1
(* A row of this segment alone is not the last one written. *)
<1>9. ASSUME NEW r \in Nat, \A j \in Loadable(prog) \ {n} : r \notin Rows(prog.ph[j]) PROVE r # last_row
  <2>1. CASE last_row = NoRow
    BY <2>1 DEF NoRow
  <2>2. ASSUME NEW j \in Loadable(prog), j <= section_index, last_row \in Rows(prog.ph[j]) PROVE r # last_row
    <3>1. j \in Nat /\ j # n
      BY <1>1, <2>2, SegmentParts DEF Loadable
    <3> QED BY <1>9, <2>2, <3>1
  <2> QED BY <2>1, <2>2 DEF CopyInv
(* The bytes of the segment. *)
<1>10. ASSUME Placed(prog, n), NEW k \in 0 .. p.memsz - 1, Alone(prog, n, a + k)
       PROVE  init_val'[a + k] = IF k < Len(p.data) THEN p.data[k + 1] ELSE 0
  <2>1. RowBytes * (a \div RowBytes) = a
    BY <1>2, <1>10, OnRow DEF Placed
  <2> HIDE DEF a
  <2>2. a + k \in Nat /\ a + k < Size
    BY <1>2, <1>10 DEF Alone
  <2>3. a + k \in DOMAIN init_val
    BY <1>5, <2>2
  <2>4. /\ first <= (a + k) \div RowBytes /\ (a + k) \div RowBytes < first + words
        /\ k \in 0 .. words * RowBytes - 1 /\ (a + k) - first * RowBytes = k
    BY <1>2, <1>10, <2>1, RowOf DEF words
  <2>5. (a + k) \div RowBytes \in Nat /\ (a + k) \div RowBytes # last_row
    BY <1>7, <1>9, <1>10, <2>3 DEF Alone
  <2>6. from <= (a + k) \div RowBytes
    <3> HIDE DEF first
    <3> QED BY <1>6, <2>4, <2>5
  <2>7. init_val'[a + k] = buffer[k]
    BY <1>4, <2>3, <2>4, <2>6
  <2>8. d = p.data
    BY <1>1, <1>10, OwnBytes DEF CopyInv, ListInv
  <2> QED BY <2>4, <2>7, <2>8 DEF buffer
(* The ones before it stay where they are. *)
<1>11. ASSUME NEW i \in Loadable(prog), i <= section_index, NEW b \in Nat, Alone(prog, i, b)
       PROVE  init_val'[b] = init_val[b]
  <2>1. i # n
    BY <1>1, <1>11, SegmentParts DEF Loadable
  <2>2. b \in DOMAIN init_val
    BY <1>5, <1>11 DEF Alone
  <2>3. b \div RowBytes \notin Rows(p)
    BY <1>1, <1>11, <2>1 DEF Alone
  <2> QED BY <1>8, <2>2, <2>3
<1>12. Copied(section_index)'
  <2> SUFFICES ASSUME NEW i \in Loadable(prog), i <= n, Placed(prog, i),
                      NEW k \in 0 .. prog.ph[i].memsz - 1, Alone(prog, i, (prog.ph[i].addr % Span) + k)
               PROVE  init_val'[(prog.ph[i].addr % Span) + k]
                        = IF k < Len(prog.ph[i].data) THEN prog.ph[i].data[k + 1] ELSE 0
    BY SameProgram DEF Copied, Holds, n
  <2>1. CASE i = n
    BY <1>10, <2>1
  <2>2. CASE i <= section_index
    <3>1. Holds(init_val, prog, i)
      BY <2>2 DEF CopyInv, Copied
    <3>2. (prog.ph[i].addr % Span) + k \in Nat
      BY SegmentParts, RowAssumption DEF Loadable
    <3> QED BY <1>11, <2>2, <3>1, <3>2 DEF Holds
  <2> QED BY <1>1, <2>1, <2>2
<1>13. \/ last_row' = NoRow
       \/ \E j \in Loadable(prog)' : j <= section_index' /\ last_row' \in Rows(prog.ph[j])'
  <2>1. CASE from < first + words
    <3>1. first + words - 1 \in Nat /\ first <= first + words - 1 /\ first + words - 1 < first + words
      BY <1>6
    <3>2. last_row' \in Rows(p) /\ n <= n
      BY <1>1, <1>4, <1>7, <2>1, <3>1
    <3> QED BY <1>1, <3>2, SameProgram DEF n
  <2>2. CASE ~(from < first + words)
    <3>1. last_row' = last_row
      BY <1>4, <2>2
    <3>2. \A j \in Loadable(prog) : j <= section_index => j <= n
      BY <1>1, SegmentParts DEF Loadable
    <3> QED BY <3>1, <3>2, SameProgram DEF CopyInv, n
  <2> QED BY <2>1, <2>2
<1>14. ListInv'
  BY <1>4, SameList DEF CopyInv
<1>15. DOMAIN init_val' = 0 .. Size - 1
  BY <1>4
<1> QED BY <1>1, <1>12, <1>13, <1>14, <1>15 DEF CopyInv, n

(* ariane_tb.cpp's copy: only the section at the DRAM's address moves, to  *)
(* the beginning of the memory.                                            *)
LEMMA CopyBase ==
  ASSUME prog \in Programs, CopyInv, sim # "sv", PreloadBase, UNCHANGED <<sim, prog>>
  PROVE  CopyInv'
<1> DEFINE n == section_index'
           d == mems[Base]
           Found(m) == \E i \in Loadable(prog) : i <= m /\ prog.ph[i].addr = Base
<1>1. /\ n \in Loadable(prog) /\ section_index < n /\ n \in Nat /\ section_index \in Nat
      /\ \A i \in Loadable(prog) : i <= n => i <= section_index \/ i = n
  BY Handed DEF PreloadBase, CopyInv
<1>2. sections[n].addr = prog.ph[n].addr
  BY <1>1 DEF CopyInv, ListInv
<1>3. /\ mem' = IF prog.ph[n].addr # Base THEN mem
                ELSE [b \in DOMAIN mem |-> IF b < Len(d) THEN d[b + 1] ELSE mem[b]]
      /\ UNCHANGED <<sections, mems, last_row>>
  BY <1>2 DEF PreloadBase, Current, read_section
<1>4. mem = IF Found(section_index) THEN BaseImage(prog) ELSE Blank
  BY DEF CopyInv, Copied
<1> HIDE DEF n
<1>5. \A i \in Loadable(prog) : i <= section_index => i <= n
  BY <1>1, SegmentParts DEF Loadable
<1>6. mem' = IF Found(n) THEN BaseImage(prog) ELSE Blank
  <2>1. CASE prog.ph[n].addr = Base
    <3>1. Found(n)
      <4>1. n <= n
        BY <1>1
      <4> QED BY <1>1, <2>1, <4>1
    <3>2. d = write(prog, Base)
      BY <1>1, <2>1 DEF CopyInv, ListInv
    <3>3. BaseImage(prog) = [b \in 0 .. Size - 1 |-> IF b < Len(d) THEN d[b + 1] ELSE Garbage]
      BY <1>1, <2>1, <3>2 DEF BaseImage
    <3>4. /\ DOMAIN mem = 0 .. Size - 1
          /\ \A b \in 0 .. Size - 1 : ~(b < Len(d)) => mem[b] = Garbage
      BY <1>4, <3>3 DEF Blank
    <3>5. mem' = BaseImage(prog)
      BY <1>3, <2>1, <3>3, <3>4
    <3> QED BY <3>1, <3>5
  <2>2. CASE prog.ph[n].addr # Base
    <3>1. Found(n) <=> Found(section_index)
      BY <1>1, <1>5, <2>2
    <3> QED BY <1>3, <1>4, <2>2, <3>1
  <2> QED BY <2>1, <2>2
<1>9. Copied(section_index)'
  BY <1>6, SameProgram DEF Copied, n, Blank
<1>10. \/ last_row' = NoRow
       \/ \E j \in Loadable(prog)' : j <= section_index' /\ last_row' \in Rows(prog.ph[j])'
  BY <1>3, <1>5, SameProgram DEF CopyInv, n
<1>11. ListInv'
  BY <1>3, SameList DEF CopyInv
<1> QED BY <1>1, <1>9, <1>10, <1>11 DEF CopyInv, n

(* read_elf leaves the list and the map of the program, nothing copied. *)
LEMMA CopyStarts ==
  ASSUME prog \in Programs, read_elf(prog), UNCHANGED <<sim, prog>>, section_index = 0, last_row = NoRow,
         sim # "sv" => mem = Blank
  PROVE  CopyInv'
<1>1. /\ sections' = [i \in Loadable(prog) |-> [addr |-> prog.ph[i].addr, len |-> prog.ph[i].memsz]]
      /\ mems' = [a \in {prog.ph[i].addr : i \in Loadable(prog)} |-> write(prog, a)]
      /\ section_index' = 0 /\ last_row' = NoRow /\ mem' = mem
  BY DEF read_elf
<1>2. \A i \in Loadable(prog) : ~(i <= 0)
  BY SegmentParts DEF Loadable
<1>3. Copied(section_index)'
  BY <1>1, <1>2, SameProgram DEF Copied, Blank
<1>4. \A i \in Loadable(prog) : mems'[prog.ph[i].addr] = write(prog, prog.ph[i].addr)
  BY <1>1
<1>5. ListInv'
  BY <1>1, <1>4, SameProgram DEF ListInv
<1> QED BY <1>1, <1>3, <1>5 DEF CopyInv

(* Every segment is in init_val as ariane_tb.sv is to have it. *)
InitHolds == \A i \in Loadable(prog) : Placed(prog, i) => Holds(init_val, prog, i)

(* Everything is copied once no section is left. *)
LEMMA AllCopied ==
  ASSUME prog \in Programs, CopyInv, NoMoreSections
  PROVE  IF sim = "sv" THEN InitHolds ELSE mem = BaseImage(prog)
<1>1. ASSUME NEW i \in Loadable(prog) PROVE i <= section_index
  <2>1. i \in Nat /\ section_index \in Nat /\ ~(i > section_index)
    BY SegmentParts DEF Loadable, CopyInv, ListInv, NoMoreSections, Waiting
  <2> QED BY <2>1
<1>2. CASE sim = "sv"
  BY <1>1, <1>2 DEF CopyInv, Copied, InitHolds
<1>3. CASE sim # "sv" /\ \E i \in Loadable(prog) : prog.ph[i].addr = Base
  BY <1>1, <1>3 DEF CopyInv, Copied
<1>4. CASE sim # "sv" /\ ~\E i \in Loadable(prog) : prog.ph[i].addr = Base
  <2>1. mem = Blank
    BY <1>4 DEF CopyInv, Copied
  <2>2. \A b \in 0 .. Size - 1 : ~(b < Len(<<>>))
    BY RowAssumption
  <2>3. BaseImage(prog) = Blank
    BY <1>4, <2>2 DEF BaseImage, Blank
  <2> QED BY <1>4, <2>1, <2>3
<1> QED BY <1>2, <1>3, <1>4

(* Which simulation is where; the first edges of ariane_tb.sv's clock, of  *)
(* which the one at 3 is in reset; and that its core wakes up out of it.   *)
TimeInv ==
  /\ mpc \in {"sv_elf", "sv_wait", "sv_run"} => sim = "sv"
  /\ mpc \in MainOnly => sim = "verilator"
  /\ sim = "sv" => /\ main_time \in Nat
                   /\ main_time = 0 \/ main_time = 2 => ~clk_i
                   /\ main_time = 1 => clk_i
                   /\ rst_ni \/ awake => main_time >= 4
                   /\ mpc = "sv_elf" => main_time = 0
                   /\ mpc = "sv_wait" => main_time < 2

LEMMA TimeStep == TimeInv /\ [TbNext]_tbvars => TimeInv'
<1> SUFFICES ASSUME TimeInv, [TbNext]_tbvars PROVE TimeInv'
  OBVIOUS
<1> USE DEF MainOnly
<1>1. ASSUME UNCHANGED <<sim, clk_i, rst_ni, main_time, awake>>,
             mpc' \in {"sv_elf", "sv_wait", "sv_run"} =>
               (mpc \in {"sv_elf", "sv_wait", "sv_run"} /\ mpc' # "sv_elf") \/ mpc' = mpc,
             mpc' = "sv_wait" => mpc \in {"sv_elf", "sv_wait"},
             mpc' \in MainOnly => mpc \in MainOnly
      PROVE  TimeInv'
  <2>1. sim = "sv" => main_time \in Nat /\ (main_time = 0 => main_time < 2)
    BY DEF TimeInv
  <2> QED BY <1>1, <2>1, Zenon DEF TimeInv
<1>2. CASE UNCHANGED tbvars
  BY <1>1, <1>2 DEF tbvars, cmd, hw
<1>3. CASE Parse
  BY <1>1, <1>3, ParseKeeps DEF hw
<1>4. CASE NewJtag \/ NewDtm \/ ReadElf \/ Preload \/ Judge \/ Delete \/ Exit \/ Sigterm
             \/ SvReadElf \/ SvPreload \/ SvExit
  <2>1. UNCHANGED <<sim, clk_i, rst_ni, main_time, awake>>
    BY <1>4 DEF NewJtag, NewDtm, ReadElf, Preload, Judge, Delete, Exit, Sigterm, SvReadElf, SvPreload, SvExit,
                cmd, hw
  <2>2. /\ mpc' \in {"sv_elf", "sv_wait", "sv_run"} =>
             (mpc \in {"sv_elf", "sv_wait", "sv_run"} /\ mpc' # "sv_elf") \/ mpc' = mpc
        /\ mpc' = "sv_wait" => mpc \in {"sv_elf", "sv_wait"}
        /\ mpc' \in MainOnly => mpc \in MainOnly
    BY <1>4 DEF NewJtag, NewDtm, ReadElf, Preload, Judge, Delete, Exit, Sigterm, SvReadElf, SvPreload, SvExit
  <2> QED BY <1>1, <2>1, <2>2
<1>5. CASE ResetCycle \/ Release \/ MainLoop
  <2>1. mpc \in MainOnly /\ mpc' \in MainOnly /\ sim' = sim
    BY <1>5 DEF ResetCycle, ResetLow, ResetHigh, Release, MainLoop, cmd
  <2> QED BY <2>1 DEF TimeInv
<1>6. CASE SvClock
  <2>1. /\ mpc' = mpc /\ sim' = sim
        /\ mpc = "sv_run" \/ (mpc = "sv_wait" /\ ~clk_i)
        /\ clk_i' = ~clk_i /\ main_time' = main_time + 1 /\ rst_ni' = (main_time' >= SvResetEdges)
        /\ awake' => awake \/ rst_ni
    BY <1>6, Zenon DEF SvClock, RisingEdge, cmd
  <2>2. sim = "sv"
    BY <2>1 DEF TimeInv
  <2>3. /\ main_time \in Nat /\ main_time' \in Nat
        /\ main_time' # 0
        /\ main_time' = 1 => main_time = 0
        /\ main_time' = 2 => main_time = 1
        /\ main_time >= 4 => main_time' >= 4
        /\ main_time' >= SvResetEdges => main_time' >= 4
    BY <2>1, <2>2, ResetAssumption DEF TimeInv
  <2>4. mpc = "sv_wait" => main_time' < 2
    <3>1. mpc = "sv_wait" => main_time # 1 /\ main_time < 2
      BY <2>1, <2>2, Zenon DEF TimeInv
    <3> QED BY <2>1, <2>3, <3>1
  <2> QED BY <2>1, <2>2, <2>3, <2>4, Zenon DEF TimeInv
<1> QED BY <1>2, <1>3, <1>4, <1>5, <1>6 DEF TbNext, Main, Sv

(* Where main, or the sv testbench, is before the program is read, until   *)
(* it is all copied, and where main is sure to hold the reset.             *)
Unread == {"parse", "build", "dtm", "elf", "sv_elf"}
Copying == {"reset_low", "reset_high", "release", "preload", "sv_wait"}
InReset == {"parse", "build", "dtm", "elf", "reset_low", "reset_high"}

(* The core sleeps until the copy is complete.  The Verilator program      *)
(* gives it no edge between the release of the reset and the end of the    *)
(* copy; in ariane_tb.sv init_val is complete after the first rising edge  *)
(* and the memory after the second one, both in reset.                     *)
ImageInv ==
  /\ prog \in Programs /\ DOMAIN init_val = 0 .. Size - 1
  /\ mpc \in Unread => section_index = 0 /\ last_row = NoRow /\ (sim # "sv" => mem = Blank)
  /\ mpc \in Copying => CopyInv
  /\ mpc \in Unread \cup Copying => ~awake
  /\ mpc \in InReset => ~rst_ni
  /\ mpc \in {"low", "high"} => mem = BaseImage(prog)
  /\ mpc = "sv_run" => (elf_file => InitHolds) /\ (main_time >= 3 => mem = init_val)
  /\ ImageLoaded

LEMMA ImageKept ==
  ASSUME UNCHANGED <<sections, mems, section_index, mem, init_val, last_row, sim, prog, line>>
  PROVE  /\ CopyInv' = CopyInv /\ InitHolds' = InitHolds /\ BaseImage(prog)' = BaseImage(prog)
         /\ elf_file' = elf_file
         /\ (awake' => awake) => (ImageLoaded => ImageLoaded')
<1>1. \A i : /\ Holds(init_val, prog, i)' = Holds(init_val, prog, i)
             /\ Holds(mem, prog, i)' = Holds(mem, prog, i)
  BY SameProgram DEF Holds
<1>2. Copied(section_index)' = Copied(section_index) /\ InitHolds' = InitHolds /\ elf_file' = elf_file
  BY <1>1, SameProgram DEF Copied, InitHolds, Blank, elf_file
<1>3. ListInv' = ListInv
  BY SameProgram DEF ListInv
<1>4. ASSUME awake' => awake, ImageLoaded PROVE ImageLoaded'
  BY <1>1, <1>2, <1>4, SameProgram DEF ImageLoaded
<1> QED BY <1>2, <1>3, <1>4, SameProgram DEF CopyInv

(* A step that leaves memory and loader alone and wakes nobody up. *)
LEMMA QuietStep ==
  ASSUME ImageInv, UNCHANGED <<sections, mems, section_index, mem, init_val, last_row, sim, prog, line>>,
         awake' => awake,
         mpc' \in Unread => mpc \in Unread,
         mpc' \in Copying => mpc \in Copying,
         mpc' \in InReset => ~rst_ni',
         mpc' \in {"low", "high"} => mem = BaseImage(prog),
         mpc' = "sv_run" => (elf_file => InitHolds) /\ (main_time' >= 3 => mem = init_val)
  PROVE  ImageInv'
<1>1. /\ CopyInv' = CopyInv /\ InitHolds' = InitHolds /\ BaseImage(prog)' = BaseImage(prog)
      /\ elf_file' = elf_file /\ ImageLoaded'
  BY ImageKept DEF ImageInv
<1>2. mpc' \in Unread => section_index' = 0 /\ last_row' = NoRow /\ (sim' # "sv" => mem' = Blank')
  BY DEF ImageInv, Blank
<1>3. mpc' \in Copying => CopyInv'
  BY <1>1 DEF ImageInv
<1>4. mpc' \in Unread \cup Copying => ~awake'
  BY DEF ImageInv
<1>5. mpc' = "sv_run" => (elf_file' => InitHolds') /\ (main_time' >= 3 => mem' = init_val')
  BY <1>1
<1>6. prog' \in Programs /\ DOMAIN init_val' = 0 .. Size - 1
  BY DEF ImageInv
<1> QED BY <1>1, <1>2, <1>3, <1>4, <1>5, <1>6 DEF ImageInv

LEMMA ImageStep == TimeInv /\ ImageInv /\ [TbNext]_tbvars => ImageInv'
<1> SUFFICES ASSUME TimeInv, ImageInv, [TbNext]_tbvars PROVE ImageInv'
  OBVIOUS
<1> USE DEF Unread, Copying, InReset
<1>1. prog \in Programs /\ DOMAIN init_val = 0 .. Size - 1
  BY DEF ImageInv
<1>2. CASE UNCHANGED tbvars
  BY <1>2, QuietStep DEF tbvars, elfvars, cmd, hw, ImageInv
<1>3. CASE Parse
  <2>1. /\ mpc = "parse" /\ mpc' \in {"parse", "build", "usage", "help", "no_trace", "crashed"}
        /\ UNCHANGED <<sections, mems, section_index, mem, init_val, last_row, sim, prog, line, rst_ni, awake>>
    BY <1>3, ParseKeeps DEF elfvars, hw
  <2>2. ~rst_ni
    BY <2>1 DEF ImageInv
  <2> QED BY <2>1, <2>2, QuietStep
<1>4. CASE NewJtag \/ NewDtm
  <2>1. /\ mpc \in {"build", "dtm"} /\ mpc' \in {"dtm", "elf", "no_socket"}
        /\ UNCHANGED <<sections, mems, section_index, mem, init_val, last_row, sim, prog, line, rst_ni, awake>>
    BY <1>4 DEF NewJtag, NewDtm, elfvars, cmd, hw
  <2>2. ~rst_ni
    BY <2>1 DEF ImageInv
  <2> QED BY <2>1, <2>2, QuietStep
<1>5. CASE ReadElf \/ SvReadElf
  <2>1. mpc \in {"elf", "sv_elf"} /\ UNCHANGED <<sim, prog, line, rst_ni, main_time, awake>>
    BY <1>5 DEF ReadElf, SvReadElf, cmd, hw
  <2>2. CASE mpc' = "aborted" /\ UNCHANGED elfvars
    BY <2>1, <2>2, QuietStep DEF elfvars
  <2>3. CASE read_elf(prog) /\ mpc' = IF mpc = "elf" THEN "reset_low" ELSE "sv_wait"
    <3>1. CopyInv'
      BY <1>1, <2>1, <2>3, CopyStarts DEF ImageInv
    <3>2. init_val' = init_val /\ ~awake'
      BY <2>1, <2>3 DEF read_elf, ImageInv
    <3>3. mpc' \in InReset => ~rst_ni'
      BY <2>1, <2>3 DEF ImageInv
    <3> QED BY <1>1, <2>1, <2>3, <3>1, <3>2, <3>3 DEF ImageInv, ImageLoaded
  <2>4. CASE mpc = "sv_elf" /\ ~elf_file /\ mpc' = "sv_run" /\ UNCHANGED elfvars
    <3>1. sim = "sv" /\ main_time = 0 /\ ~(0 >= 3)
      BY <2>4 DEF TimeInv
    <3> QED BY <2>1, <2>4, <3>1, QuietStep DEF elfvars
  <2> QED BY <1>5, <2>2, <2>3, <2>4 DEF ReadElf, SvReadElf, ReadElfAborts
<1>6. CASE ResetCycle
  <2>1. /\ mpc \in {"reset_low", "reset_high"} /\ mpc' \in {"reset_low", "reset_high", "release"}
        /\ UNCHANGED <<sections, mems, section_index, mem, init_val, last_row, sim, prog, line>> /\ ~rst_ni
    BY <1>6 DEF ResetCycle, ResetLow, ResetHigh, elfvars, cmd, ImageInv
  <2>2. ~rst_ni' /\ awake' = awake
    BY <1>6, <2>1 DEF ResetCycle, ResetLow, ResetHigh, RisingEdge
  <2> QED BY <2>1, <2>2, QuietStep
<1>7. CASE Release
  <2>1. /\ mpc = "release" /\ mpc' = "preload"
        /\ UNCHANGED <<sections, mems, section_index, mem, init_val, last_row, sim, prog, line, awake>>
    BY <1>7 DEF Release, elfvars, cmd
  <2> QED BY <2>1, QuietStep
<1>8. CASE Preload
  <2>1. mpc = "preload" /\ UNCHANGED <<sim, prog, line, awake>> /\ CopyInv /\ ~awake /\ sim # "sv"
    BY <1>8 DEF Preload, cmd, hw, ImageInv, TimeInv, MainOnly
  <2>2. CASE PreloadBase /\ mpc' = "preload"
    <3>1. CopyInv' /\ init_val' = init_val
      BY <1>1, <2>1, <2>2, CopyBase DEF PreloadBase
    <3> QED BY <1>1, <2>1, <2>2, <3>1 DEF ImageInv, ImageLoaded
  <2>3. CASE NoMoreSections /\ mpc' = "low" /\ UNCHANGED elfvars
    BY <1>1, <2>1, <2>3, AllCopied, QuietStep DEF elfvars
  <2> QED BY <1>8, <2>2, <2>3 DEF Preload
<1>9. CASE SvPreload
  <2>1. /\ mpc = "sv_wait" /\ UNCHANGED <<sim, prog, line, awake, main_time>>
        /\ CopyInv /\ ~awake /\ sim = "sv"
    BY <1>9 DEF SvPreload, cmd, hw, ImageInv, TimeInv
  <2>2. CASE PreloadRows /\ mpc' = "sv_wait"
    <3>1. CopyInv' /\ DOMAIN init_val' = 0 .. Size - 1
      BY <1>1, <2>1, <2>2, CopyRows
    <3> QED BY <1>1, <2>1, <2>2, <3>1 DEF ImageInv, ImageLoaded
  <2>3. CASE NoMoreSections /\ mpc' = "sv_run" /\ UNCHANGED elfvars
    <3>1. ~(main_time' >= 3)
      BY <2>1 DEF TimeInv
    <3> QED BY <1>1, <2>1, <2>3, <3>1, AllCopied, QuietStep DEF elfvars
  <2> QED BY <1>9, <2>2, <2>3 DEF SvPreload
(* Edges the core may wake up at: the image is there. *)
<1>10. CASE MainLoop
  <2>1. /\ mpc \in {"low", "high"} /\ mpc' \in {"low", "high"}
        /\ UNCHANGED <<sections, mems, section_index, mem, init_val, last_row, sim, prog, line>>
    BY <1>10 DEF MainLoop, elfvars, cmd
  <2>2. mem' = BaseImage(prog)' /\ sim' = "verilator"
    BY <2>1, SameProgram DEF ImageInv, TimeInv, MainOnly
  <2> QED BY <1>1, <2>1, <2>2 DEF ImageInv, ImageLoaded
<1>11. CASE SvClock
  <2>1. /\ mpc' = mpc /\ UNCHANGED <<sim, prog, line, init_val>> /\ main_time' = main_time + 1
        /\ sim = "sv" /\ main_time \in Nat
        /\ UNCHANGED <<sections, mems, section_index, last_row>>
        /\ mem' = mem \/ mem' = init_val
    BY <1>11 DEF SvClock, ResetSram, elfvars, cmd, TimeInv
  <2>2. CASE mpc = "sv_wait"
    <3>1. main_time < 2 /\ ~(main_time >= 4)
      BY <2>1, <2>2 DEF TimeInv
    <3>2. ~rst_ni
      BY <2>1, <3>1, Zenon DEF TimeInv
    <3>3. awake' = awake /\ ~awake
      BY <1>11, <2>2, <3>2 DEF SvClock, RisingEdge, ImageInv
    <3>4. CopyInv'
      <4>1. Copied(section_index)'
        BY <2>1, <2>2, SameProgram DEF ImageInv, CopyInv, Copied, Holds
      <4>2. ListInv'
        BY <2>1, <2>2, SameList DEF ImageInv, CopyInv
      <4> QED BY <2>1, <2>2, <4>1, <4>2, SameProgram DEF ImageInv, CopyInv
    <3> QED BY <1>1, <2>1, <2>2, <3>3, <3>4 DEF ImageInv, ImageLoaded
  <2>3. CASE mpc = "sv_run"
    <3>1. (elf_file => InitHolds) /\ (main_time >= 3 => mem = init_val)
      BY <2>3 DEF ImageInv
    <3>2. elf_file' = elf_file /\ InitHolds' = InitHolds
      BY <2>1, SameProgram DEF elf_file, InitHolds, Holds
    <3>3. main_time' >= 3 => main_time >= 3 \/ main_time = 2
      BY <2>1
    <3>4. main_time = 2 => mem' = init_val
      <4>1. main_time = 2 => ~(main_time >= 4)
        OBVIOUS
      <4>2. main_time = 2 => ~clk_i /\ ~rst_ni
        BY <2>1, <4>1, Zenon DEF TimeInv
      <4>3. clk_i' = ~clk_i /\ (clk_i' /\ ~rst_ni => mem' = init_val)
        BY <1>11, Zenon DEF SvClock, ResetSram
      <4> QED BY <4>2, <4>3, Zenon
    <3>5. main_time' >= 3 => mem' = init_val'
      BY <2>1, <3>1, <3>3, <3>4
    <3>6. awake' => main_time' >= 3
      <4>1. awake' => awake \/ rst_ni
        BY <1>11, Zenon DEF SvClock, RisingEdge
      <4>2. awake' => main_time >= 4
        BY <2>1, <4>1, Zenon DEF TimeInv
      <4> QED BY <2>1, <4>2
    <3>7. ImageLoaded'
      <4>1. awake' /\ elf_file' => InitHolds' /\ mem' = init_val'
        BY <3>1, <3>2, <3>5, <3>6
      <4>2. InitHolds' /\ mem' = init_val' =>
              \A i \in Loadable(prog)' : Placed(prog, i)' => Holds(mem, prog, i)'
        BY DEF InitHolds, Holds
      <4> QED BY <2>1, <4>1, <4>2 DEF ImageLoaded
    <3> QED BY <1>1, <2>1, <2>3, <3>1, <3>2, <3>5, <3>7 DEF ImageInv
  <2> QED BY <1>11, <2>2, <2>3 DEF SvClock
<1>12. CASE Judge \/ Delete \/ Exit \/ SvExit
  <2>1. /\ mpc' \in {"delete", "stats", "exit"}
        /\ UNCHANGED <<sections, mems, section_index, mem, init_val, last_row, sim, prog, line, awake>>
    BY <1>12 DEF Judge, Delete, Exit, SvExit, elfvars, cmd, hw
  <2> QED BY <2>1, QuietStep
<1>13. CASE Sigterm
  <2>1. /\ mpc' = mpc \/ mpc' \in {"killed", "stats", "crashed"}
        /\ UNCHANGED <<sections, mems, section_index, mem, init_val, last_row, sim, prog, line,
                       rst_ni, main_time, awake>>
    BY <1>13 DEF Sigterm, elfvars, cmd, hw
  <2> QED BY <2>1, QuietStep DEF ImageInv
<1> QED BY <1>2, <1>3, <1>4, <1>5, <1>6, <1>7, <1>8, <1>9, <1>10, <1>11, <1>12, <1>13
        DEF TbNext, Main, Sv

(* When the core sees its first edge out of reset its program is in        *)
(* memory, byte for byte: for every program, memory size, address mask and *)
(* row width, whatever rows the segments share.                            *)
THEOREM ProgramLoaded == TbSpec => []ImageLoaded
<1>1. TbInit => TimeInv
  <2> SUFFICES ASSUME TbInit PROVE TimeInv
    OBVIOUS
  <2>1. 0 \in Nat /\ 0 # 2 /\ 0 # 1 /\ 0 < 2
    OBVIOUS
  <2>2. mpc = (IF sim = "sv" THEN "sv_elf" ELSE "parse") /\ sim \in {"verilator", "sv"}
    BY DEF TbInit
  <2>3. main_time = 0 /\ ~clk_i /\ ~rst_ni /\ ~awake
    BY DEF TbInit
  <2>4. mpc \in {"sv_elf", "sv_wait", "sv_run"} => sim = "sv"
    BY <2>2
  <2>5. mpc \in MainOnly => sim = "verilator"
    BY <2>2 DEF MainOnly
  <2> QED BY <2>1, <2>2, <2>3, <2>4, <2>5, Zenon DEF TimeInv
<1>2. TbInit => ImageInv
  BY DEF TbInit, ElfInit, ImageInv, ImageLoaded, Blank, Unread, Copying
<1>3. ImageInv => ImageLoaded
  BY DEF ImageInv
<1> QED BY <1>1, <1>2, <1>3, TimeStep, ImageStep, PTL DEF TbSpec

-----------------------------------------------------------------------------
(* The arguments of the debug transport. *)

(* Induction over the numbers, for a set: the well-founded order has a     *)
(* least element outside of it.                                            *)
LEMMA SetInduction ==
  ASSUME NEW S, S \subseteq Nat, 0 \in S, \A n \in S : n + 1 \in S
  PROVE  S = Nat
<1> DEFINE R == OpToRel(<, Nat)
           T == Nat \ S
<1>1. SUFFICES ASSUME T # {} PROVE FALSE
  OBVIOUS
<1>2. IsWellFoundedOn(R, Nat)
  BY NatLessThanWellFounded, Zenon
<1>3. \A x, y \in Nat : x < y => <<x, y>> \in R
  BY DEF OpToRel
<1> HIDE DEF R
<1>4. PICK x \in T : \A y \in T : ~(<<y, x>> \in R)
  BY <1>1, <1>2, WFMin
<1>5. x # 0 /\ x - 1 \in Nat /\ x - 1 < x
  OBVIOUS
<1>6. x - 1 \in T
  <2>1. (x - 1) + 1 = x
    OBVIOUS
  <2> QED BY <1>4, <1>5, <2>1
<1> QED BY <1>3, <1>4, <1>5, <1>6

(* The recursion of sanitize_args is well founded: a function for the      *)
(* first m arguments extends to one for m + 1.                             *)
NoArgs == [on |-> FALSE, out |-> <<>>]
IsSanitized(l, m, g) == g = [n \in 0 .. m |-> IF n = 0 THEN NoArgs ELSE SanitizeOne(g[n - 1], l[n])]

LEMMA SanitizedExists == ASSUME NEW l, NEW m \in Nat PROVE \E g : IsSanitized(l, m, g)
<1> DEFINE S == {k \in Nat : \E g : IsSanitized(l, k, g)}
<1>1. 0 \in S
  <2> DEFINE g == [n \in 0 .. 0 |-> NoArgs]
  <2>1. g = [n \in 0 .. 0 |-> IF n = 0 THEN NoArgs ELSE SanitizeOne(g[n - 1], l[n])]
    OBVIOUS
  <2> QED BY <2>1 DEF IsSanitized
<1>2. ASSUME NEW k \in S PROVE k + 1 \in S
  <2>1. PICK g : g = [n \in 0 .. k |-> IF n = 0 THEN NoArgs ELSE SanitizeOne(g[n - 1], l[n])]
    BY DEF IsSanitized
  <2> DEFINE h == [n \in 0 .. k + 1 |-> IF n <= k THEN g[n] ELSE SanitizeOne(g[k], l[k + 1])]
  <2>2. ASSUME NEW n \in 0 .. k + 1
        PROVE  h[n] = IF n = 0 THEN NoArgs ELSE SanitizeOne(h[n - 1], l[n])
    <3>1. CASE n = 0
      BY <2>1, <3>1
    <3>2. CASE n \in 1 .. k
      <4>1. n - 1 \in 0 .. k + 1 /\ n - 1 <= k /\ n \in 0 .. k /\ n <= k
        BY <3>2
      <4>2. h[n - 1] = g[n - 1] /\ h[n] = g[n]
        BY <4>1
      <4> QED BY <2>1, <3>2, <4>1, <4>2
    <3>3. CASE n = k + 1
      <4>1. n - 1 = k /\ k \in 0 .. k + 1 /\ ~(n <= k) /\ n # 0
        BY <3>3
      <4>2. h[n - 1] = g[k] /\ h[n] = SanitizeOne(g[k], l[k + 1])
        BY <4>1
      <4> QED BY <3>3, <4>1, <4>2
    <3> QED BY <3>1, <3>2, <3>3
  <2>3. h = [n \in 0 .. k + 1 |-> h[n]]
    OBVIOUS
  <2> HIDE DEF h
  <2>4. h = [n \in 0 .. k + 1 |-> IF n = 0 THEN NoArgs ELSE SanitizeOne(h[n - 1], l[n])]
    BY <2>2, <2>3
  <2> QED BY <2>4 DEF IsSanitized
<1> HIDE DEF S
<1>3. S = Nat
  <2>1. S \subseteq Nat
    BY DEF S
  <2> QED BY <1>1, <1>2, <2>1, SetInduction
<1> QED BY <1>3 DEF S

LEMMA SanitizedSteps ==
  ASSUME NEW l \in Seq(STRING)
  PROVE  /\ Sanitized(l)[0] = NoArgs
         /\ \A n \in 0 .. Len(l) - 1 : Sanitized(l)[n + 1] = SanitizeOne(Sanitized(l)[n], l[n + 1])
<1>1. Len(l) \in Nat
  BY LenProperties
<1>2. IsSanitized(l, Len(l), Sanitized(l))
  <2>1. \E g : IsSanitized(l, Len(l), g)
    BY <1>1, SanitizedExists
  <2> QED BY <2>1 DEF Sanitized, IsSanitized, NoArgs
<1> DEFINE f == Sanitized(l)
<1>3. \A n \in 0 .. Len(l) : f[n] = IF n = 0 THEN NoArgs ELSE SanitizeOne(f[n - 1], l[n])
  BY <1>2 DEF IsSanitized
<1> HIDE DEF f
<1>4. f[0] = NoArgs
  BY <1>1, <1>3
<1>5. ASSUME NEW n \in 0 .. Len(l) - 1 PROVE f[n + 1] = SanitizeOne(f[n], l[n + 1])
  <2>1. n + 1 \in 0 .. Len(l) /\ n + 1 # 0 /\ (n + 1) - 1 = n
    BY <1>1
  <2> QED BY <1>3, <2>1
<1> QED BY <1>4, <1>5 DEF f

(* Which of the first n arguments pass, and whether a bracket is open      *)
(* after them.                                                             *)
PassedOf(l, n) == {i \in 1 .. n : ~Bracketed(l, i)}
Open(l, n) == \E a \in 1 .. n : l[a] = "+permissive" /\ \A b \in a .. n : l[b] # "+permissive-off"

LEMMA OpenStep ==
  ASSUME NEW l, NEW n \in Nat
  PROVE  /\ Bracketed(l, n + 1) <=> Open(l, n) \/ l[n + 1] = "+permissive"
         /\ Open(l, n + 1) <=> Bracketed(l, n + 1) /\ l[n + 1] # "+permissive-off"
<1>1. ASSUME NEW a \in 1 .. n + 1, l[a] = "+permissive", \A b \in a .. (n + 1) - 1 : l[b] # "+permissive-off"
      PROVE  Open(l, n) \/ l[n + 1] = "+permissive"
  BY <1>1 DEF Open
<1>2. ASSUME Open(l, n) PROVE Bracketed(l, n + 1)
  <2>1. PICK a \in 1 .. n : l[a] = "+permissive" /\ \A b \in a .. n : l[b] # "+permissive-off"
    BY <1>2 DEF Open
  <2>2. a \in 1 .. n + 1 /\ \A b \in a .. (n + 1) - 1 : b \in a .. n
    OBVIOUS
  <2> QED BY <2>1, <2>2 DEF Bracketed
<1>3. ASSUME l[n + 1] = "+permissive" PROVE Bracketed(l, n + 1)
  <2>1. n + 1 \in 1 .. n + 1 /\ \A b \in n + 1 .. (n + 1) - 1 : FALSE
    OBVIOUS
  <2> QED BY <1>3, <2>1 DEF Bracketed
<1>4. ASSUME Open(l, n + 1) PROVE Bracketed(l, n + 1) /\ l[n + 1] # "+permissive-off"
  <2>1. PICK a \in 1 .. n + 1 : l[a] = "+permissive" /\ \A b \in a .. n + 1 : l[b] # "+permissive-off"
    BY <1>4 DEF Open
  <2>2. n + 1 \in a .. n + 1 /\ \A b \in a .. (n + 1) - 1 : b \in a .. n + 1
    OBVIOUS
  <2> QED BY <2>1, <2>2 DEF Bracketed
<1>5. ASSUME Bracketed(l, n + 1), l[n + 1] # "+permissive-off" PROVE Open(l, n + 1)
  <2>1. PICK a \in 1 .. n + 1 : l[a] = "+permissive" /\ \A b \in a .. (n + 1) - 1 : l[b] # "+permissive-off"
    BY <1>5 DEF Bracketed
  <2>2. \A b \in a .. n + 1 : b \in a .. (n + 1) - 1 \/ b = n + 1
    OBVIOUS
  <2> QED BY <1>5, <2>1, <2>2 DEF Open
<1> QED BY <1>1, <1>2, <1>3, <1>4, <1>5 DEF Bracketed

(* The passing arguments are finitely many; one more passes or does not. *)
LEMMA PassedCount ==
  ASSUME NEW l, NEW n \in Nat
  PROVE  /\ IsFiniteSet(PassedOf(l, n)) /\ Cardinality(PassedOf(l, n)) \in Nat
         /\ Bracketed(l, n + 1) => PassedOf(l, n + 1) = PassedOf(l, n)
         /\ ~Bracketed(l, n + 1) => /\ PassedOf(l, n + 1) = PassedOf(l, n) \cup {n + 1}
                                    /\ Cardinality(PassedOf(l, n + 1)) = Cardinality(PassedOf(l, n)) + 1
         /\ \A i \in PassedOf(l, n) : Cardinality(PassedOf(l, i)) \in 1 .. Cardinality(PassedOf(l, n))
<1>1. ASSUME NEW k \in Nat PROVE IsFiniteSet(PassedOf(l, k)) /\ Cardinality(PassedOf(l, k)) \in Nat
  <2>1. IsFiniteSet(1 .. k)
    BY FS_Interval
  <2>2. PassedOf(l, k) \subseteq 1 .. k
    BY DEF PassedOf
  <2>3. IsFiniteSet(PassedOf(l, k))
    BY <2>1, <2>2, FS_Subset
  <2> QED BY <2>3, FS_CardinalityType
<1>2. \A i \in 1 .. n + 1 : i \in 1 .. n \/ i = n + 1
  OBVIOUS
<1>3. Bracketed(l, n + 1) => PassedOf(l, n + 1) = PassedOf(l, n)
  BY <1>2 DEF PassedOf
<1>4. ASSUME ~Bracketed(l, n + 1)
      PROVE  /\ PassedOf(l, n + 1) = PassedOf(l, n) \cup {n + 1}
             /\ Cardinality(PassedOf(l, n + 1)) = Cardinality(PassedOf(l, n)) + 1
  <2>1. PassedOf(l, n + 1) = PassedOf(l, n) \cup {n + 1} /\ n + 1 \notin PassedOf(l, n)
    BY <1>2, <1>4 DEF PassedOf
  <2> QED BY <1>1, <2>1, FS_AddElement
<1>5. ASSUME NEW i \in PassedOf(l, n)
      PROVE  Cardinality(PassedOf(l, i)) \in 1 .. Cardinality(PassedOf(l, n))
  <2>1. i \in Nat /\ PassedOf(l, i) \subseteq PassedOf(l, n) /\ i \in PassedOf(l, i)
    BY <1>5 DEF PassedOf
  <2>2. Cardinality(PassedOf(l, i)) <= Cardinality(PassedOf(l, n))
    BY <1>1, <2>1, FS_Subset
  <2>3. Cardinality(PassedOf(l, i)) # 0
    BY <1>1, <2>1, FS_EmptySet
  <2> QED BY <1>1, <2>1, <2>2, <2>3
<1> QED BY <1>1, <1>3, <1>4, <1>5

(* What the loop of sanitize_args has built after n arguments. *)
Plain(x) == IF x = "++arg" THEN "arg" ELSE x
Args == STRING \cup {"arg"}
BuiltOf(l, n, a) ==
  /\ a.on <=> Open(l, n)
  /\ a.out \in Seq(Args) /\ Len(a.out) = Cardinality(PassedOf(l, n))
  /\ \A i \in PassedOf(l, n) : a.out[Cardinality(PassedOf(l, i))] = Plain(l[i])

(* One more argument. *)
LEMMA BuiltStep ==
  ASSUME NEW l, NEW n \in Nat, l[n + 1] \in STRING, NEW a, BuiltOf(l, n, a)
  PROVE  BuiltOf(l, n + 1, SanitizeOne(a, l[n + 1]))
<1> DEFINE x == l[n + 1]
           b == SanitizeOne(a, x)
           c == Cardinality(PassedOf(l, n))
<1>1. /\ b.on <=> (a.on \/ x = "+permissive") /\ x # "+permissive-off"
      /\ b.out = IF a.on \/ x = "+permissive" THEN a.out ELSE Append(a.out, Plain(x))
  BY DEF SanitizeOne, Plain
<1>2. (a.on \/ x = "+permissive") <=> Bracketed(l, n + 1)
  BY OpenStep DEF BuiltOf
<1>3. b.on <=> Open(l, n + 1)
  BY <1>1, <1>2, OpenStep
<1> HIDE DEF b
<1>4. CASE Bracketed(l, n + 1)
  <2>1. b.out = a.out /\ PassedOf(l, n + 1) = PassedOf(l, n)
    BY <1>1, <1>2, <1>4, PassedCount
  <2>2. BuiltOf(l, n + 1, b)
    BY <1>3, <2>1 DEF BuiltOf
  <2> QED BY <2>2 DEF b
<1>5. CASE ~Bracketed(l, n + 1)
  <2>1. /\ b.out = Append(a.out, Plain(x)) /\ PassedOf(l, n + 1) = PassedOf(l, n) \cup {n + 1}
        /\ Cardinality(PassedOf(l, n + 1)) = c + 1 /\ c \in Nat
    BY <1>1, <1>2, <1>5, PassedCount
  <2>2. Plain(x) \in Args /\ a.out \in Seq(Args) /\ Len(a.out) = c
    BY DEF Plain, BuiltOf, Args
  <2>3. b.out \in Seq(Args) /\ Len(b.out) = c + 1 /\ b.out[c + 1] = Plain(x)
        /\ \A k \in 1 .. c : b.out[k] = a.out[k]
    BY <2>1, <2>2, AppendProperties
  <2>4. ASSUME NEW i \in PassedOf(l, n + 1) PROVE b.out[Cardinality(PassedOf(l, i))] = Plain(l[i])
    <3>1. CASE i = n + 1
      BY <2>1, <2>3, <3>1
    <3>2. CASE i \in PassedOf(l, n)
      <4>1. Cardinality(PassedOf(l, i)) \in 1 .. c
        BY <3>2, PassedCount
      <4>2. a.out[Cardinality(PassedOf(l, i))] = Plain(l[i])
        BY <3>2 DEF BuiltOf
      <4> QED BY <2>3, <4>1, <4>2
    <3> QED BY <2>1, <2>4, <3>1, <3>2
  <2>5. BuiltOf(l, n + 1, b)
    BY <1>3, <2>1, <2>3, <2>4 DEF BuiltOf
  <2> QED BY <2>5 DEF b
<1> QED BY <1>4, <1>5

(* What sanitize_args returns. *)
LEMMA SanitizedArgs ==
  ASSUME NEW l \in Seq(STRING)
  PROVE  /\ Len(sanitize_args(l)) = Cardinality(Passed(l))
         /\ \A i \in Passed(l) : sanitize_args(l)[Cardinality({j \in Passed(l) : j <= i})] = Plain(l[i])
<1> DEFINE f == Sanitized(l)
           S == {n \in Nat : n <= Len(l) => BuiltOf(l, n, f[n])}
<1>1. Len(l) \in Nat /\ DOMAIN l = 1 .. Len(l) /\ \A n \in 1 .. Len(l) : l[n] \in STRING
  BY LenProperties, ElementOfSeq
<1>2. f[0] = NoArgs /\ \A n \in 0 .. Len(l) - 1 : f[n + 1] = SanitizeOne(f[n], l[n + 1])
  BY SanitizedSteps
<1> HIDE DEF f
<1>3. 0 \in S
  <2>1. PassedOf(l, 0) = {} /\ ~Open(l, 0)
    BY DEF PassedOf, Open
  <2>2. NoArgs.on = FALSE /\ NoArgs.out = <<>>
    BY DEF NoArgs
  <2>3. <<>> \in Seq(Args) /\ Len(<<>>) = 0
    OBVIOUS
  <2>4. BuiltOf(l, 0, NoArgs)
    BY <2>1, <2>2, <2>3, FS_EmptySet DEF BuiltOf
  <2> QED BY <1>2, <2>4
<1>4. ASSUME NEW n \in S PROVE n + 1 \in S
  <2>1. SUFFICES ASSUME n + 1 <= Len(l) PROVE BuiltOf(l, n + 1, f[n + 1])
    OBVIOUS
  <2>2. n \in Nat /\ n \in 0 .. Len(l) - 1 /\ n + 1 \in 1 .. Len(l) /\ n <= Len(l)
    BY <1>1, <2>1
  <2>3. BuiltOf(l, n, f[n]) /\ f[n + 1] = SanitizeOne(f[n], l[n + 1]) /\ l[n + 1] \in STRING
    BY <1>1, <1>2, <2>2
  <2> QED BY <2>2, <2>3, BuiltStep
<1>5. S = Nat
  <2>1. S \subseteq Nat
    OBVIOUS
  <2> HIDE DEF S
  <2> QED BY <1>3, <1>4, <2>1, SetInduction
<1>6. BuiltOf(l, Len(l), f[Len(l)])
  <2>1. Len(l) \in S /\ Len(l) <= Len(l)
    BY <1>1, <1>5
  <2> QED BY <2>1
<1>7. sanitize_args(l) = f[Len(l)].out
  BY DEF sanitize_args, f
<1>8. PassedOf(l, Len(l)) = Passed(l)
  BY <1>1 DEF PassedOf, Passed
<1>9. ASSUME NEW i \in Passed(l) PROVE PassedOf(l, i) = {j \in Passed(l) : j <= i}
  BY <1>1 DEF PassedOf, Passed
<1> QED BY <1>6, <1>7, <1>8, <1>9 DEF BuiltOf

(* In ariane_tb.sv the debug transport is created by the first debug_tick  *)
(* only, and the line it is created from never changes.                    *)
HtifInv ==
  /\ line \in Seq(STRING)
  /\ sim = "sv" => /\ mpc \in {"sv_elf", "sv_wait", "sv_run", "exit", "aborted"}
                   /\ dtm = "null" \/ dtm_args = sanitize_args(line)

LEMMA HtifStep == HtifInv /\ [TbNext]_tbvars => HtifInv'
<1> SUFFICES ASSUME HtifInv, [TbNext]_tbvars PROVE HtifInv'
  OBVIOUS
<1>0. ASSUME sim' = sim, line' = line, sim # "sv" PROVE HtifInv'
  BY <1>0 DEF HtifInv
<1>1. CASE UNCHANGED tbvars
  BY <1>1 DEF tbvars, cmd, objs, HtifInv, sanitize_args, Sanitized, SanitizeOne
<1>2. CASE Parse
  <2>1. mpc = "parse" /\ UNCHANGED <<sim, line>>
    BY <1>2, ParseKeeps
  <2> QED BY <1>0, <2>1 DEF HtifInv
<1>3. CASE Main
  <2>1. mpc \in {"build", "dtm", "elf", "reset_low", "reset_high", "release", "preload", "low", "high",
                 "delete", "stats"}
    BY <1>3 DEF Main, NewJtag, NewDtm, ReadElf, ResetCycle, ResetLow, ResetHigh, Release, Preload,
                MainLoop, Judge, Delete, Exit
  <2>2. UNCHANGED <<sim, line>>
    BY <1>3 DEF Main, NewJtag, NewDtm, ReadElf, ResetCycle, ResetLow, ResetHigh, Release, Preload,
                MainLoop, Judge, Delete, Exit, cmd
  <2> QED BY <1>0, <2>1, <2>2 DEF HtifInv
<1>4. CASE Sigterm
  BY <1>0, <1>4 DEF Sigterm, cmd
<1>5. CASE SvReadElf \/ SvPreload \/ SvExit
  <2>1. /\ mpc' \in {"sv_wait", "sv_run", "exit", "aborted"}
        /\ UNCHANGED <<sim, line, dtm, dtm_args>>
    BY <1>5 DEF SvReadElf, SvPreload, SvExit, cmd, objs
  <2> QED BY <2>1 DEF HtifInv, sanitize_args, Sanitized, SanitizeOne
<1>6. CASE SvClock
  <2>1. mpc' = mpc /\ UNCHANGED <<sim, line>>
    BY <1>6 DEF SvClock, cmd
  <2>2. \/ dtm_args' = IF dtm = "null" THEN sanitize_args(line) ELSE dtm_args
        \/ UNCHANGED <<dtm, dtm_args>>
    BY <1>6 DEF SvClock, RisingEdge, debug_tick, objs
  <2>3. sanitize_args(line)' = sanitize_args(line)
    BY <2>1 DEF sanitize_args, Sanitized, SanitizeOne
  <2> QED BY <2>1, <2>2, <2>3 DEF HtifInv
<1> QED BY <1>1, <1>2, <1>3, <1>4, <1>5, <1>6 DEF TbNext, Sv

(* The debug transport the simulator starts gets the arguments outside of  *)
(* the brackets, in their order: for every line, with any number of        *)
(* brackets, closed or not.                                                *)
THEOREM ArgumentsPassed == TbSpec => []HtifArgs
<1>1. TbInit => HtifInv
  BY LinesAssumption DEF TbInit, HtifInv
<1>2. HtifInv => HtifArgs
  <2> SUFFICES ASSUME HtifInv, sim = "sv", dtm # "null"
               PROVE  /\ Len(dtm_args) = Cardinality(Passed(line))
                      /\ \A i \in Passed(line) : dtm_args[Cardinality({j \in Passed(line) : j <= i})] =
                                                   IF line[i] = "++arg" THEN "arg" ELSE line[i]
    BY DEF HtifArgs
  <2>1. line \in Seq(STRING) /\ dtm_args = sanitize_args(line)
    BY DEF HtifInv
  <2> QED BY <2>1, SanitizedArgs DEF Plain
<1> QED BY <1>1, <1>2, HtifStep, PTL DEF TbSpec
=============================================================================
