--------------------------- MODULE RemoteBitbang ----------------------------
(***************************************************************************)
(* The remote bit-bang server of the simulation: SimJTAG.sv calls          *)
(* jtag_tick once in TICK_DELAY + 1 clock cycles, and the call executes    *)
(* one command of a debugger connected by a socket (remote_bitbang.c of    *)
(* the debug module's testbench, remote_bitbang.cc of the SoC's).  While   *)
(* the call is in progress the simulated hardware stands still.            *)
(*                                                                         *)
(* The debugger is external: it may connect, send, receive and close at    *)
(* any time.  The debug module's test access port is any machine clocked   *)
(* by the pins alone.                                                      *)
(***************************************************************************)
EXTENDS Naturals, Sequences

CONSTANTS TICK_DELAY,   \* parameter of SimJTAG
          EofReturns,   \* TRUE: remote_bitbang.c, FALSE: remote_bitbang.cc
          Cmds,         \* the commands the client sends
          MaxCmds,      \* commands on their way to the server
          MaxReplies,   \* answers the socket can hold
          Tap, Edge(_, _), Tdo(_)

Bit == {0, 1}
Pins == [tck : Bit, tms : Bit, tdi : Bit]
IdlePins == [tck |-> 1, tms |-> 1, tdi |-> 1]

(* '0' .. '7' set the pins, 'R' reads TDO, 'Q' quits; 'B', 'b', the four   *)
(* resets and everything else have no effect.                              *)
Cmd == [op : {"set", "R", "Q", "other"}, pins : Pins]

ASSUME TickDelayAssumption == TICK_DELAY \in Nat
ASSUME EofReturnsAssumption == EofReturns \in BOOLEAN
ASSUME CmdsAssumption == Cmds \subseteq Cmd
ASSUME BoundsAssumption == MaxCmds \in Nat /\ MaxReplies \in Nat
(* The port reacts to edges of the pins only: once settled, it stays. *)
ASSUME TapAssumption ==
  \A t \in Tap, p \in Pins : /\ Edge(t, p) \in Tap
                             /\ Edge(Edge(t, p), p) = Edge(t, p)

VARIABLES
    tickCounterReg,  \* cycles to the next call of jtag_tick
    place,           \* where the simulation is: the hardware ("sim"), a loop
                     \* of the server ("accept", "read"), or its end
    client_fd,       \* 0, or 1 for the accepted connection
    quit,            \* set by 'Q'
    pins, tdo,       \* the server's variables of these names
    wires,           \* SimJTAG's __jtag_TCK, __jtag_TMS, __jtag_TDI
    tap,             \* the port
    client,          \* the debugger: "away", "connected" or "closed"
    inq, outq        \* the two directions of the connection

server == <<client_fd, quit, pins, tdo>>
vars == <<tickCounterReg, place, server, wires, tap, client, inq, outq>>

Init == /\ tickCounterReg = TICK_DELAY
        /\ place = "sim"
        /\ client_fd = 0 /\ quit = 0 /\ pins = IdlePins /\ tdo = 0
        /\ wires = [tck |-> 0, tms |-> 0, tdi |-> 0]
        /\ tap \in {t \in Tap : Edge(t, wires) = t}
        /\ client = "away" /\ inq = <<>> /\ outq = <<>>

-----------------------------------------------------------------------------
(* SimJTAG: the wires reach the port between two clock edges. *)

Cycle == /\ place = "sim" /\ tickCounterReg # 0
         /\ tickCounterReg' = tickCounterReg - 1
         /\ tap' = Edge(tap, wires)
         /\ UNCHANGED <<place, server, wires, client, inq, outq>>

(* A fault: the call waits for a connection although there is one. *)
rbs_tick_accept ==
  /\ place = "sim" /\ tickCounterReg = 0
  /\ tickCounterReg' = TICK_DELAY
  /\ tap' = Edge(tap, wires)
  /\ place' = "accept"
  /\ UNCHANGED <<server, wires, client, inq, outq>>

(* A fault: TDO is sampled at the first call only. *)
rbs_tick_stale ==
  /\ place = "sim" /\ tickCounterReg = 0
  /\ tickCounterReg' = TICK_DELAY
  /\ tap' = Edge(tap, wires)
  /\ place' = IF client_fd > 0 THEN "read" ELSE "accept"
  /\ tdo' = IF client_fd > 0 THEN tdo ELSE Tdo(tap')
  /\ UNCHANGED <<client_fd, quit, pins, wires, client, inq, outq>>

(* jtag_tick is called, with the TDO of the port; rbs_tick goes to the     *)
(* loop of rbs_execute_command or of rbs_accept.                           *)
rbs_tick ==
  /\ place = "sim" /\ tickCounterReg = 0
  /\ tickCounterReg' = TICK_DELAY
  /\ tap' = Edge(tap, wires)
  /\ IF client_fd > 0 THEN place' = "read" /\ tdo' = Tdo(tap')
                      ELSE place' = "accept" /\ UNCHANGED tdo
  /\ UNCHANGED <<client_fd, quit, pins, wires, client, inq, outq>>

(* A fault: the exit code is not set. *)
Return_no_exit == /\ wires' = pins'
                  /\ place' = "sim"

(* rbs_tick copies the pins to the wires and jtag_tick returns; a nonzero  *)
(* result ends the simulation.                                             *)
Return == /\ wires' = pins'
          /\ place' = IF quit' = 1 THEN "over" ELSE "sim"

(* rbs_accept: the loop ends with a connection. *)
rbs_accept == /\ place = "accept"
              /\ client # "away"
              /\ client_fd' = 1
              /\ UNCHANGED <<quit, pins, tdo>>
              /\ Return
              /\ UNCHANGED <<tickCounterReg, tap, client, inq, outq>>

(* accept returns -1 with an errno other than EAGAIN. *)
AcceptFails == /\ place = "accept"
               /\ place' = "aborted"
               /\ UNCHANGED <<tickCounterReg, server, wires, tap, client, inq, outq>>

-----------------------------------------------------------------------------
(* rbs_execute_command *)

Got(op) == /\ place = "read" /\ inq # <<>>
           /\ Head(inq).op = op
           /\ inq' = Tail(inq)
           /\ UNCHANGED <<tickCounterReg, tap, client>>

(* A fault: all commands that have arrived are executed in one call. *)
rbs_set_pins_batch ==
  /\ Got("set")
  /\ pins' = Head(inq).pins
  /\ UNCHANGED <<client_fd, quit, tdo>>
  /\ IF Len(inq) > 1 THEN UNCHANGED <<place, wires>> ELSE Return
  /\ UNCHANGED outq

rbs_set_pins == /\ Got("set")
                /\ pins' = Head(inq).pins
                /\ UNCHANGED <<client_fd, quit, tdo>>
                /\ Return
                /\ UNCHANGED outq

(* The resets do nothing; blinking and unknown commands neither. *)
rbs_reset == /\ Got("other")
             /\ UNCHANGED server
             /\ Return
             /\ UNCHANGED outq

(* 'R': the answer is written if the socket takes it. *)
Answer == /\ Got("R")
          /\ Len(outq) < MaxReplies
          /\ outq' = Append(outq, tdo)
          /\ UNCHANGED server
          /\ Return

(* A write to a full socket, which is not waited for, or to a closed one   *)
(* returns -1.                                                             *)
WriteFails == /\ Got("R")
              /\ Len(outq) >= MaxReplies \/ client = "closed"
              /\ place' = "aborted"
              /\ UNCHANGED <<server, wires, outq>>

Quit == /\ Got("Q")
        /\ quit' = 1
        /\ client_fd' = 0
        /\ UNCHANGED <<pins, tdo>>
        /\ Return
        /\ UNCHANGED outq

(* read returns 0: remote_bitbang.c returns without a command, and the     *)
(* .cc tries again forever.                                                *)
Eof == /\ place = "read" /\ inq = <<>> /\ client = "closed"
       /\ EofReturns
       /\ UNCHANGED server
       /\ Return
       /\ UNCHANGED <<tickCounterReg, tap, client, inq, outq>>

(* read returns -1 with an errno other than EAGAIN. *)
ReadFails == /\ place = "read" /\ client = "closed"
             /\ place' = "aborted"
             /\ UNCHANGED <<tickCounterReg, server, wires, tap, client, inq, outq>>

-----------------------------------------------------------------------------
(* The debugger. *)

Debugger ==
  /\ \/ /\ client = "away" /\ client' = "connected"
        /\ UNCHANGED <<inq, outq>>
     \/ /\ client = "connected" /\ Len(inq) < MaxCmds
        /\ \E c \in Cmds : inq' = Append(inq, c)
        /\ UNCHANGED <<client, outq>>
     \/ /\ client = "connected" /\ outq # <<>>
        /\ outq' = Tail(outq)
        /\ UNCHANGED <<client, inq>>
     \/ /\ client = "connected" /\ client' = "closed"
        /\ UNCHANGED <<inq, outq>>
  /\ UNCHANGED <<tickCounterReg, place, server, wires, tap>>

Execute == rbs_set_pins \/ rbs_reset \/ Answer \/ WriteFails \/ Quit

Simulation == Cycle \/ rbs_tick \/ rbs_accept \/ AcceptFails \/ Execute \/ Eof \/ ReadFails

Next == Simulation \/ Debugger

Spec == Init /\ [][Next]_vars

(* The simulation runs; the debugger need not do anything. *)
FairSpec == Spec /\ WF_vars(Simulation)

-----------------------------------------------------------------------------
(* The state is in its type; a call is in progress only just after the     *)
(* counter was reloaded.                                                   *)
TypeOK == /\ tickCounterReg \in 0 .. TICK_DELAY
          /\ place \in {"sim", "accept", "read", "over", "aborted"}
          /\ place # "sim" => tickCounterReg = TICK_DELAY
          /\ client_fd \in Bit /\ quit \in Bit
          /\ pins \in Pins /\ wires \in Pins
          /\ tap \in Tap
          /\ client \in {"away", "connected", "closed"}
          /\ inq \in Seq(Cmd)

(* The wires carry the server's pins from the first connection on, and the *)
(* port has settled, with its output in tdo, whenever a command is about   *)
(* to be executed: the next command always finds the last one finished.    *)
SettledInv ==
  /\ TypeOK
  /\ place = "read" => tdo = Tdo(tap) /\ client_fd = 1
  /\ place \in {"read", "accept"} => Edge(tap, wires) = tap
  /\ client_fd = 1 => wires = pins
  /\ client_fd = 0 => pins = IdlePins \/ quit = 1
  /\ place = "accept" => client_fd = 0 /\ quit = 0
  /\ quit = 1 <=> place = "over"

(* The server is the wire the debugger thinks it holds: the port it sees   *)
(* is the one the wires will settle to.                                    *)
Wire == INSTANCE BitbangWire WITH tap <- Edge(tap, wires),
                                  up <- place \notin {"over", "aborted"}

ImplementsWire == Wire!Spec

(* Commands keep being executed, whatever the debugger does, until a quit  *)
(* or a failing socket ends the simulation.                                *)
CommandsExecuted == \/ []<>(inq = <<>> \/ place \in {"over", "aborted"})
                    \/ []<><<Len(inq') < Len(inq)>>_inq

(* A quit ends the simulation. *)
QuitEnds == inq # <<>> /\ Head(inq).op = "Q" /\ client_fd = 1
            ~> place \in {"over", "aborted"}
=============================================================================
