------------------------------ MODULE Axi2Mem ------------------------------
(***************************************************************************)
(* axi2mem: the AXI slave that turns bursts into accesses of a single-port *)
(* memory with one cycle of read latency.  The SoC instantiates it in      *)
(* front of the main memory, the boot ROM, the debug module and the three  *)
(* memories of the compute-in-memory core.                                 *)
(*                                                                         *)
(* This module holds the state machine and the master that drives it; the  *)
(* memory is conjoined by the modules that extend this one, which read the *)
(* port (addr_o) here and pass the data input back in.  A step of the      *)
(* state machine is one clock cycle.  A master holds a request until it is *)
(* accepted, and raises ready for a response whenever it likes.            *)
(*                                                                         *)
(* Addresses are word addresses: the memories slice the byte offset off.   *)
(* The size field is left out, the code samples it and never reads it.     *)
(***************************************************************************)
EXTENDS Integers

CONSTANTS
    Requests,   \* the AR and AW requests the masters issue
    Lane,       \* the byte lanes of a word
    Byte,       \* the values of a byte lane
    CntMod,     \* 2^w for the w-bit beat counter, 256 in the code
    None        \* an idle channel

Bursts == {"FIXED", "INCR", "WRAP"}
Word == [Lane -> Byte]

(* A request as ax_req_t keeps it. *)
AxReq == [id : Nat, addr : Nat, len : 0..CntMod-1, burst : Bursts]
WBeat == [data : Word, strb : SUBSET Lane, last : BOOLEAN]

ASSUME CntModAssumption == CntMod \in Nat \ {0, 1}
ASSUME RequestsAssumption == Requests \subseteq AxReq
ASSUME NoneAssumption ==
    /\ None \notin AxReq
    /\ None \notin WBeat
    /\ None \notin [req : AxReq, sent : Nat]

VARIABLES
    ar, aw,     \* the request held on the AR and on the AW channel, or None
    w,          \* the beat held on the W channel, or None
    wreq,       \* the write whose beats the master still has to present
    r, b,       \* the last R beat and the last B response handed over
    state,      \* state_q
    ax,         \* ax_req_q
    req_addr,   \* req_addr_q
    cnt         \* cnt_q

chans == <<ar, aw, w, wreq, r, b>>
regs  == <<state, ax, req_addr, cnt>>

ResetReq == [id |-> 0, addr |-> 0, len |-> 0, burst |-> "FIXED"]

-----------------------------------------------------------------------------
(* The master side of the five channels. *)

RaiseAR(q) == /\ ar = None
              /\ ar' = q
              /\ UNCHANGED <<aw, w, wreq, r, b, regs>>

(* The next AW follows the last W beat of the write before it: the crossbar *)
(* lets one write of a master through at a time.                            *)
RaiseAW(q) == /\ aw = None /\ wreq = None
              /\ aw' = q
              /\ wreq' = [req |-> q, sent |-> 0]
              /\ UNCHANGED <<ar, w, r, b, regs>>

RaiseW(d, s) ==
    /\ wreq # None /\ w = None
    /\ w' = [data |-> d, strb |-> s, last |-> wreq.sent = wreq.req.len]
    /\ wreq' = IF wreq.sent = wreq.req.len
               THEN None ELSE [wreq EXCEPT !.sent = @ + 1]
    /\ UNCHANGED <<ar, aw, r, b, regs>>

-----------------------------------------------------------------------------
(* Address generation. *)

(* The slice taken for len = 7 starts one bit lower than the one it is      *)
(* assigned to, so this boundary is shifted up by one bit.                  *)
get_wrap_boundary(a, len) ==
    CASE len = 1  -> 2 * (a \div 2)
      [] len = 3  -> 4 * (a \div 4)
      [] len = 7  -> 8 * (a \div 4)
      [] len = 15 -> 16 * (a \div 16)
      [] OTHER    -> 0

wrap_boundary == get_wrap_boundary(ax.addr, ax.len)
upper_wrap_boundary == wrap_boundary + (ax.len + 1)
cons_addr == ax.addr + cnt

(* Fault: a wrapping burst runs on past its boundary. *)
next_addr_no_wrap == cons_addr

(* addr_o of a cycle in which a beat is transferred. *)
next_addr ==
    IF ax.burst # "WRAP" \/ cons_addr < upper_wrap_boundary THEN cons_addr
    ELSE IF cons_addr = upper_wrap_boundary THEN wrap_boundary
    ELSE ax.addr + (cnt - ax.len)

(* The counter is w bits wide, the sum it is compared with is an integer.  *)
r_last == cnt = ax.len + 1

Incr(c) == (c + 1) % CntMod

-----------------------------------------------------------------------------
(* The state machine.  IDLE looks at AR before AW. *)

AcceptRead == /\ state = "IDLE" /\ ar # None
              /\ ax' = ar /\ req_addr' = ar.addr /\ cnt' = 1
              /\ state' = "READ"
              /\ ar' = None
              /\ UNCHANGED <<aw, w, wreq, r, b>>

(* AW with its first W beat: addr_o is aw.addr and the beat is written. *)
AcceptWrite == /\ state = "IDLE" /\ ar = None /\ aw # None /\ w # None
               /\ ax' = aw /\ cnt' = 1
               /\ state' = IF w.last THEN "SEND_B" ELSE "WRITE"
               /\ aw' = None /\ w' = None
               /\ UNCHANGED <<req_addr, ar, wreq, r, b>>

AcceptWriteAlone == /\ state = "IDLE" /\ ar = None /\ aw # None /\ w = None
                    /\ ax' = aw
                    /\ state' = "WAIT_WVALID"
                    /\ aw' = None
                    /\ UNCHANGED <<req_addr, cnt, ar, w, wreq, r, b>>

(* Fault: w_last of a beat that arrives late is not looked at. *)
FirstBeat_no_last == /\ state = "WAIT_WVALID" /\ w # None
                     /\ cnt' = 1
                     /\ state' = "WRITE"
                     /\ w' = None
                     /\ UNCHANGED <<ax, req_addr, ar, aw, wreq, r, b>>

FirstBeat == /\ state = "WAIT_WVALID" /\ w # None
             /\ cnt' = 1
             /\ state' = IF w.last THEN "SEND_B" ELSE "WRITE"
             /\ w' = None
             /\ UNCHANGED <<ax, req_addr, ar, aw, wreq, r, b>>

(* r_ready is low: the request to memory is kept, addr_o is req_addr. *)
ReadStall == state = "READ" /\ UNCHANGED <<chans, regs>>

(* Fault: the beat counter stands still. *)
ReadBeat_no_count(data_i) ==
    /\ state = "READ"
    /\ r' = [id |-> ax.id, data |-> data_i, last |-> r_last]
    /\ req_addr' = next_addr
    /\ state' = IF r_last THEN "IDLE" ELSE "READ"
    /\ UNCHANGED <<cnt, ax, ar, aw, w, wreq, b>>

(* r_ready is high: the beat is handed over with the memory's output. *)
ReadBeat(data_i) ==
    /\ state = "READ"
    /\ r' = [id |-> ax.id, data |-> data_i, last |-> r_last]
    /\ req_addr' = next_addr
    /\ cnt' = Incr(cnt)
    /\ state' = IF r_last THEN "IDLE" ELSE "READ"
    /\ UNCHANGED <<ax, ar, aw, w, wreq, b>>

WriteBeat == /\ state = "WRITE" /\ w # None
             /\ req_addr' = next_addr
             /\ cnt' = Incr(cnt)
             /\ state' = IF w.last THEN "SEND_B" ELSE "WRITE"
             /\ w' = None
             /\ UNCHANGED <<ax, ar, aw, wreq, r, b>>

SendB == /\ state = "SEND_B"
         /\ b' = [id |-> ax.id]
         /\ state' = "IDLE"
         /\ UNCHANGED <<ax, req_addr, cnt, ar, aw, w, wreq, r>>

(* The reset of the SoC clears the crossbar's channels with the registers. *)
ResetFsm == /\ state' = "IDLE" /\ ax' = ResetReq /\ req_addr' = 0 /\ cnt' = 0
            /\ ar' = None /\ aw' = None /\ w' = None /\ wreq' = None
            /\ r' = None /\ b' = None

InitFsm == /\ state = "IDLE" /\ ax = ResetReq /\ req_addr = 0 /\ cnt = 0
           /\ ar = None /\ aw = None /\ w = None /\ wreq = None
           /\ r = None /\ b = None

-----------------------------------------------------------------------------
(* n beats of write q are stored and q is the write W is sending. *)
Sending(q, n) ==
    \/ w = None /\ wreq = [req |-> q, sent |-> n] /\ n <= q.len
    \/ w # None /\ ~w.last /\ n < q.len /\ wreq = [req |-> q, sent |-> n + 1]
    \/ w # None /\ w.last /\ n = q.len /\ wreq = None

(* The W channel and the state machine agree on the beat of the write: the  *)
(* beat marked last is the one that brings the count to len + 1, and a beat *)
(* of the next write never reaches the write before it.                     *)
WriteInStep ==
    LET active == state \in {"WAIT_WVALID", "WRITE"}
        beat   == IF state = "WRITE" THEN cnt ELSE 0
    IN  /\ active /\ aw = None => Sending(ax, beat)
        /\ active /\ aw # None => /\ w # None /\ w.last /\ beat = ax.len
                                 /\ wreq = [req |-> aw, sent |-> 0]
        /\ ~active /\ aw # None => Sending(aw, 0)
        /\ ~active /\ aw = None => w = None /\ wreq = None
=============================================================================
