------------------------------ MODULE AxiSram ------------------------------
(***************************************************************************)
(* The main-memory path of the SoC: axi2mem in front of a single-port      *)
(* block RAM with byte write enables.  The RAM registers its output: a     *)
(* read requested in one cycle is on data_i in the next, and the output    *)
(* holds while the RAM is not enabled.                                     *)
(***************************************************************************)
EXTENDS Axi2Mem

CONSTANT Depth  \* the number of words of the RAM

ASSUME DepthAssumption == Depth \in Nat \ {0}

VARIABLES
    mem,        \* the words of the RAM
    dout        \* its output register

vars == <<ar, aw, w, wreq, r, b, state, ax, req_addr, cnt, mem, dout>>

-----------------------------------------------------------------------------
(* The RAM. addra is a slice of the low address bits. *)
Index(a) == a % Depth

Merge(old, new, strb) == [l \in Lane |-> IF l \in strb THEN new[l] ELSE old[l]]

RamRead(a) == /\ dout' = mem[Index(a)]
              /\ mem' = mem

(* A written word also appears on the output (write-first mode). *)
RamWrite(a) == LET m == Merge(mem[Index(a)], w.data, w.strb)
               IN  /\ mem' = [mem EXCEPT ![Index(a)] = m]
                   /\ dout' = m

RamIdle == UNCHANGED <<mem, dout>>

-----------------------------------------------------------------------------
Init == /\ InitFsm
        /\ mem \in [0..Depth-1 -> Word]
        /\ dout \in Word

MasterStep == /\ \/ \E q \in Requests : RaiseAR(q) \/ RaiseAW(q)
                 \/ \E d \in Word, s \in SUBSET Lane : RaiseW(d, s)
              /\ RamIdle

StartRead  == AcceptRead /\ RamRead(ar.addr)
StartWrite == AcceptWrite /\ RamWrite(aw.addr)
WaitWrite  == AcceptWriteAlone /\ RamIdle
StoreFirst == FirstBeat /\ RamWrite(ax.addr)
HoldBeat   == ReadStall /\ RamRead(req_addr)
MoreBeats  == ReadBeat(dout) /\ ~r_last /\ RamRead(next_addr)
LastBeat   == ReadBeat(dout) /\ r_last /\ RamIdle
StoreNext  == WriteBeat /\ RamWrite(next_addr)
Reply      == SendB /\ RamIdle
Reset      == ResetFsm /\ RamIdle

Next == \/ MasterStep
        \/ StartRead \/ StartWrite \/ WaitWrite \/ StoreFirst
        \/ HoldBeat \/ MoreBeats \/ LastBeat \/ StoreNext
        \/ Reply \/ Reset

Spec == Init /\ [][Next]_vars

(* The clock runs, a master that started a burst eventually presents its    *)
(* write beats and takes its responses.                                     *)
Fairness == /\ WF_vars(StartRead)
            /\ WF_vars(StartWrite \/ WaitWrite)
            /\ WF_vars(StoreFirst \/ StoreNext)
            /\ WF_vars(MoreBeats \/ LastBeat)
            /\ WF_vars(Reply)
            /\ WF_vars(\E d \in Word, s \in SUBSET Lane : RaiseW(d, s) /\ RamIdle)

FairSpec == Spec /\ Fairness

-----------------------------------------------------------------------------
(* Every variable has its type. *)
TypeOK ==
    /\ ar \in AxReq \union {None} /\ aw \in AxReq \union {None}
    /\ w \in WBeat \union {None}
    /\ wreq \in [req : AxReq, sent : Nat] \union {None}
    /\ r \in [id : Nat, data : Word, last : BOOLEAN] \union {None}
    /\ b \in [id : Nat] \union {None}
    /\ state \in {"IDLE", "READ", "WRITE", "SEND_B", "WAIT_WVALID"}
    /\ ax \in AxReq /\ req_addr \in Nat /\ cnt \in 0..CntMod-1
    /\ mem \in [0..Depth-1 -> Word] /\ dout \in Word

(* The burst being served, as BurstMemory sees it. *)
txn == CASE state = "IDLE"        -> [kind |-> "none"]
         [] state = "READ"        -> [kind |-> "read",  req |-> ax, beat |-> cnt - 1]
         [] state = "WAIT_WVALID" -> [kind |-> "write", req |-> ax, beat |-> 0]
         [] state = "WRITE"       -> [kind |-> "write", req |-> ax, beat |-> cnt]
         [] state = "SEND_B"      -> [kind |-> "reply", req |-> ax, beat |-> cnt]

BM == INSTANCE BurstMemory

(* axi2mem with its RAM is a burst memory: every beat it hands over or      *)
(* stores is the one the AXI standard names, for every interleaving of      *)
(* reads, writes, stalls and resets.                                        *)
ImplementsBurstMemory == BM!Spec

(* The word on the RAM's output while a read is being served is the word of *)
(* the beat r_valid offers, so a stall never loses or repeats a beat.       *)
ReadDataReady ==
    state = "READ" => dout = mem[Index(BM!BeatAddr(ax, cnt - 1))]

(* The bursts that are served as AXI defines them: incrementing ones, which *)
(* is what the CPU's caches issue (axi_shim.sv), and wrapping ones of two   *)
(* beats, a cache line, which axi_adapter.sv issues when it is set to fetch *)
(* the critical word first.  The counter has no room for the beats of the   *)
(* longest burst its width can name.                                        *)
Supported(q) == /\ q.len + 1 < CntMod
                /\ \/ q.burst = "INCR"
                   \/ q.burst = "WRAP" /\ q.len = 1

(* Requests and write data stay those of the master. *)
ChannelInv ==
    /\ ar \in Requests \union {None}
    /\ aw \in Requests \union {None}
    /\ state # "IDLE" => ax \in Requests

(* The counter and the address register follow the beats of the burst. *)
ProgressInv ==
    /\ state = "READ" => /\ cnt \in 1..ax.len + 1
                         /\ req_addr = BM!BeatAddr(ax, cnt - 1)
    /\ state = "WRITE" => cnt \in 1..ax.len

(* The inductive invariant behind ImplementsBurstMemory. *)
BurstInv == TypeOK /\ ChannelInv /\ ProgressInv /\ ReadDataReady /\ WriteInStep

(* A read burst that was accepted is handed over to its last beat (or cut   *)
(* off by a reset): the READ state is always left.                          *)
ReadsEnd == state = "READ" ~> state = "IDLE"

(* A write that was raised is acknowledged, unless a reset abandons it (and *)
(* with it every channel) or reads keep arriving forever: IDLE serves AR    *)
(* first.                                                                   *)
WritesEnd ==
    <>[](ar = None) =>
        (aw # None ~> \/ state = "SEND_B"
                      \/ state = "IDLE" /\ aw = None /\ wreq = None /\ w = None)
=============================================================================
