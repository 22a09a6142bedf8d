-------------------------------- MODULE Cim --------------------------------
(***************************************************************************)
(* The macro memories of the compute-in-memory core: axi2mem, the          *)
(* multiplexer that gives the memories either to AXI or to the core's own  *)
(* control logic, and the decoder that spreads them over banks of block    *)
(* RAM.  The eDRAM path has the same two parts with more banks, the SRAM   *)
(* path has the multiplexer and one RAM.                                   *)
(*                                                                         *)
(* The owner is a register software writes at any time.  The control logic *)
(* is commented out of this commit and leaves its outputs undriven, so as  *)
(* an owner it may do anything at its port.                                *)
(***************************************************************************)
EXTENDS Axi2Mem

CONSTANTS
    NbBanks,    \* NB_MACROS
    BankLen,    \* the words of a bank's address range
    Depth,      \* the words of a bank's RAM, at most BankLen
    Data,       \* the words that are written
    Strobes     \* the strobes of a W beat

(* AXI forbids bursts that cross 4 KB, so a burst stays within one bank. *)
InOneBank(q) == /\ q.burst = "INCR"
                /\ q.addr \div BankLen = (q.addr + q.len) \div BankLen
                /\ q.len + 1 < CntMod

ASSUME BanksAssumption ==
    /\ NbBanks \in Nat \ {0} /\ BankLen \in Nat \ {0} /\ Depth \in 1..BankLen
    /\ 0 \in Byte /\ Data \subseteq Word /\ Strobes \subseteq SUBSET Lane
    /\ \A q \in Requests : InOneBank(q)

VARIABLES
    mux,        \* csr_CIM_Core_mem_mux_q
    banks,      \* the RAMs
    dout,       \* their output registers
    held        \* history: AXI owned the memories at the last clock edge

mems == <<mux, banks, dout, held>>
cimVars == <<ar, aw, w, wreq, r, b, state, ax, req_addr, cnt, mux, banks, dout, held>>

Zero == [l \in Lane |-> 0]

-----------------------------------------------------------------------------
(* A memory port in one cycle.  Without a request the address still counts: *)
(* it selects the bank whose output is returned.                            *)
Idle(a) == [req |-> FALSE, we |-> FALSE, addr |-> a, be |-> {}, data |-> Zero]
Load(a) == [Idle(a) EXCEPT !.req = TRUE]
Put(a, strb, d) == [req |-> TRUE, we |-> TRUE, addr |-> a, be |-> strb, data |-> d]
Store(a) == Put(a, w.strb, w.data)

(* The address rules of the decoder. *)
Bank(a) == a \div BankLen
Decoded(a) == Bank(a) < NbBanks

(* Each RAM sees the low bits of the address only. *)
Index(a) == a % Depth

(* The strobes are and-ed logically with the select, which leaves one bit,  *)
(* set when any strobe is; and the RAM, generated without byte enables, has *)
(* a single write enable and takes just that bit of the four.               *)
WriteEnable(p) == p.we /\ p.be # {}

(* Fault: every bank answers a request. *)
Selected_any(k, p) == Decoded(p.addr)

Selected(k, p) == Decoded(p.addr) /\ Bank(p.addr) = k

(* One clock edge of the banks behind port p: a write stores a whole word,  *)
(* and the RAMs are write-first.                                            *)
Access(p) ==
    LET i == Index(p.addr)
        word(k) == IF WriteEnable(p) THEN p.data ELSE banks[k][i]
        on(k) == p.req /\ Selected(k, p)
    IN  /\ banks' = [k \in DOMAIN banks |->
                        IF on(k) THEN [banks[k] EXCEPT ![i] = word(k)] ELSE banks[k]]
        /\ dout' = [k \in DOMAIN dout |-> IF on(k) THEN word(k) ELSE dout[k]]

(* The bank the current address selects; an address no rule covers reads 0. *)
Returned(a) == IF Decoded(a) THEN dout[Bank(a)] ELSE Zero

(* Fault: the word on the banks' output is returned to either side. *)
axi_rdata_shared(a) == Returned(a)

axi_rdata(a) == IF mux THEN Returned(a) ELSE Zero

(* What the control logic may put on its port, up to the addresses that are *)
(* the same to the banks (a request outside them is as good as none).       *)
CtrlAddrs == {k * BankLen + i : k \in 0..NbBanks-1, i \in 0..Depth-1}
CtrlPorts == {Idle(0)} \union {Load(a) : a \in CtrlAddrs} \union
             {Put(a, Lane, d) : a \in CtrlAddrs, d \in Data}

(* A clock edge with p on AXI's side of the multiplexer. *)
Edge(p) == /\ IF mux THEN Access(p) ELSE \E c \in CtrlPorts : Access(c)
           /\ held' = mux /\ mux' = mux

-----------------------------------------------------------------------------
CimInit == /\ InitFsm
           /\ mux = FALSE /\ held = FALSE
           /\ banks = [k \in 0..NbBanks-1 |-> [i \in 0..Depth-1 |-> Zero]]
           /\ dout = [k \in 0..NbBanks-1 |-> Zero]

(* Between two clock edges: requests arrive. *)
Master == /\ \/ \E q \in Requests : RaiseAR(q) \/ RaiseAW(q)
             \/ \E d \in Data, s \in Strobes : RaiseW(d, s)
          /\ UNCHANGED mems

(* The register file stores bit 0 of what software writes. *)
WriteMux(v) == /\ mux' = v
               /\ UNCHANGED <<chans, regs, banks, dout, held>>

StartRead  == AcceptRead /\ Edge(Load(ar.addr))
StartWrite == AcceptWrite /\ Edge(Store(aw.addr))
WaitWrite  == AcceptWriteAlone /\ Edge(Idle(aw.addr))
StoreFirst == FirstBeat /\ Edge(Store(ax.addr))

HoldBeat   == ReadStall /\ Edge(Load(req_addr))

(* The beat is selected by the address of the next one. *)
MoreBeats  == ~r_last /\ ReadBeat(axi_rdata(next_addr)) /\ Edge(Load(next_addr))
LastBeat   == r_last /\ ReadBeat(axi_rdata(next_addr)) /\ Edge(Idle(next_addr))

StoreNext  == WriteBeat /\ Edge(Store(next_addr))

(* Fault: a write is acknowledged only to the owner of the memories. *)
Reply_owner == mux /\ SendB /\ Edge(Idle(0))

Reply      == SendB /\ Edge(Idle(0))

(* A cycle without a transfer on AXI's side. *)
Quiet == /\ \/ state = "IDLE" /\ ar = None /\ aw = None
            \/ state \in {"WAIT_WVALID", "WRITE"} /\ w = None
            \/ state = "SEND_B"
         /\ Edge(Idle(ax.addr)) /\ UNCHANGED <<chans, regs>>

CimReset == ResetFsm /\ mux' = FALSE /\ held' = FALSE /\ UNCHANGED <<banks, dout>>

CimNext == \/ Master \/ (\E v \in BOOLEAN : WriteMux(v))
           \/ StartRead \/ StartWrite \/ WaitWrite \/ StoreFirst \/ HoldBeat
           \/ MoreBeats \/ LastBeat \/ StoreNext \/ Reply \/ Quiet \/ CimReset

CimSpec == CimInit /\ [][CimNext]_cimVars

(* As for the main memory: the clock runs, the master sends the beats of a  *)
(* write it started and takes its responses.  Nothing is assumed about who  *)
(* owns the memories.                                                       *)
FairCim ==
    /\ CimSpec
    /\ WF_cimVars(StartRead) /\ WF_cimVars(StartWrite \/ WaitWrite)
    /\ WF_cimVars(StoreFirst \/ StoreNext)
    /\ WF_cimVars(MoreBeats \/ LastBeat) /\ WF_cimVars(Reply)
    /\ WF_cimVars(\E d \in Data, s \in Strobes : RaiseW(d, s) /\ UNCHANGED mems)
-----------------------------------------------------------------------------
(* Every variable has its type. *)
CimTypeOK ==
    /\ ar \in Requests \union {None} /\ aw \in Requests \union {None}
    /\ w \in [data : Data, strb : Strobes, last : BOOLEAN] \union {None}
    /\ wreq \in [req : Requests, sent : Nat] \union {None}
    /\ state \in {"IDLE", "READ", "WRITE", "SEND_B", "WAIT_WVALID"}
    /\ ax \in AxReq /\ req_addr \in Nat /\ cnt \in 0..CntMod-1
    /\ mux \in BOOLEAN /\ held \in BOOLEAN
    /\ banks \in [0..NbBanks-1 -> [0..Depth-1 -> Word]]
    /\ dout \in [0..NbBanks-1 -> Word]

(* The word address a stands for. *)
Stored(a) == IF Decoded(a) THEN banks[Bank(a)][Index(a)] ELSE Zero

(* While a read is served and the last clock edge was AXI's, the output of  *)
(* the bank being read is the word axi2mem asked for: neither the other     *)
(* banks nor a stall disturb it, however often the memories changed hands   *)
(* before (the req path of mem_ctrl_demux and the per-bank enables).        *)
OutputKept ==
    state = "READ" /\ held /\ Decoded(req_addr) =>
        dout[Bank(req_addr)] = Stored(req_addr)

(* A beat handed over is the word of its address if AXI owned the memories  *)
(* when the word was requested and still does, and zero if it does not; one *)
(* that was requested under the other owner is whatever that owner left on  *)
(* the output.  The one exception is the last word of a bank: the decoder   *)
(* selects by the current address, which at the end of a burst is already   *)
(* the one after it, so that beat comes from the next bank.                 *)
BeatsAreWords ==
    [][state = "READ" /\ cnt' # cnt /\ r' # None =>
         /\ ~mux => r'.data = Zero
         /\ mux /\ held /\ ~(r_last /\ (req_addr + 1) % BankLen = 0)
                => r'.data = Stored(req_addr)]_cimVars

(* The address of the W beat that is taken in this state. *)
BeatAddr == CASE state = "IDLE" -> aw.addr
              [] state = "WRITE" -> next_addr
              [] OTHER -> ax.addr

(* While AXI owns the memories a word changes only by a W beat being taken, *)
(* to the whole of its data and in the bank of its own burst; and a beat    *)
(* with any strobe set replaces every byte of the word it addresses, the    *)
(* ones whose strobes are clear too (the write enable of the macro RAMs).   *)
(* So no burst reaches another bank, but a byte store is a word store.      *)
WritesConfined ==
    [][mux =>
         /\ \A k \in DOMAIN banks, i \in 0..Depth-1 :
              banks'[k][i] # banks[k][i] =>
                /\ w # None /\ w' = None /\ w.strb # {} /\ banks'[k][i] = w.data
                /\ Bank(IF state = "IDLE" THEN aw.addr ELSE ax.addr) = k
         /\ /\ w # None /\ w' = None /\ state' # "IDLE"
            /\ w.strb # {} /\ Decoded(BeatAddr)
            => banks'[Bank(BeatAddr)][Index(BeatAddr)] = w.data]_cimVars

(* Whoever owns the memories, and however often they change hands in the    *)
(* middle of a burst, every burst that was accepted ends: reads are handed  *)
(* over and writes acknowledged although their data may have been dropped.  *)
BurstsEnd == state # "IDLE" ~> state = "IDLE"
=============================================================================
