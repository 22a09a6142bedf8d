----------------------------- MODULE CimProofs ------------------------------
(* Proofs about the compute-in-memory core's macro memories, for any number *)
(* and size of banks, any requests and any behaviour of the control logic.  *)
EXTENDS Cim, TLAPS

(* The burst being served was requested; the counter and the address        *)
(* register follow the beats of a read.                                     *)
Progress ==
    /\ state # "IDLE" => ax \in Requests
    /\ state = "READ" => /\ cnt \in 1..ax.len + 1
                         /\ req_addr = ax.addr + cnt - 1

(* The inductive invariant. *)
CimInv == CimTypeOK /\ Progress /\ OutputKept

Port == [req : BOOLEAN, we : BOOLEAN, addr : Nat, be : SUBSET Lane, data : Word]

MemType == /\ mux \in BOOLEAN /\ held \in BOOLEAN
           /\ banks \in [0..NbBanks-1 -> [0..Depth-1 -> Word]]
           /\ dout \in [0..NbBanks-1 -> Word]

-----------------------------------------------------------------------------
(* A decoded address selects a bank, and every address a word of a RAM. *)
LEMMA Selects == ASSUME NEW a \in Nat
                 PROVE  /\ Bank(a) \in Nat
                        /\ Decoded(a) => Bank(a) \in 0..NbBanks-1
                        /\ Index(a) \in 0..Depth-1
BY BanksAssumption DEF Bank, Decoded, Index

LEMMA ZeroWord == Zero \in Word
BY BanksAssumption DEF Zero, Word

(* What AXI's side and the control logic put on a port. *)
LEMMA Ports == /\ \A a \in Nat : Idle(a) \in Port /\ Load(a) \in Port
               /\ w \in [data : Data, strb : Strobes, last : BOOLEAN] =>
                    \A a \in Nat : Store(a) \in Port
               /\ CtrlPorts \subseteq Port
<1>1. \A a \in Nat : Idle(a) \in Port /\ Load(a) \in Port
  BY ZeroWord DEF Idle, Load, Port
<1>2. \A a \in Nat, be \in SUBSET Lane, d \in Word : Put(a, be, d) \in Port
  BY DEF Put, Port
<1>3. w \in [data : Data, strb : Strobes, last : BOOLEAN] =>
        \A a \in Nat : Store(a) \in Port
  BY <1>2, BanksAssumption DEF Store
<1>4. CtrlAddrs \subseteq Nat
  BY BanksAssumption DEF CtrlAddrs
<1>5. CtrlPorts \subseteq Port
  BY <1>1, <1>2, <1>4, BanksAssumption DEF CtrlPorts
<1> QED BY <1>1, <1>3, <1>5

(* An access keeps the memories in their type, and a bank that was read or  *)
(* written shows the word of the address on its output.                     *)
LEMMA AccessEffect ==
  ASSUME MemType, NEW p \in Port, Access(p)
  PROVE  /\ banks' \in [0..NbBanks-1 -> [0..Depth-1 -> Word]]
         /\ dout' \in [0..NbBanks-1 -> Word]
         /\ p.req /\ Decoded(p.addr) => dout'[Bank(p.addr)] = banks'[Bank(p.addr)][Index(p.addr)]
<1> DEFINE i == Index(p.addr)
           word(k) == IF WriteEnable(p) THEN p.data ELSE banks[k][i]
           on(k) == p.req /\ Selected(k, p)
<1>1. i \in 0..Depth-1
  BY Selects DEF Port
<1>2. ASSUME NEW k \in 0..NbBanks-1 PROVE word(k) \in Word
  BY <1>1 DEF Port, MemType
<1>3. /\ banks' = [k \in 0..NbBanks-1 |->
                     IF on(k) THEN [banks[k] EXCEPT ![i] = word(k)] ELSE banks[k]]
      /\ dout' = [k \in 0..NbBanks-1 |-> IF on(k) THEN word(k) ELSE dout[k]]
  BY DEF Access, MemType
<1>4. ASSUME NEW k \in 0..NbBanks-1
      PROVE  [banks[k] EXCEPT ![i] = word(k)] \in [0..Depth-1 -> Word]
  <2> HIDE DEF word, i
  <2> QED BY <1>1, <1>2 DEF MemType
<1>5. ASSUME p.req, Decoded(p.addr)
      PROVE  dout'[Bank(p.addr)] = banks'[Bank(p.addr)][i]
  <2>1. Bank(p.addr) \in 0..NbBanks-1 /\ on(Bank(p.addr))
    BY <1>5, Selects DEF Port, Selected
  <2> HIDE DEF word, on, i
  <2> QED BY <1>1, <1>3, <2>1 DEF MemType
<1>6. banks' \in [0..NbBanks-1 -> [0..Depth-1 -> Word]]
  <2> HIDE DEF word, on, i
  <2> QED BY <1>3, <1>4 DEF MemType
<1>7. dout' \in [0..NbBanks-1 -> Word]
  <2> HIDE DEF word, on, i
  <2> QED BY <1>2, <1>3 DEF MemType
<1> QED BY <1>5, <1>6, <1>7

(* The same of a clock edge: when it was AXI's, the load it made is on the  *)
(* output.                                                                  *)
LEMMA EdgeEffect ==
  ASSUME MemType, NEW p \in Port, Edge(p)
  PROVE  /\ MemType'
         /\ held' /\ p.req /\ Decoded(p.addr) =>
              dout'[Bank(p.addr)] = banks'[Bank(p.addr)][Index(p.addr)]
<1>1. CASE mux
  BY <1>1, AccessEffect DEF Edge, MemType
<1>2. CASE ~mux
  <2>1. PICK c \in Port : Access(c)
    BY <1>2, Ports DEF Edge
  <2> QED BY <1>2, <2>1, AccessEffect DEF Edge, MemType
<1> QED BY <1>1, <1>2

-----------------------------------------------------------------------------
(* The registers and the channels of axi2mem keep their types; so does the  *)
(* state machine's side of a step whatever the memories return.             *)
FsmType == /\ ar \in Requests \union {None} /\ aw \in Requests \union {None}
           /\ w \in [data : Data, strb : Strobes, last : BOOLEAN] \union {None}
           /\ wreq \in [req : Requests, sent : Nat] \union {None}
           /\ state \in {"IDLE", "READ", "WRITE", "SEND_B", "WAIT_WVALID"}
           /\ ax \in AxReq /\ req_addr \in Nat /\ cnt \in 0..CntMod-1

LEMMA TypeParts == CimTypeOK <=> FsmType /\ MemType
BY DEF CimTypeOK, FsmType, MemType

(* The burst that is served increments, so the next address is the sum. *)
LEMMA NextInRead ==
  ASSUME FsmType, Progress, state = "READ"
  PROVE  next_addr = req_addr + 1 /\ next_addr \in Nat /\ ax.len \in Nat /\ ax.addr \in Nat
BY BanksAssumption, RequestsAssumption
DEF FsmType, Progress, next_addr, cons_addr, InOneBank, AxReq

(* A request is accepted, a beat handed over: the read keeps its count. *)
LEMMA FsmStep ==
  ASSUME CimInv,
         \/ AcceptRead \/ ReadStall \/ \E d \in Word : ReadBeat(d)
         \/ SendB \/ AcceptWriteAlone \/ AcceptWrite \/ FirstBeat \/ WriteBeat
  PROVE  FsmType' /\ Progress'
<1> USE RequestsAssumption, CntModAssumption DEF CimInv, FsmType, Progress
<1>0. FsmType
  BY TypeParts
<1>1. CASE AcceptRead
  BY <1>0, <1>1, NoneAssumption, BanksAssumption DEF AcceptRead, AxReq, InOneBank
<1>2. CASE ReadStall
  BY <1>0, <1>2 DEF ReadStall, chans, regs
<1>3. ASSUME NEW d \in Word, ReadBeat(d) PROVE FsmType' /\ Progress'
  <2>1. /\ next_addr = req_addr + 1 /\ next_addr \in Nat
        /\ ax.len \in Nat /\ ax.addr \in Nat
    BY <1>0, <1>3, NextInRead DEF ReadBeat
  <2>2. cnt' \in 0..CntMod-1
    BY <1>0, <1>3 DEF ReadBeat, Incr
  <2>3. FsmType'
    BY <1>0, <1>3, <2>1, <2>2 DEF ReadBeat
  <2>4. ASSUME ~r_last PROVE Progress'
    <3>0. ax \in Requests /\ cnt \in 1..ax.len + 1
      BY <1>3 DEF ReadBeat
    <3>1. ax \in Requests /\ cnt \in 1..ax.len /\ ax.len + 1 < CntMod
      <4>1. ax.len + 1 < CntMod
        BY <3>0, BanksAssumption, Zenon DEF InOneBank
      <4>2. cnt # ax.len + 1
        BY <2>4 DEF r_last
      <4> QED BY <2>1, <3>0, <4>1, <4>2
    <3>2. cnt' = cnt + 1
      BY <1>3, <2>1, <3>1 DEF ReadBeat, Incr
    <3> QED BY <1>0, <1>3, <2>1, <3>1, <3>2 DEF ReadBeat
  <2>5. ASSUME r_last PROVE Progress'
    BY <1>3, <2>5 DEF ReadBeat
  <2> QED BY <2>3, <2>4, <2>5
<1>4. CASE SendB
  BY <1>0, <1>4 DEF SendB
<1>5. CASE AcceptWriteAlone
  BY <1>0, <1>5 DEF AcceptWriteAlone
<1>6. CASE AcceptWrite
  BY <1>0, <1>6 DEF AcceptWrite
<1>7. CASE FirstBeat
  BY <1>0, <1>7 DEF FirstBeat
<1>8. CASE WriteBeat
  <2>1. next_addr \in Nat
    BY <1>0, <1>8, BanksAssumption DEF WriteBeat, next_addr, cons_addr, InOneBank, AxReq
  <2>2. cnt' \in 0..CntMod-1
    BY <1>0, <1>8 DEF WriteBeat, Incr
  <2> QED BY <1>0, <1>8, <2>1, <2>2 DEF WriteBeat
<1> QED BY <1>1, <1>2, <1>3, <1>4, <1>5, <1>6, <1>7, <1>8

(* What AXI's side of an edge and the state machine's step leave behind. *)
LEMMA StepParts ==
  ASSUME CimInv, NEW p \in Port, Edge(p), FsmType', Progress',
         state' = "READ" => p.req /\ p.addr = req_addr'
  PROVE  CimInv'
<1>1. MemType' /\ (held' /\ p.req /\ Decoded(p.addr) =>
                     dout'[Bank(p.addr)] = banks'[Bank(p.addr)][Index(p.addr)])
  BY EdgeEffect, TypeParts DEF CimInv
<1>2. CimTypeOK'
  BY <1>1 DEF CimTypeOK, FsmType, MemType
<1>3. OutputKept'
  BY <1>1 DEF OutputKept, Stored, Bank, Decoded, Index
<1> QED BY <1>2, <1>3 DEF CimInv

LEMMA CimStep == CimInv /\ [CimNext]_cimVars => CimInv'
<1> SUFFICES ASSUME CimInv, [CimNext]_cimVars PROVE CimInv'
  OBVIOUS
<1>0. FsmType /\ MemType /\ Progress /\ OutputKept
  BY TypeParts DEF CimInv
<1>a. ax.addr \in Nat /\ req_addr \in Nat /\ (ar # None => ar \in Requests /\ ar.addr \in Nat)
      /\ (aw # None => aw \in Requests /\ aw.addr \in Nat)
  BY <1>0, RequestsAssumption DEF FsmType, AxReq
<1>1. CASE StartRead
  <2>1. Load(ar.addr) \in Port /\ Load(ar.addr).req /\ Load(ar.addr).addr = ar.addr
    BY <1>1, <1>a, Ports DEF StartRead, AcceptRead, Load, Idle
  <2>2. FsmType' /\ Progress'
    BY <1>1, FsmStep DEF StartRead
  <2> QED BY <1>1, <2>1, <2>2, StepParts DEF StartRead, AcceptRead
<1>2. CASE StartWrite
  <2>1. Store(aw.addr) \in Port
    BY <1>0, <1>2, <1>a, Ports DEF StartWrite, AcceptWrite, FsmType
  <2>2. FsmType' /\ Progress' /\ state' # "READ"
    BY <1>2, FsmStep DEF StartWrite, AcceptWrite
  <2> QED BY <1>2, <2>1, <2>2, StepParts DEF StartWrite
<1>3. CASE WaitWrite
  <2>1. FsmType' /\ Progress' /\ state' # "READ" /\ Idle(aw.addr) \in Port
    BY <1>3, <1>a, FsmStep, Ports DEF WaitWrite, AcceptWriteAlone
  <2> QED BY <1>3, <2>1, StepParts DEF WaitWrite
<1>4. CASE StoreFirst
  <2>1. Store(ax.addr) \in Port
    BY <1>0, <1>4, <1>a, Ports DEF StoreFirst, FirstBeat, FsmType
  <2>2. FsmType' /\ Progress' /\ state' # "READ"
    BY <1>4, FsmStep DEF StoreFirst, FirstBeat
  <2> QED BY <1>4, <2>1, <2>2, StepParts DEF StoreFirst
<1>5. CASE HoldBeat
  <2>1. Load(req_addr) \in Port /\ Load(req_addr).req /\ Load(req_addr).addr = req_addr
    BY <1>a, Ports DEF Load, Idle
  <2>2. FsmType' /\ Progress' /\ req_addr' = req_addr
    BY <1>5, FsmStep DEF HoldBeat, ReadStall, regs
  <2> QED BY <1>5, <2>1, <2>2, StepParts DEF HoldBeat
<1>b. \A a \in Nat : axi_rdata(a) \in Word
  BY <1>0, Selects, ZeroWord DEF axi_rdata, Returned, MemType
<1>6. CASE MoreBeats
  <2>1. next_addr \in Nat
    BY <1>0, <1>6, NextInRead DEF MoreBeats, ReadBeat
  <2>2. Load(next_addr) \in Port /\ Load(next_addr).req /\ Load(next_addr).addr = next_addr
    BY <2>1, Ports DEF Load, Idle
  <2>3. FsmType' /\ Progress' /\ req_addr' = next_addr
    BY <1>6, <1>b, <2>1, FsmStep DEF MoreBeats, ReadBeat
  <2> QED BY <1>6, <2>2, <2>3, StepParts DEF MoreBeats
<1>7. CASE LastBeat
  <2>1. next_addr \in Nat
    BY <1>0, <1>7, NextInRead DEF LastBeat, ReadBeat
  <2>2. FsmType' /\ Progress' /\ state' # "READ" /\ Idle(next_addr) \in Port
    BY <1>7, <1>b, <2>1, FsmStep, Ports DEF LastBeat, ReadBeat
  <2> QED BY <1>7, <2>2, StepParts DEF LastBeat
<1>8. CASE StoreNext
  <2>1. next_addr \in Nat
    BY <1>0, <1>8, BanksAssumption, RequestsAssumption
    DEF StoreNext, WriteBeat, FsmType, Progress, next_addr, cons_addr, InOneBank, AxReq
  <2>2. Store(next_addr) \in Port
    BY <1>0, <1>8, <2>1, Ports DEF StoreNext, WriteBeat, FsmType
  <2>3. FsmType' /\ Progress' /\ state' # "READ"
    BY <1>8, FsmStep DEF StoreNext, WriteBeat
  <2> QED BY <1>8, <2>2, <2>3, StepParts DEF StoreNext
<1>9. CASE Reply
  <2>1. FsmType' /\ Progress' /\ state' # "READ" /\ Idle(0) \in Port
    BY <1>9, FsmStep, Ports DEF Reply, SendB
  <2> QED BY <1>9, <2>1, StepParts DEF Reply
<1>10. CASE Quiet
  <2>1. FsmType' /\ Progress' /\ state' # "READ" /\ Idle(ax.addr) \in Port
    BY <1>0, <1>10, <1>a, Ports DEF Quiet, FsmType, Progress, chans, regs
  <2> QED BY <1>10, <2>1, StepParts DEF Quiet
<1>11. CASE CimReset
  <2>1. ResetReq \in AxReq
    BY CntModAssumption DEF ResetReq, AxReq, Bursts
  <2>2. FsmType' /\ MemType' /\ state' = "IDLE"
    <3>1. FsmType' /\ state' = "IDLE"
      BY <1>11, <2>1, CntModAssumption DEF CimReset, ResetFsm, FsmType
    <3>2. MemType'
      BY <1>0, <1>11, Zenon DEF CimReset, MemType
    <3> QED BY <3>1, <3>2
  <2> QED BY <2>2 DEF CimInv, CimTypeOK, FsmType, MemType, Progress, OutputKept
<1>12. ASSUME NEW v \in BOOLEAN, WriteMux(v) PROVE CimInv'
  BY <1>0, <1>12
  DEF WriteMux, chans, regs, CimInv, CimTypeOK, FsmType, MemType, Progress, OutputKept,
      Stored, Bank, Decoded, Index
<1>13. CASE Master
  <2>1. ASSUME UNCHANGED <<regs, mems>>, FsmType' PROVE CimInv'
    BY <1>0, <2>1
    DEF mems, regs, CimInv, CimTypeOK, FsmType, MemType, Progress, OutputKept,
        Stored, Bank, Decoded, Index
  <2>2. ASSUME NEW q \in Requests, RaiseAR(q) \/ RaiseAW(q) PROVE FsmType' /\ UNCHANGED regs
    BY <1>0, <2>2 DEF RaiseAR, RaiseAW, FsmType, regs
  <2>3. ASSUME NEW d \in Data, NEW s \in Strobes, RaiseW(d, s) PROVE FsmType' /\ UNCHANGED regs
    BY <1>0, <2>3, RequestsAssumption DEF RaiseW, FsmType, regs, AxReq
  <2> QED BY <1>13, <2>1, <2>2, <2>3 DEF Master
<1>14. CASE UNCHANGED cimVars
  BY <1>0, <1>14
  DEF cimVars, CimInv, CimTypeOK, FsmType, MemType, Progress, OutputKept,
      Stored, Bank, Decoded, Index
<1> QED BY <1>1, <1>2, <1>3, <1>4, <1>5, <1>6, <1>7, <1>8, <1>9, <1>10, <1>11, <1>12,
           <1>13, <1>14 DEF CimNext

LEMMA CimStart == CimInit => CimInv
<1> SUFFICES ASSUME CimInit PROVE CimInv
  OBVIOUS
<1>1. ResetReq \in AxReq
  BY CntModAssumption DEF ResetReq, AxReq, Bursts
<1>2. FsmType /\ state = "IDLE"
  BY <1>1, CntModAssumption DEF CimInit, InitFsm, FsmType
<1>3. MemType
  <2>1. mux \in BOOLEAN /\ held \in BOOLEAN
    BY Zenon DEF CimInit
  <2>2. /\ banks \in [0..NbBanks-1 -> [0..Depth-1 -> Word]]
        /\ dout \in [0..NbBanks-1 -> Word]
    BY ZeroWord DEF CimInit
  <2> QED BY <2>1, <2>2 DEF MemType
<1> QED BY <1>2, <1>3, TypeParts DEF CimInv, Progress, OutputKept

(* Every step of the memories and of axi2mem keeps the state in its type. *)
THEOREM CimTypes == CimSpec => []CimTypeOK
<1>1. CimInv => CimTypeOK
  BY DEF CimInv
<1> QED BY <1>1, CimStart, CimStep, PTL DEF CimSpec

(* The word a read asked for stays on its bank's output until the beat is   *)
(* taken, as long as the clock edges are AXI's: for every number of banks   *)
(* and every change of owner before.                                        *)
THEOREM OutputStays == CimSpec => []OutputKept
<1>1. CimInv => OutputKept
  BY DEF CimInv
<1> QED BY <1>1, CimStart, CimStep, PTL DEF CimSpec

-----------------------------------------------------------------------------
(* Quotients. *)
LEMMA Quotient == ASSUME NEW n \in Nat \ {0}, NEW q \in Nat, NEW e \in 0..n-1
                  PROVE  (n * q + e) \div n = q /\ (n * q + e) % n = e
OBVIOUS

LEMMA Quotients == ASSUME NEW n \in Nat \ {0}, NEW a \in Nat
                   PROVE  a = n * (a \div n) + (a % n) /\ a \div n \in Nat /\ a % n \in 0..n-1
OBVIOUS

(* The next address is in the same bank unless it starts one. *)
LEMMA SameBank == ASSUME NEW a \in Nat, (a + 1) % BankLen # 0
                  PROVE  Bank(a + 1) = Bank(a)
<1> DEFINE q == a \div BankLen
           e == a % BankLen
<1>0. BankLen \in Nat \ {0}
  BY BanksAssumption
<1>1. a = BankLen * q + e /\ q \in Nat /\ e \in 0..BankLen-1
  BY <1>0, Quotients
<1> HIDE DEF q, e
<1>2. CASE e + 1 \in 0..BankLen-1
  <2>1. a + 1 = BankLen * q + (e + 1)
    BY <1>0, <1>1
  <2>2. (a + 1) \div BankLen = q
    BY <1>0, <1>1, <1>2, <2>1, Quotient
  <2> QED BY <2>2 DEF Bank, q
<1>3. CASE e + 1 = BankLen
  <2>1. a + 1 = BankLen * (q + 1) + 0
    BY <1>0, <1>1, <1>3
  <2>2. (a + 1) % BankLen = 0
    BY <1>0, <1>1, <2>1, Quotient
  <2> QED BY <2>2
<1> QED BY <1>0, <1>1, <1>2, <1>3

(* Quotients are monotonic, so between two addresses of a bank there are no *)
(* others.                                                                  *)
LEMMA BankMonotonic == ASSUME NEW a \in Nat, NEW c \in Nat, a <= c
                       PROVE  Bank(a) <= Bank(c)
<1>0. BankLen \in Nat \ {0}
  BY BanksAssumption
<1>1. a = BankLen * Bank(a) + (a % BankLen) /\ Bank(a) \in Nat /\ a % BankLen \in 0..BankLen-1
  BY <1>0, Quotients DEF Bank
<1>2. c = BankLen * Bank(c) + (c % BankLen) /\ Bank(c) \in Nat /\ c % BankLen \in 0..BankLen-1
  BY <1>0, Quotients DEF Bank
<1>3. SUFFICES ASSUME Bank(a) >= Bank(c) + 1 PROVE FALSE
  BY <1>1, <1>2
<1>4. BankLen * Bank(a) >= BankLen * (Bank(c) + 1)
  BY <1>0, <1>1, <1>2, <1>3
<1> QED BY <1>0, <1>1, <1>2, <1>4

(* A beat that is handed over under AXI's ownership is the word of its      *)
(* address (or zero under the other's), for every number and size of banks  *)
(* and every request AXI allows; the exception is the last word of a bank.  *)
THEOREM BeatsCorrect == CimSpec => BeatsAreWords
<1>1. ASSUME CimInv, [CimNext]_cimVars, state = "READ", cnt' # cnt, r' # None
      PROVE  /\ ~mux => r'.data = Zero
             /\ mux /\ held /\ ~(r_last /\ (req_addr + 1) % BankLen = 0)
                  => r'.data = Stored(req_addr)
  <2>0. FsmType /\ Progress /\ OutputKept
    BY <1>1, TypeParts DEF CimInv
  <2>1. r'.data = axi_rdata(next_addr)
    <3>1. MoreBeats \/ LastBeat
      BY <1>1
      DEF CimNext, cimVars, Master, WriteMux, RaiseAR, RaiseAW, RaiseW, regs, StartRead,
          AcceptRead, StartWrite, AcceptWrite, WaitWrite, AcceptWriteAlone, StoreFirst,
          FirstBeat, HoldBeat, ReadStall, StoreNext, WriteBeat, Reply, SendB, Quiet,
          CimReset, ResetFsm
    <3> QED BY <3>1 DEF MoreBeats, LastBeat, ReadBeat
  <2>2. next_addr = req_addr + 1 /\ req_addr \in Nat /\ ax.addr \in Nat /\ ax.len \in Nat
    BY <1>1, <2>0, NextInRead DEF FsmType
  <2>3. ASSUME mux, held, ~(r_last /\ (req_addr + 1) % BankLen = 0)
        PROVE  r'.data = Stored(req_addr)
    <3>1. Bank(next_addr) = Bank(req_addr)
      <4>1. CASE (req_addr + 1) % BankLen # 0
        BY <2>2, <4>1, SameBank
      <4>2. CASE ~r_last
        <5>1. ax \in Requests /\ cnt \in 1..ax.len /\ req_addr = ax.addr + cnt - 1
          BY <1>1, <2>0, <2>2, <4>2 DEF Progress, r_last
        <5>2. Bank(ax.addr) = Bank(ax.addr + ax.len)
          BY <5>1, BanksAssumption, Zenon DEF InOneBank, Bank
        <5>3. /\ Bank(ax.addr) <= Bank(req_addr) /\ Bank(req_addr) <= Bank(next_addr)
              /\ Bank(next_addr) <= Bank(ax.addr + ax.len)
          BY <2>2, <5>1, BankMonotonic
        <5> QED BY <2>2, <5>2, <5>3, Selects
      <4> QED BY <2>3, <4>1, <4>2
    <3>2. axi_rdata(next_addr) = IF Decoded(req_addr) THEN dout[Bank(req_addr)] ELSE Zero
      BY <2>3, <3>1 DEF axi_rdata, Returned, Decoded
    <3> QED BY <1>1, <2>0, <2>1, <2>3, <3>2 DEF OutputKept, Stored
  <2>4. ~mux => r'.data = Zero
    BY <2>1 DEF axi_rdata
  <2> QED BY <2>3, <2>4
<1>2. CimInv /\ [CimNext]_cimVars =>
        [state = "READ" /\ cnt' # cnt /\ r' # None =>
           /\ ~mux => r'.data = Zero
           /\ mux /\ held /\ ~(r_last /\ (req_addr + 1) % BankLen = 0)
                => r'.data = Stored(req_addr)]_cimVars
  BY <1>1
<1> QED BY <1>2, CimStart, CimStep, PTL DEF CimSpec, BeatsAreWords

-----------------------------------------------------------------------------
(* The beats of a write. *)

(* The beat the master presents next is the one the burst waits for. *)
LEMMA NextWBeat ==
  ASSUME NEW q \in AxReq, NEW n \in Nat, Sending(q, n),
         NEW d \in Data, NEW s \in Strobes, RaiseW(d, s)
  PROVE  Sending(q, n)'
<1>1. w = None /\ wreq = [req |-> q, sent |-> n] /\ n <= q.len /\ q.len \in Nat
  BY DEF Sending, RaiseW, AxReq
<1>2. w' = [data |-> d, strb |-> s, last |-> n = q.len]
  BY <1>1 DEF RaiseW
<1>3. w' # None
  <2>1. w' \in WBeat
    BY <1>2, BanksAssumption DEF WBeat
  <2> QED BY <2>1, NoneAssumption
<1>4. w'.last <=> n = q.len
  BY <1>2
<1>5. CASE n = q.len
  <2>1. wreq' = None
    BY <1>1, <1>5 DEF RaiseW
  <2> QED BY <1>1, <1>3, <1>4, <1>5, <2>1 DEF Sending
<1>6. CASE n # q.len
  <2>1. wreq' = [req |-> q, sent |-> n + 1]
    BY <1>1, <1>6 DEF RaiseW
  <2> QED BY <1>1, <1>3, <1>4, <1>6, <2>1 DEF Sending
<1> QED BY <1>5, <1>6

(* Every step keeps the W channel and the state machine in step, whoever    *)
(* owns the memories.                                                       *)
LEMMA WriteStep ==
  ASSUME CimInv, WriteInStep, [CimNext]_cimVars PROVE WriteInStep'
<1>0. FsmType
  BY TypeParts DEF CimInv
<1>a. /\ ax \in AxReq /\ ax.len \in Nat /\ cnt \in Nat
      /\ aw # None => aw \in AxReq /\ aw.len \in Nat
  BY <1>0, RequestsAssumption DEF FsmType, AxReq
<1> USE DEF WriteInStep
<1>1. CASE StartRead
  BY <1>1 DEF StartRead, AcceptRead, Sending
<1>2. CASE StartWrite
  BY <1>2, <1>a DEF StartWrite, AcceptWrite, Sending
<1>3. CASE WaitWrite
  BY <1>3 DEF WaitWrite, AcceptWriteAlone, Sending
<1>4. CASE StoreFirst
  BY <1>4, <1>a DEF StoreFirst, FirstBeat, Sending
<1>5. CASE HoldBeat
  BY <1>5 DEF HoldBeat, ReadStall, chans, regs, Sending
<1>6. CASE MoreBeats \/ LastBeat
  BY <1>6 DEF MoreBeats, LastBeat, ReadBeat, Sending
<1>7. CASE StoreNext
  <2>1. ax \in Requests
    BY <1>7 DEF CimInv, Progress, StoreNext, WriteBeat
  <2>2. ax.len + 1 < CntMod
    BY <2>1, BanksAssumption, Zenon DEF InOneBank
  <2>3. cnt < ax.len => cnt' = cnt + 1
    BY <1>7, <1>a, <2>2, CntModAssumption DEF StoreNext, WriteBeat, Incr
  <2> QED BY <1>7, <1>a, <2>3 DEF StoreNext, WriteBeat, Sending
<1>8. CASE Reply
  BY <1>8 DEF Reply, SendB, Sending
<1>9. CASE Quiet
  BY <1>9 DEF Quiet, chans, regs, Sending
<1>10. CASE CimReset
  BY <1>10 DEF CimReset, ResetFsm
<1>11. ASSUME NEW v \in BOOLEAN, WriteMux(v) PROVE WriteInStep'
  BY <1>11 DEF WriteMux, chans, regs, Sending
<1>12. CASE Master
  <2>1. ASSUME NEW q \in Requests, RaiseAR(q) PROVE WriteInStep'
    BY <2>1 DEF RaiseAR, regs, Sending
  <2>2. ASSUME NEW q \in Requests, RaiseAW(q) PROVE WriteInStep'
    <3>1. q # None /\ q.len \in Nat
      BY NoneAssumption, RequestsAssumption DEF AxReq
    <3>2. \A n \in Nat : [req |-> ax, sent |-> n] # None
      BY <1>a, NoneAssumption
    <3> QED BY <2>2, <3>1, <3>2, <1>a DEF RaiseAW, regs, Sending
  <2>3. ASSUME NEW d \in Data, NEW s \in Strobes, RaiseW(d, s) PROVE WriteInStep'
    <3>1. ASSUME state \in {"WAIT_WVALID", "WRITE"}, aw = None PROVE WriteInStep'
      <4> DEFINE n == IF state = "WRITE" THEN cnt ELSE 0
      <4>1. Sending(ax, n) /\ n \in Nat
        BY <1>a, <3>1
      <4>2. ax' = ax /\ aw' = aw /\ state' = state /\ cnt' = cnt
        BY <2>3 DEF RaiseW, regs
      <4> HIDE DEF WriteInStep
      <4>3. Sending(ax, n)'
        <5> HIDE DEF n
        <5>1. PICK m \in Nat : m = n
          BY <4>1
        <5>2. PICK q \in AxReq : q = ax
          BY <1>a
        <5>3. Sending(q, m)'
          BY <1>a, <2>3, <4>1, <5>1, <5>2, NextWBeat
        <5>4. n' = n
          BY <4>2 DEF n
        <5> QED BY <4>2, <5>1, <5>2, <5>3, <5>4 DEF Sending
      <4> QED BY <3>1, <4>2, <4>3 DEF WriteInStep
    <3>2. ASSUME state \notin {"WAIT_WVALID", "WRITE"}, aw # None PROVE WriteInStep'
      <4>1. Sending(aw, 0)
        BY <3>2
      <4>2. aw' = aw /\ state' = state
        BY <2>3 DEF RaiseW, regs
      <4>3. Sending(aw, 0)'
        <5>2. PICK q \in AxReq : q = aw
          BY <1>a, <3>2
        <5>3. Sending(q, 0)'
          BY <1>a, <2>3, <3>2, <4>1, <5>2, NextWBeat
        <5> QED BY <4>2, <5>2, <5>3 DEF Sending
      <4> QED BY <3>2, <4>2, <4>3
    <3> QED BY <2>3, <3>1, <3>2 DEF RaiseW
  <2> QED BY <1>12, <2>1, <2>2, <2>3 DEF Master
<1>13. CASE UNCHANGED cimVars
  BY <1>13 DEF cimVars, Sending
<1> QED BY <1>1, <1>2, <1>3, <1>4, <1>5, <1>6, <1>7, <1>8, <1>9, <1>10, <1>11, <1>12,
           <1>13 DEF CimNext

(* So a beat of a write is one of the len + 1 beats of its request, and its *)
(* address is in the bank of the first.                                     *)
LEMMA BeatInBank ==
  ASSUME CimInv, WriteInStep, state = "WRITE", w # None
  PROVE  next_addr \in Nat /\ Bank(next_addr) = Bank(ax.addr)
<1>1. /\ ax \in Requests /\ ax.addr \in Nat /\ ax.len \in Nat /\ cnt \in Nat
  BY RequestsAssumption DEF CimInv, CimTypeOK, Progress, AxReq
<1>2. cnt <= ax.len
  BY <1>1 DEF WriteInStep, Sending
<1>3. next_addr = ax.addr + cnt
  BY <1>1, BanksAssumption DEF next_addr, cons_addr, InOneBank
<1>4. Bank(ax.addr) = Bank(ax.addr + ax.len)
  BY <1>1, BanksAssumption, Zenon DEF InOneBank, Bank
<1>5. Bank(ax.addr) <= Bank(ax.addr + cnt) /\ Bank(ax.addr + cnt) <= Bank(ax.addr + ax.len)
  BY <1>1, <1>2, BankMonotonic
<1>6. Bank(ax.addr) \in Nat /\ Bank(ax.addr + cnt) \in Nat
  BY <1>1, Selects
<1> QED BY <1>1, <1>3, <1>4, <1>5, <1>6

(* What an access changes: a word of the selected bank, to the data of a   *)
(* write with a strobe; and what such a write stores.                       *)
LEMMA AccessWords ==
  ASSUME MemType, NEW p \in Port, Access(p)
  PROVE  /\ \A k \in 0..NbBanks-1, i \in 0..Depth-1 :
              banks'[k][i] # banks[k][i] =>
                WriteEnable(p) /\ Bank(p.addr) = k /\ banks'[k][i] = p.data
         /\ p.req /\ WriteEnable(p) /\ Decoded(p.addr) =>
              banks'[Bank(p.addr)][Index(p.addr)] = p.data
<1> DEFINE j == Index(p.addr)
           word(n) == IF WriteEnable(p) THEN p.data ELSE banks[n][j]
           on(n) == p.req /\ Selected(n, p)
<1>1. j \in 0..Depth-1
  BY Selects DEF Port
<1>2. banks' = [n \in 0..NbBanks-1 |->
                  IF on(n) THEN [banks[n] EXCEPT ![j] = word(n)] ELSE banks[n]]
  BY DEF Access, MemType
<1>3. ASSUME NEW k \in 0..NbBanks-1, NEW i \in 0..Depth-1, banks'[k][i] # banks[k][i]
      PROVE  WriteEnable(p) /\ Bank(p.addr) = k /\ banks'[k][i] = p.data
  <2>1. banks[k] \in [0..Depth-1 -> Word]
    BY DEF MemType
  <2>2. on(k) /\ i = j /\ banks'[k][i] = word(k)
    <3> HIDE DEF word, on, j
    <3> QED BY <1>1, <1>2, <1>3, <2>1
  <2> HIDE DEF j
  <2> QED BY <1>3, <2>2 DEF Selected
<1>4. ASSUME p.req, WriteEnable(p), Decoded(p.addr)
      PROVE  banks'[Bank(p.addr)][j] = p.data
  <2>1. Bank(p.addr) \in 0..NbBanks-1 /\ on(Bank(p.addr)) /\ word(Bank(p.addr)) = p.data
    BY <1>4, Selects DEF Port, Selected
  <2> HIDE DEF word, on, j
  <2> QED BY <1>1, <1>2, <2>1 DEF MemType
<1> QED BY <1>3, <1>4

(* The same of AXI's clock edges. *)
LEMMA StoreEdge ==
  ASSUME MemType, mux, w \in [data : Data, strb : Strobes, last : BOOLEAN],
         NEW a \in Nat, Edge(Store(a))
  PROVE  /\ \A k \in 0..NbBanks-1, i \in 0..Depth-1 :
              banks'[k][i] # banks[k][i] =>
                w.strb # {} /\ Bank(a) = k /\ banks'[k][i] = w.data
         /\ w.strb # {} /\ Decoded(a) => banks'[Bank(a)][Index(a)] = w.data
<1>1. /\ Store(a) \in Port /\ Store(a).addr = a /\ Store(a).data = w.data
      /\ Store(a).req /\ Store(a).we /\ Store(a).be = w.strb
  BY Ports DEF Store, Put
<1>2. Access(Store(a))
  BY DEF Edge
<1> HIDE DEF Store
<1> QED BY <1>1, <1>2, AccessWords DEF WriteEnable

LEMMA LoadEdge ==
  ASSUME MemType, mux, NEW p \in Port, Edge(p), ~p.we
  PROVE  \A k \in 0..NbBanks-1, i \in 0..Depth-1 : banks'[k][i] = banks[k][i]
BY AccessWords DEF Edge, WriteEnable

(* While AXI owns the memories every word that changes is the one of the W  *)
(* beat being taken, as a whole, in the bank its burst is for; and a beat   *)
(* with a strobe replaces the whole word.  For every number and size of     *)
(* banks, every request that stays within a bank, any strobes and every     *)
(* sequence of owners.                                                      *)
THEOREM WritesStayInBank == CimSpec => WritesConfined
<1> DEFINE Changed ==
      \A k \in DOMAIN banks, i \in 0..Depth-1 :
         banks'[k][i] # banks[k][i] =>
           /\ w # None /\ w' = None /\ w.strb # {} /\ banks'[k][i] = w.data
           /\ Bank(IF state = "IDLE" THEN aw.addr ELSE ax.addr) = k
    Written == /\ w # None /\ w' = None /\ state' # "IDLE"
               /\ w.strb # {} /\ Decoded(BeatAddr)
               => banks'[Bank(BeatAddr)][Index(BeatAddr)] = w.data
<1>1. ASSUME CimInv, WriteInStep, [CimNext]_cimVars, mux PROVE Changed /\ Written
  <2>0. FsmType /\ MemType /\ Progress /\ DOMAIN banks = 0..NbBanks-1
    BY <1>1, TypeParts DEF CimInv, MemType
  <2>a. /\ ax.addr \in Nat /\ req_addr \in Nat
        /\ ar # None => ar.addr \in Nat
        /\ aw # None => aw.addr \in Nat
    BY <2>0, RequestsAssumption DEF FsmType, AxReq
  <2>b. w # None => w \in [data : Data, strb : Strobes, last : BOOLEAN]
    BY <2>0 DEF FsmType
  <2>c. ASSUME NEW p \in Port, Edge(p), ~p.we, w' = w PROVE Changed /\ Written
    BY <1>1, <2>0, <2>c, LoadEdge
  <2>d. \A x : ~Idle(x).we /\ ~Load(x).we
    BY DEF Idle, Load
  <2>e. ASSUME NEW a \in Nat, Edge(Store(a)), w # None, w' = None, a = BeatAddr,
               Bank(a) = Bank(IF state = "IDLE" THEN aw.addr ELSE ax.addr)
        PROVE  Changed /\ Written
    BY <1>1, <2>0, <2>b, <2>e, StoreEdge
  <2>1. CASE StartRead
    BY <2>1, <2>a, <2>c, <2>d, Ports DEF StartRead, AcceptRead
  <2>2. CASE StartWrite
    <3>1. /\ aw.addr \in Nat /\ w # None /\ w' = None /\ state = "IDLE"
          /\ Edge(Store(aw.addr)) /\ BeatAddr = aw.addr
      BY <2>2, <2>a DEF StartWrite, AcceptWrite, BeatAddr
    <3> QED BY <2>e, <3>1
  <2>3. CASE WaitWrite
    BY <2>3, <2>a, <2>c, <2>d, Ports DEF WaitWrite, AcceptWriteAlone
  <2>4. CASE StoreFirst
    <3>1. /\ w # None /\ w' = None /\ state = "WAIT_WVALID"
          /\ Edge(Store(ax.addr)) /\ BeatAddr = ax.addr
      BY <2>4 DEF StoreFirst, FirstBeat, BeatAddr
    <3> QED BY <2>a, <2>e, <3>1
  <2>5. CASE HoldBeat
    BY <2>5, <2>a, <2>c, <2>d, Ports DEF HoldBeat, ReadStall, chans
  <2>6. CASE MoreBeats \/ LastBeat
    <3>1. next_addr \in Nat
      BY <2>0, <2>6, NextInRead DEF MoreBeats, LastBeat, ReadBeat
    <3> QED BY <2>6, <2>c, <2>d, <3>1, Ports DEF MoreBeats, LastBeat, ReadBeat
  <2>7. CASE StoreNext
    <3>1. /\ state = "WRITE" /\ w # None /\ w' = None
          /\ Edge(Store(next_addr)) /\ BeatAddr = next_addr
      BY <2>7 DEF StoreNext, WriteBeat, BeatAddr
    <3>2. next_addr \in Nat /\ Bank(next_addr) = Bank(ax.addr)
      BY <1>1, <3>1, BeatInBank
    <3> QED BY <2>e, <3>1, <3>2
  <2>8. CASE Reply
    BY <2>8, <2>c, <2>d, Ports DEF Reply, SendB
  <2>9. CASE Quiet
    BY <2>9, <2>a, <2>c, <2>d, Ports DEF Quiet, chans
  <2>10. CASE CimReset
    BY <2>10 DEF CimReset, ResetFsm
  <2>11. CASE Master
    <3>1. w = None \/ w' = w
      BY <2>11 DEF Master, RaiseAR, RaiseAW, RaiseW
    <3>2. banks' = banks
      BY <2>11 DEF Master, mems
    <3> QED BY <3>1, <3>2
  <2>12. CASE (\E v \in BOOLEAN : WriteMux(v)) \/ UNCHANGED cimVars
    BY <2>12 DEF WriteMux, chans, cimVars
  <2> QED BY <1>1, <2>1, <2>2, <2>3, <2>4, <2>5, <2>6, <2>7, <2>8, <2>9, <2>10, <2>11,
             <2>12 DEF CimNext
<1>2. CimInit => WriteInStep
  BY DEF CimInit, InitFsm, WriteInStep
<1>3. CimInv /\ WriteInStep /\ [CimNext]_cimVars => [mux => Changed /\ Written]_cimVars
  BY <1>1
<1>4. CimInv /\ WriteInStep /\ [CimNext]_cimVars => WriteInStep'
  BY WriteStep
<1> QED BY <1>2, <1>3, <1>4, CimStart, CimStep, PTL DEF CimSpec, WritesConfined
=============================================================================
