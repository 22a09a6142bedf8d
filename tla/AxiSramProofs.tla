--------------------------- MODULE AxiSramProofs ---------------------------
(* Theorems about the main-memory path, for every value of the constants. *)
EXTENDS AxiSram, TLAPS

USE CntModAssumption, RequestsAssumption, NoneAssumption, DepthAssumption

(* The slice of an address is a word of the RAM. *)
LEMMA IndexInRange == \A a \in Nat : Index(a) \in 0..Depth-1
BY DEF Index

(* The address generator never leaves the naturals. *)
LEMMA NextAddrNat ==
  ASSUME ax \in AxReq, cnt \in 0..CntMod-1
  PROVE  next_addr \in Nat
BY DEF AxReq, next_addr, cons_addr, upper_wrap_boundary, wrap_boundary,
       get_wrap_boundary

(* A word with some lanes replaced is a word. *)
LEMMA MergeType ==
  ASSUME NEW old \in Word, NEW new \in Word, NEW s \in SUBSET Lane
  PROVE  Merge(old, new, s) \in Word
BY DEF Merge, Word

(* One cycle or one step of the master keeps every variable in its type. *)
LEMMA TypeStep == TypeOK /\ [Next]_vars => TypeOK'
PROOF
<1> SUFFICES ASSUME TypeOK, [Next]_vars PROVE TypeOK'
  OBVIOUS
<1>1. CASE MasterStep
  <2>1. ASSUME NEW q \in Requests, RaiseAR(q) \/ RaiseAW(q), RamIdle PROVE TypeOK'
    BY <2>1 DEF RaiseAR, RaiseAW, RamIdle, TypeOK, regs
  <2>2. ASSUME NEW d \in Word, NEW s \in SUBSET Lane, RaiseW(d, s), RamIdle PROVE TypeOK'
    BY <2>2 DEF RaiseW, RamIdle, TypeOK, regs, WBeat
  <2> QED BY <1>1, <2>1, <2>2 DEF MasterStep
<1>2. CASE StartRead
  <2>1. ar \in AxReq /\ ar.addr \in Nat
    BY <1>2 DEF StartRead, AcceptRead, TypeOK, AxReq
  <2>2. mem[Index(ar.addr)] \in Word
    BY <2>1, IndexInRange DEF TypeOK
  <2> QED BY <1>2, <2>1, <2>2 DEF StartRead, AcceptRead, RamRead, TypeOK
<1>3. CASE StartWrite
  <2>1. aw \in AxReq /\ aw.addr \in Nat /\ w \in WBeat
    BY <1>3 DEF StartWrite, AcceptWrite, TypeOK, AxReq
  <2>2. Merge(mem[Index(aw.addr)], w.data, w.strb) \in Word
    BY <2>1, IndexInRange, MergeType DEF TypeOK, WBeat
  <2>3. mem' \in [0..Depth-1 -> Word] /\ dout' \in Word
    BY <1>3, <2>2 DEF StartWrite, RamWrite, TypeOK
  <2>4. cnt' \in 0..CntMod-1
    BY <1>3 DEF StartWrite, AcceptWrite
  <2> QED BY <1>3, <2>1, <2>3, <2>4 DEF StartWrite, AcceptWrite, TypeOK
<1>4. CASE WaitWrite
  BY <1>4 DEF WaitWrite, AcceptWriteAlone, RamIdle, TypeOK
<1>5. CASE StoreFirst
  <2>1. ax \in AxReq /\ ax.addr \in Nat /\ w \in WBeat
    BY <1>5 DEF StoreFirst, FirstBeat, TypeOK, AxReq
  <2>2. Merge(mem[Index(ax.addr)], w.data, w.strb) \in Word
    BY <2>1, IndexInRange, MergeType DEF TypeOK, WBeat
  <2>3. mem' \in [0..Depth-1 -> Word] /\ dout' \in Word
    BY <1>5, <2>2 DEF StoreFirst, RamWrite, TypeOK
  <2>4. cnt' \in 0..CntMod-1
    BY <1>5 DEF StoreFirst, FirstBeat
  <2> QED BY <1>5, <2>1, <2>3, <2>4 DEF StoreFirst, FirstBeat, TypeOK
<1>6. CASE HoldBeat
  BY <1>6, IndexInRange DEF HoldBeat, ReadStall, chans, regs, RamRead, TypeOK
<1>7. CASE MoreBeats
  <2>1. next_addr \in Nat
    BY NextAddrNat DEF TypeOK
  <2>2. r' \in [id : Nat, data : Word, last : BOOLEAN]
    BY <1>7 DEF MoreBeats, ReadBeat, r_last, TypeOK, AxReq
  <2>3. cnt' \in 0..CntMod-1
    BY <1>7 DEF MoreBeats, ReadBeat, Incr, TypeOK
  <2> QED BY <1>7, <2>1, <2>2, <2>3, IndexInRange DEF MoreBeats, ReadBeat, RamRead, TypeOK
<1>8. CASE LastBeat
  <2>1. next_addr \in Nat
    BY NextAddrNat DEF TypeOK
  <2>2. r' \in [id : Nat, data : Word, last : BOOLEAN]
    BY <1>8 DEF LastBeat, ReadBeat, r_last, TypeOK, AxReq
  <2>3. cnt' \in 0..CntMod-1
    BY <1>8 DEF LastBeat, ReadBeat, Incr, TypeOK
  <2> QED BY <1>8, <2>1, <2>2, <2>3 DEF LastBeat, ReadBeat, RamIdle, TypeOK
<1>9. CASE StoreNext
  <2>1. next_addr \in Nat /\ w \in WBeat
    BY <1>9, NextAddrNat DEF StoreNext, WriteBeat, TypeOK
  <2>2. Merge(mem[Index(next_addr)], w.data, w.strb) \in Word
    BY <2>1, IndexInRange, MergeType DEF TypeOK, WBeat
  <2>3. cnt' \in 0..CntMod-1
    BY <1>9 DEF StoreNext, WriteBeat, Incr, TypeOK
  <2> QED BY <1>9, <2>1, <2>2, <2>3 DEF StoreNext, WriteBeat, RamWrite, TypeOK
<1>10. CASE Reply
  BY <1>10 DEF Reply, SendB, RamIdle, TypeOK, AxReq
<1>11. CASE Reset
  BY <1>11 DEF Reset, ResetFsm, RamIdle, TypeOK, ResetReq, AxReq, Bursts
<1>12. CASE UNCHANGED vars
  BY <1>12 DEF vars, TypeOK
<1> QED BY <1>1, <1>2, <1>3, <1>4, <1>5, <1>6, <1>7, <1>8, <1>9, <1>10,
           <1>11, <1>12 DEF Next

(* TypeOK holds in every state, whatever requests the masters issue. *)
THEOREM TypeCorrect == Spec => []TypeOK
PROOF
<1>1. Init => TypeOK
  BY DEF Init, InitFsm, TypeOK, ResetReq, AxReq, Bursts
<1> QED BY <1>1, TypeStep, PTL DEF Spec

-----------------------------------------------------------------------------
(* The boundary of a two-beat wrap is the even address below. *)
LEMMA EvenOrOdd == \A a \in Nat : \E h \in Nat : a = 2 * h \/ a = 2 * h + 1
PROOF
<1> TAKE a \in Nat
<1>1. a \div 2 \in Nat
  OBVIOUS
<1>2. a = 2 * (a \div 2) \/ a = 2 * (a \div 2) + 1
  OBVIOUS
<1> QED BY <1>1, <1>2

(* The address generator computes the address AXI assigns to the beat. *)
LEMMA NextAddrCorrect ==
  ASSUME ax \in AxReq, Supported(ax), cnt \in 1..ax.len
  PROVE  next_addr = BM!BeatAddr(ax, cnt)
PROOF
<1> USE DEF next_addr, cons_addr, upper_wrap_boundary, wrap_boundary,
            get_wrap_boundary, Supported, AxReq, BM!BeatAddr
<1>1. CASE ax.burst = "INCR"
  BY <1>1
<1>2. CASE ax.burst = "WRAP" /\ ax.len = 1
  <2>1. cnt = 1
    BY <1>2
  <2>2. PICK h \in Nat : ax.addr = 2 * h \/ ax.addr = 2 * h + 1
    BY EvenOrOdd
  <2>3. CASE ax.addr = 2 * h
    <3>1. ax.addr \div 2 = h /\ (ax.addr + 1) % 2 = 1
      BY <2>3
    <3> QED BY <3>1, <1>2, <2>1, <2>3
  <2>4. CASE ax.addr = 2 * h + 1
    <3>1. ax.addr \div 2 = h /\ (ax.addr + 1) % 2 = 0
      BY <2>4
    <3> QED BY <3>1, <1>2, <2>1, <2>4
  <2> QED BY <2>2, <2>3, <2>4
<1> QED BY <1>1, <1>2

(* The first beat goes to the address of the request. *)
LEMMA FirstAddrCorrect ==
  ASSUME NEW q \in AxReq, Supported(q)
  PROVE  BM!BeatAddr(q, 0) = q.addr
PROOF
<1> USE DEF Supported, AxReq, BM!BeatAddr
<1>1. CASE q.burst = "INCR"
  BY <1>1
<1>2. CASE q.burst = "WRAP" /\ q.len = 1
  <2>1. PICK h \in Nat : q.addr = 2 * h \/ q.addr = 2 * h + 1
    BY EvenOrOdd
  <2>2. CASE q.addr = 2 * h
    <3>1. q.addr \div 2 = h /\ (q.addr + 0) % 2 = 0
      BY <2>2
    <3> QED BY <1>2, <2>2, <3>1
  <2>3. CASE q.addr = 2 * h + 1
    <3>1. q.addr \div 2 = h /\ (q.addr + 0) % 2 = 1
      BY <2>3
    <3> QED BY <1>2, <2>3, <3>1
  <2> QED BY <2>1, <2>2, <2>3
<1> QED BY <1>1, <1>2

(* Below its width the beat counter counts without wrapping. *)
LEMMA CountsOn == ASSUME NEW c \in Nat, c + 1 < CntMod PROVE Incr(c) = c + 1
BY DEF Incr

-----------------------------------------------------------------------------
(* The requests of this SoC's masters. *)
SupportedOnly == \A q \in Requests : Supported(q)

(* The beat the master presents next is the one the burst waits for. *)
LEMMA NextWBeat ==
  ASSUME NEW q \in AxReq, NEW n \in Nat, Sending(q, n),
         NEW d \in Word, NEW s \in SUBSET Lane, RaiseW(d, s)
  PROVE  /\ w' # None
         /\ \/ ~w'.last /\ n < q.len /\ wreq' = [req |-> q, sent |-> n + 1]
            \/ w'.last /\ n = q.len /\ wreq' = None
PROOF
<1>1. w = None /\ wreq = [req |-> q, sent |-> n] /\ n <= q.len /\ q.len \in Nat
  BY DEF Sending, RaiseW, AxReq
<1>2. w' = [data |-> d, strb |-> s, last |-> n = q.len]
  BY <1>1 DEF RaiseW
<1>3. w' \in WBeat
  BY <1>2 DEF WBeat
<1>4. w'.last <=> n = q.len
  BY <1>2
<1>5. CASE n = q.len
  BY <1>1, <1>3, <1>4, <1>5 DEF RaiseW
<1>6. CASE n # q.len
  <2>1. wreq' = [req |-> q, sent |-> n + 1]
    BY <1>1, <1>6 DEF RaiseW
  <2> QED BY <1>1, <1>3, <1>4, <1>6, <2>1
<1> QED BY <1>5, <1>6

(* A step of the master keeps the invariant. *)
LEMMA MasterKeepsInv ==
  ASSUME BurstInv, MasterStep PROVE BurstInv'
PROOF
<1>0. TypeOK'
  BY TypeStep DEF BurstInv, Next
<1>1. ASSUME NEW q \in Requests, RaiseAR(q), RamIdle PROVE BurstInv'
  BY <1>0, <1>1 DEF BurstInv, ChannelInv, ProgressInv, ReadDataReady, WriteInStep,
     Sending, RaiseAR, RamIdle, regs
<1>2. ASSUME NEW q \in Requests, RaiseAW(q), RamIdle PROVE BurstInv'
  <2> USE <1>2 DEF RaiseAW, RamIdle, regs
  <2>1. ChannelInv' /\ ProgressInv' /\ ReadDataReady'
    BY DEF BurstInv, ChannelInv, ProgressInv, ReadDataReady
  <2>2. q # None /\ q \in AxReq /\ q.len \in Nat
    BY DEF AxReq
  <2>3. WriteInStep'
    BY <2>2 DEF BurstInv, TypeOK, WriteInStep, Sending
  <2> QED BY <1>0, <2>1, <2>3 DEF BurstInv
<1>3. ASSUME NEW d \in Word, NEW s \in SUBSET Lane, RaiseW(d, s), RamIdle PROVE BurstInv'
  <2> USE <1>3 DEF RaiseW, RamIdle, regs
  <2>1. ChannelInv' /\ ProgressInv' /\ ReadDataReady'
    BY DEF BurstInv, ChannelInv, ProgressInv, ReadDataReady
  <2>2. ax \in AxReq /\ (aw # None => aw \in AxReq) /\ cnt \in Nat
    BY DEF BurstInv, TypeOK
  <2>3. CASE state \in {"WAIT_WVALID", "WRITE"} /\ aw = None
    <3> DEFINE n == IF state = "WRITE" THEN cnt ELSE 0
    <3>1. Sending(ax, n) /\ n \in Nat
      BY <2>2, <2>3 DEF BurstInv, WriteInStep
    <3>2. /\ w' # None
          /\ \/ ~w'.last /\ n < ax.len /\ wreq' = [req |-> ax, sent |-> n + 1]
             \/ w'.last /\ n = ax.len /\ wreq' = None
      BY <2>2, <3>1, NextWBeat
    <3>3. WriteInStep'
      BY <2>3, <3>2 DEF WriteInStep, Sending
    <3> QED BY <1>0, <2>1, <3>3 DEF BurstInv
  <2>4. CASE state \notin {"WAIT_WVALID", "WRITE"} /\ aw # None
    <3>1. Sending(aw, 0)
      BY <2>4 DEF BurstInv, WriteInStep
    <3>2. /\ w' # None
          /\ \/ ~w'.last /\ 0 < aw.len /\ wreq' = [req |-> aw, sent |-> 1]
             \/ w'.last /\ 0 = aw.len /\ wreq' = None
      BY <2>2, <2>4, <3>1, NextWBeat
    <3>3. WriteInStep'
      BY <2>4, <3>2 DEF WriteInStep, Sending
    <3> QED BY <1>0, <2>1, <3>3 DEF BurstInv
  <2> QED BY <2>3, <2>4 DEF BurstInv, WriteInStep
<1> QED BY <1>1, <1>2, <1>3 DEF MasterStep

(* The clock cycles and the reset keep the invariant. *)
LEMMA CycleKeepsInv ==
  ASSUME SupportedOnly, BurstInv, Next, ~MasterStep PROVE BurstInv'
PROOF
<1>0. TypeOK'
  BY TypeStep DEF BurstInv
<1>1. TypeOK /\ ChannelInv /\ ProgressInv /\ ReadDataReady /\ WriteInStep
  BY DEF BurstInv
<1> SUFFICES ChannelInv' /\ ProgressInv' /\ ReadDataReady' /\ WriteInStep'
  BY <1>0 DEF BurstInv
<1>2. CASE StartRead
  <2> USE <1>2 DEF StartRead, AcceptRead
  <2>1. ar \in Requests /\ ar \in AxReq /\ Supported(ar)
    BY <1>1 DEF ChannelInv, SupportedOnly
  <2>2. BM!BeatAddr(ar, 0) = ar.addr
    BY <2>1, FirstAddrCorrect
  <2>3. ChannelInv'
    BY <1>1, <2>1 DEF ChannelInv
  <2>4. ProgressInv'
    BY <2>1, <2>2 DEF ProgressInv, AxReq
  <2>5. ReadDataReady'
    BY <2>2 DEF ReadDataReady, RamRead, Index
  <2>6. WriteInStep'
    BY <1>1 DEF WriteInStep, Sending
  <2> QED BY <2>3, <2>4, <2>5, <2>6
<1>3. CASE StartWrite
  <2> USE <1>3 DEF StartWrite, AcceptWrite
  <2>1. aw \in Requests /\ aw \in AxReq /\ aw.len \in Nat
    BY <1>1 DEF ChannelInv, AxReq
  <2>2. Sending(aw, 0)
    BY <1>1 DEF WriteInStep
  <2>3. ChannelInv' /\ ReadDataReady'
    BY <1>1, <2>1 DEF ChannelInv, ReadDataReady
  <2>4. ProgressInv'
    BY <2>1, <2>2 DEF ProgressInv, Sending
  <2>5. WriteInStep'
    BY <2>1, <2>2 DEF WriteInStep, Sending
  <2> QED BY <2>3, <2>4, <2>5
<1>4. CASE WaitWrite
  <2> USE <1>4 DEF WaitWrite, AcceptWriteAlone
  <2>1. ChannelInv' /\ ProgressInv' /\ ReadDataReady'
    BY <1>1 DEF ChannelInv, ProgressInv, ReadDataReady
  <2>2. WriteInStep'
    BY <1>1 DEF WriteInStep, Sending
  <2> QED BY <2>1, <2>2
<1>5. CASE StoreFirst
  <2> USE <1>5 DEF StoreFirst, FirstBeat
  <2>1. ax \in AxReq /\ ax.len \in Nat
    BY <1>1 DEF TypeOK, AxReq
  <2>2. ChannelInv' /\ ReadDataReady'
    BY <1>1 DEF ChannelInv, ReadDataReady
  <2>3. ProgressInv'
    BY <1>1, <2>1 DEF ProgressInv, WriteInStep, Sending
  <2>4. aw # None => aw.len \in Nat
    BY <1>1 DEF TypeOK, AxReq
  <2>5. WriteInStep'
    BY <1>1, <2>1, <2>4 DEF WriteInStep, Sending
  <2> QED BY <2>2, <2>3, <2>5
<1>6. CASE HoldBeat
  <2> USE <1>6 DEF HoldBeat, ReadStall, chans, regs
  <2>1. ChannelInv' /\ ProgressInv' /\ WriteInStep'
    BY <1>1 DEF ChannelInv, ProgressInv, WriteInStep, Sending
  <2>2. ReadDataReady'
    BY <1>1 DEF ProgressInv, ReadDataReady, RamRead
  <2> QED BY <2>1, <2>2
<1>7. CASE MoreBeats
  <2> USE <1>7 DEF MoreBeats, ReadBeat
  <2>1. ax \in Requests /\ ax \in AxReq /\ Supported(ax) /\ ax.len \in Nat
    BY <1>1 DEF ChannelInv, SupportedOnly, AxReq
  <2>2. cnt \in 1..ax.len /\ ax.len + 1 < CntMod
    BY <1>1, <2>1 DEF ProgressInv, r_last, Supported
  <2>3. next_addr = BM!BeatAddr(ax, cnt)
    BY <2>1, <2>2, NextAddrCorrect
  <2>4. cnt' = cnt + 1
    BY <2>1, <2>2, CountsOn
  <2>5. ChannelInv' /\ WriteInStep'
    BY <1>1 DEF ChannelInv, WriteInStep, Sending
  <2>6. ProgressInv'
    BY <2>1, <2>2, <2>3, <2>4 DEF ProgressInv
  <2>7. ReadDataReady'
    <3>1. cnt' - 1 = cnt
      BY <2>2, <2>4
    <3> QED BY <2>3, <3>1 DEF ReadDataReady, RamRead
  <2> QED BY <2>5, <2>6, <2>7
<1>8. CASE LastBeat
  BY <1>1, <1>8 DEF LastBeat, ReadBeat, ChannelInv, ProgressInv, ReadDataReady,
     WriteInStep, Sending
<1>9. CASE StoreNext
  <2> USE <1>9 DEF StoreNext, WriteBeat
  <2>1. ax \in AxReq /\ Supported(ax) /\ ax.len \in Nat
    BY <1>1 DEF ChannelInv, SupportedOnly, AxReq
  <2>2. cnt \in 1..ax.len /\ ax.len + 1 < CntMod
    BY <1>1, <2>1 DEF ProgressInv, Supported
  <2>3. cnt' = cnt + 1
    BY <2>1, <2>2, CountsOn
  <2>4. ChannelInv' /\ ReadDataReady'
    BY <1>1 DEF ChannelInv, ReadDataReady
  <2>5. ProgressInv'
    BY <1>1, <2>1, <2>2, <2>3 DEF ProgressInv, WriteInStep, Sending
  <2>6. aw # None => aw.len \in Nat
    BY <1>1 DEF TypeOK, AxReq
  <2>7. WriteInStep'
    BY <1>1, <2>1, <2>2, <2>3, <2>6 DEF WriteInStep, Sending
  <2> QED BY <2>4, <2>5, <2>7
<1>10. CASE Reply
  BY <1>1, <1>10 DEF Reply, SendB, ChannelInv, ProgressInv, ReadDataReady,
     WriteInStep, Sending
<1>11. CASE Reset
  BY <1>11 DEF Reset, ResetFsm, ChannelInv, ProgressInv, ReadDataReady, WriteInStep
<1> QED BY <1>2, <1>3, <1>4, <1>5, <1>6, <1>7, <1>8, <1>9, <1>10, <1>11 DEF Next

(* BurstInv holds in every state of a system whose masters issue supported  *)
(* requests: the beat counter, the address register, the RAM's output and   *)
(* the W channel never lose step with the burst.                            *)
THEOREM BurstInvariant == SupportedOnly => (Spec => []BurstInv)
PROOF
<1> SUFFICES ASSUME SupportedOnly PROVE Spec => []BurstInv
  OBVIOUS
<1>1. Init => BurstInv
  <2> SUFFICES ASSUME Init PROVE BurstInv
    OBVIOUS
  <2>1. TypeOK
    BY DEF Init, InitFsm, TypeOK, ResetReq, AxReq, Bursts
  <2> QED BY <2>1 DEF Init, InitFsm, BurstInv, ChannelInv, ProgressInv,
          ReadDataReady, WriteInStep
<1>2. BurstInv /\ [Next]_vars => BurstInv'
  <2> SUFFICES ASSUME BurstInv, [Next]_vars PROVE BurstInv'
    OBVIOUS
  <2>1. CASE UNCHANGED vars
    BY <2>1 DEF vars, BurstInv, TypeOK, ChannelInv, ProgressInv, ReadDataReady,
       WriteInStep, Sending
  <2> QED BY <2>1, MasterKeepsInv, CycleKeepsInv
<1> QED BY <1>1, <1>2, PTL DEF Spec

-----------------------------------------------------------------------------
(* Every step of the hardware is a step of the burst memory or a stutter. *)
LEMMA StepRefines ==
  ASSUME SupportedOnly, BurstInv, [Next]_vars
  PROVE  [BM!Next]_(BM!vars)
PROOF
<1>1. TypeOK /\ ChannelInv /\ ProgressInv /\ ReadDataReady /\ WriteInStep
  BY DEF BurstInv
<1>2. CASE MasterStep
  <2>1. ASSUME NEW q \in Requests, RaiseAR(q), RamIdle PROVE BM!RaiseAR(q)
    BY <2>1 DEF RaiseAR, RamIdle, regs, BM!RaiseAR, txn
  <2>2. ASSUME NEW q \in Requests, RaiseAW(q), RamIdle PROVE BM!RaiseAW(q)
    BY <2>2 DEF RaiseAW, RamIdle, regs, BM!RaiseAW, txn
  <2>3. ASSUME NEW d \in Word, NEW s \in SUBSET Lane, RaiseW(d, s), RamIdle
        PROVE  BM!RaiseW(d, s)
    BY <2>3 DEF RaiseW, RamIdle, regs, BM!RaiseW, txn
  <2>4. Word = BM!Word
    BY DEF Word, BM!Word
  <2> QED BY <1>2, <2>1, <2>2, <2>3, <2>4 DEF MasterStep, BM!Next
<1>3. CASE StartRead
  <2>1. txn = BM!NoTxn /\ txn' = BM!Txn("read", ar, 0)
    BY <1>3 DEF StartRead, AcceptRead, txn, BM!NoTxn, BM!Txn
  <2>2. BM!AcceptRead
    BY <1>3, <2>1 DEF StartRead, AcceptRead, RamRead, BM!AcceptRead
  <2> QED BY <2>2 DEF BM!Next
<1>4. CASE StartWrite
  <2> USE <1>4 DEF StartWrite, AcceptWrite
  <2>1. aw \in AxReq /\ Supported(aw) /\ w \in WBeat
    BY <1>1 DEF ChannelInv, SupportedOnly, TypeOK
  <2>2. BM!BeatAddr(aw, 0) = aw.addr
    BY <2>1, FirstAddrCorrect
  <2>3. w.last <=> 0 = aw.len
    BY <1>1, <2>1 DEF WriteInStep, Sending, AxReq
  <2>4. txn = BM!NoTxn
    BY DEF txn, BM!NoTxn
  <2>5. txn' = BM!Txn(IF 0 = aw.len THEN "reply" ELSE "write", aw, 0 + 1)
    BY <2>3 DEF txn, BM!Txn
  <2>6. mem' = [mem EXCEPT ![BM!Index(BM!BeatAddr(aw, 0))] = BM!Merge(@, w.data, w.strb)]
    BY <1>1, <2>1, <2>2, IndexInRange
       DEF RamWrite, Index, Merge, BM!Index, BM!Merge, TypeOK, AxReq
  <2>7. BM!AcceptWrite
    BY <2>4, <2>5, <2>6 DEF BM!AcceptWrite, BM!Store
  <2> QED BY <2>7 DEF BM!Next
<1>5. CASE WaitWrite
  <2>1. txn = BM!NoTxn /\ txn' = BM!Txn("write", aw, 0)
    BY <1>5 DEF WaitWrite, AcceptWriteAlone, txn, BM!NoTxn, BM!Txn
  <2>2. BM!AcceptWrite
    BY <1>5, <2>1 DEF WaitWrite, AcceptWriteAlone, RamIdle, BM!AcceptWrite
  <2> QED BY <2>2 DEF BM!Next
<1>6. CASE StoreFirst
  <2> USE <1>6 DEF StoreFirst, FirstBeat
  <2>1. ax \in AxReq /\ Supported(ax) /\ w \in WBeat
    BY <1>1 DEF ChannelInv, SupportedOnly, TypeOK
  <2>2. BM!BeatAddr(ax, 0) = ax.addr
    BY <2>1, FirstAddrCorrect
  <2>3. w.last <=> 0 = ax.len
    BY <1>1, <2>1 DEF WriteInStep, Sending, AxReq
  <2>4. txn = BM!Txn("write", ax, 0)
    BY DEF txn, BM!Txn
  <2>5. txn' = BM!Txn(IF 0 = ax.len THEN "reply" ELSE "write", ax, 0 + 1)
    BY <2>3 DEF txn, BM!Txn
  <2>6. mem' = [mem EXCEPT ![BM!Index(BM!BeatAddr(ax, 0))] = BM!Merge(@, w.data, w.strb)]
    BY <1>1, <2>1, <2>2, IndexInRange
       DEF RamWrite, Index, Merge, BM!Index, BM!Merge, TypeOK, AxReq
  <2>7. txn.kind = "write" /\ txn.req = ax /\ txn.beat = 0
    BY <2>4 DEF BM!Txn
  <2>8. BM!WriteBeat
    BY <2>5, <2>6, <2>7 DEF BM!WriteBeat, BM!Store
  <2> QED BY <2>8 DEF BM!Next
<1>7. CASE HoldBeat
  BY <1>7 DEF HoldBeat, ReadStall, chans, regs, RamRead, BM!vars, txn
<1>8. CASE MoreBeats \/ LastBeat
  <2>1. ReadBeat(dout) /\ mem' = mem
    BY <1>8 DEF MoreBeats, LastBeat, RamRead, RamIdle
  <2>2. ax \in AxReq /\ Supported(ax) /\ ax.len \in Nat /\ cnt \in 1..ax.len + 1
    BY <1>1, <2>1 DEF ReadBeat, ChannelInv, SupportedOnly, ProgressInv, AxReq
  <2>3. txn = BM!Txn("read", ax, cnt - 1)
    BY <2>1 DEF ReadBeat, txn, BM!Txn
  <2>4. r_last <=> cnt - 1 = ax.len
    BY <2>2 DEF r_last
  <2>5. txn' = IF cnt - 1 = ax.len THEN BM!NoTxn ELSE BM!Txn("read", ax, (cnt - 1) + 1)
    <3>1. CASE r_last
      BY <2>1, <2>4, <3>1 DEF ReadBeat, txn, BM!NoTxn
    <3>2. CASE ~r_last
      <4>1. cnt' = cnt + 1
        BY <2>1, <2>2, <2>4, <3>2, CountsOn DEF ReadBeat, Supported
      <4>2. cnt' - 1 = (cnt - 1) + 1
        BY <2>2, <4>1
      <4> QED BY <2>1, <2>4, <3>2, <4>2 DEF ReadBeat, txn, BM!Txn
    <3> QED BY <3>1, <3>2
  <2>6. txn.kind = "read" /\ txn.req = ax /\ txn.beat = cnt - 1
    BY <2>3 DEF BM!Txn
  <2>7. dout = mem[BM!Index(BM!BeatAddr(ax, cnt - 1))]
    BY <1>1, <2>1 DEF ReadBeat, ReadDataReady, Index, BM!Index
  <2>8. r' = [id |-> ax.id, data |-> dout, last |-> cnt - 1 = ax.len]
    BY <2>1, <2>4 DEF ReadBeat
  <2>9. BM!ReadBeat
    BY <2>1, <2>5, <2>6, <2>7, <2>8 DEF ReadBeat, BM!ReadBeat
  <2> QED BY <2>9 DEF BM!Next
<1>9. CASE StoreNext
  <2> USE <1>9 DEF StoreNext, WriteBeat
  <2>1. ax \in AxReq /\ Supported(ax) /\ w \in WBeat /\ ax.len \in Nat
    BY <1>1 DEF ChannelInv, SupportedOnly, TypeOK, AxReq
  <2>2. cnt \in 1..ax.len
    BY <1>1 DEF ProgressInv
  <2>3. next_addr = BM!BeatAddr(ax, cnt)
    BY <2>1, <2>2, NextAddrCorrect
  <2>4. w.last <=> cnt = ax.len
    BY <1>1, <2>1, <2>2 DEF WriteInStep, Sending
  <2>5. cnt' = cnt + 1
    BY <2>1, <2>2, CountsOn DEF Supported
  <2>6. txn.kind = "write" /\ txn.req = ax /\ txn.beat = cnt
    BY DEF txn
  <2>7. txn' = BM!Txn(IF cnt = ax.len THEN "reply" ELSE "write", ax, cnt + 1)
    BY <2>4, <2>5 DEF txn, BM!Txn
  <2>8. next_addr \in Nat
    BY <1>1, NextAddrNat DEF TypeOK
  <2>9. mem' = [mem EXCEPT ![BM!Index(BM!BeatAddr(ax, cnt))] = BM!Merge(@, w.data, w.strb)]
    BY <1>1, <2>3, <2>8, IndexInRange
       DEF RamWrite, Index, Merge, BM!Index, BM!Merge, TypeOK
  <2>10. BM!WriteBeat
    BY <2>6, <2>7, <2>9 DEF BM!WriteBeat, BM!Store
  <2> QED BY <2>10 DEF BM!Next
<1>10. CASE Reply
  <2>1. txn.kind = "reply" /\ txn.req = ax /\ txn' = BM!NoTxn
    BY <1>10 DEF Reply, SendB, txn, BM!NoTxn
  <2>2. BM!Reply
    BY <1>10, <2>1 DEF Reply, SendB, RamIdle, BM!Reply
  <2> QED BY <2>2 DEF BM!Next
<1>11. CASE Reset
  <2>1. BM!Reset
    BY <1>11 DEF Reset, ResetFsm, RamIdle, BM!Reset, txn, BM!NoTxn
  <2> QED BY <2>1 DEF BM!Next
<1>12. CASE UNCHANGED vars
  BY <1>12 DEF vars, BM!vars, txn
<1> QED BY <1>2, <1>3, <1>4, <1>5, <1>6, <1>7, <1>8, <1>9, <1>10, <1>11, <1>12
        DEF Next

(* axi2mem with its RAM implements the burst memory, for every memory size, *)
(* every counter width and every set of supported requests.                 *)
THEOREM Refinement == SupportedOnly => (Spec => ImplementsBurstMemory)
PROOF
<1> SUFFICES ASSUME SupportedOnly PROVE Spec => ImplementsBurstMemory
  OBVIOUS
<1>1. Init => BM!Init
  BY DEF Init, InitFsm, BM!Init, txn, BM!NoTxn, Word, BM!Word
<1>2. BurstInv /\ [Next]_vars => [BM!Next]_(BM!vars)
  BY StepRefines
<1> QED BY <1>1, <1>2, BurstInvariant, PTL DEF Spec, BM!Spec, ImplementsBurstMemory

(* While a read is served, the RAM's output is the word of the beat that    *)
(* axi2mem offers, whatever stalls and writes came before.                  *)
THEOREM ReadsReady == SupportedOnly => (Spec => []ReadDataReady)
BY BurstInvariant, PTL DEF BurstInv

(* The W channel and the state machine never disagree on the beat of a      *)
(* write, so w_last closes the burst it belongs to.                         *)
THEOREM WritesInStep == SupportedOnly => (Spec => []WriteInStep)
BY BurstInvariant, PTL DEF BurstInv
=============================================================================
