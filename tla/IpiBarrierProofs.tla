-------------------------- MODULE IpiBarrierProofs --------------------------
(* For every number of harts, any width of the CLINT's index field and any *)
(* MAX_HARTS: the interrupt barrier of the FPGA boot ROM, run with hart 0  *)
(* as the worker, keeps BarrierInv and implements the rendezvous.          *)
EXTENDS IpiBarrier, TLAPS

(* Hart 0 is a hart, and its register is decoded to its own bit, as is     *)
(* every other existing hart's.                                            *)
LEMMA OwnRegister ==
  /\ 0 \in Hart
  /\ \A h \in Hart : Decoded(h) /\ Sel(h) = h
BY NrCoresAssumption, SelSpanAssumption DEF Hart, Decoded, Sel

(* A store by a hart to its own register, and one by hart 0 to any         *)
(* register: the selected bit is that hart's, or hart 0's when the register *)
(* is the one past the last hart.                                          *)
LEMMA StoreEffect ==
  ASSUME TypeOK, NEW i \in Nat, NEW v \in {0, 1}
  PROVE  /\ msip_write(i, v) \in [Hart -> {0, 1}]
         /\ i \in Hart => msip_write(i, v) = [msip EXCEPT ![i] = v]
         /\ i \notin Hart => \/ msip_write(i, v) = msip
                            \/ msip_write(i, v) = [msip EXCEPT ![0] = v]
<1>1. i \in Hart => msip_write(i, v) = [msip EXCEPT ![i] = v]
      BY OwnRegister DEF msip_write
<1>2. ASSUME i \notin Hart, Decoded(i), Sel(i) \in Hart PROVE Sel(i) = 0
      BY <1>2, NrCoresAssumption, SelSpanAssumption DEF Decoded, Sel, Hart
<1>3. i \notin Hart => \/ msip_write(i, v) = msip
                      \/ msip_write(i, v) = [msip EXCEPT ![0] = v]
      BY <1>2 DEF msip_write
<1>4. msip_write(i, v) \in [Hart -> {0, 1}]
      BY <1>1, <1>3, OwnRegister DEF TypeOK
<1> QED BY <1>1, <1>3, <1>4

(* The barrier starts with every hart but hart 0 asleep and no bit set. *)
LEMMA InitInv == NonSmpHart = 0 /\ Init => BarrierInv
<1> SUFFICES ASSUME NonSmpHart = 0, Init PROVE BarrierInv
    OBVIOUS
<1> USE OwnRegister, MaxHartsAssumption, NrCoresAssumption DEF Init, smp_pause
<1>1. TypeOK
      BY DEF TypeOK
<1>2. SleepersCalled
      BY DEF SleepersCalled, Called
<1>3. WokenByWorker /\ WorkerHoldsGate /\ ScannedHaveArrived
      BY DEF WokenByWorker, WorkerHoldsGate, ScannedHaveArrived
<1> QED BY <1>1, <1>2, <1>3 DEF BarrierInv

(* Raising an interrupt keeps the invariant: the stores walk through the   *)
(* registers in order, hart 0's own first, and the register past the last  *)
(* hart can only set hart 0's bit, which is set already.                   *)
LEMMA PostInv ==
  ASSUME BarrierInv, NEW h \in Hart, Post(h)
  PROVE  BarrierInv'
<1> USE OwnRegister, MaxHartsAssumption, NrCoresAssumption
<1>1. h = 0 /\ TypeOK /\ reg1[0] \in 0 .. MaxHarts - 1 /\ pc[0] = "post"
      BY DEF BarrierInv, WokenByWorker, TypeOK, Post
<1>2. /\ msip' \in [Hart -> {0, 1}]
      /\ reg1[0] \in Hart => msip' = [msip EXCEPT ![reg1[0]] = 1]
      /\ reg1[0] \notin Hart => msip' = msip \/ msip' = [msip EXCEPT ![0] = 1]
  <2>1. msip' = msip_write(reg1[0], 1) /\ reg1[0] \in Nat
        BY <1>1 DEF Post
  <2> HIDE DEF TypeOK
  <2> QED BY <1>1, <2>1, StoreEffect
<1>2a. msip'[0] = 1
  <2>1. reg1[0] # 0 => msip[0] = 1
        BY <1>1 DEF BarrierInv, WorkerHoldsGate
  <2>2. CASE reg1[0] \in Hart
        BY <1>1, <1>2, <2>1, <2>2 DEF TypeOK
  <2>3. CASE reg1[0] \notin Hart
        BY <1>1, <1>2, <2>1, <2>3 DEF TypeOK
  <2> QED BY <2>2, <2>3
<1>3. \A g \in Hart : g # 0 => msip'[g] = IF g = reg1[0] THEN 1 ELSE msip[g]
      BY <1>1, <1>2 DEF TypeOK
<1>4. TypeOK'
      BY <1>1, <1>2 DEF Post, Goto, TypeOK
<1>5. \A g \in Hart : g # 0 => pc'[g] = pc[g] /\ reg1'[g] = reg1[g]
      BY <1>1 DEF Post, Goto, TypeOK
<1>6. \/ pc'[0] = "post" /\ reg1'[0] = reg1[0] + 1
      \/ pc'[0] = "sleep" /\ reg1[0] + 1 >= MaxHarts
      BY <1>1 DEF Post, Goto, TypeOK
<1>7. \A g \in Hart : g # 0 => (Called(g)' <=> Called(g) \/ g = reg1[0])
      BY <1>1, <1>6 DEF Called, Hart
<1>8. SleepersCalled'
  <2> SUFFICES ASSUME NEW g \in Hart
               PROVE  /\ pc'[g] = "sleep" /\ Called(g)' => msip'[g] = 1
                      /\ ~Called(g)' /\ g # 0 => pc'[g] = "sleep" /\ msip'[g] = 0
                      /\ pc'[g] \in {"scan", "multi"} => msip'[g] = 0
      BY DEF SleepersCalled
  <2>1. CASE g = 0
        BY <2>1, <1>2a, <1>6
  <2>2. CASE g # 0
        BY <2>2, <1>1, <1>3, <1>5, <1>7 DEF BarrierInv, SleepersCalled, Called, Hart
  <2> QED BY <2>1, <2>2
<1>9. WokenByWorker'
      BY <1>1, <1>2a, <1>3, <1>5, <1>6 DEF BarrierInv, WokenByWorker
<1>10. WorkerHoldsGate' /\ ScannedHaveArrived'
  <2>1. \A g \in Hart : pc[g] # "multi" /\ (pc[g] = "scan" => reg1[g] = 0)
        BY <1>1 DEF BarrierInv, WorkerHoldsGate, TypeOK
  <2>2. \A g \in Hart : pc'[g] # "multi" /\ (pc'[g] = "scan" => reg1'[g] = 0)
        BY <2>1, <1>5, <1>6
  <2> QED BY <2>2, <1>2a DEF WorkerHoldsGate, ScannedHaveArrived, Hart
<1> QED BY <1>4, <1>8, <1>9, <1>10 DEF BarrierInv
(* Withdrawing an interrupt keeps the invariant: the bit is the hart's own. *)
LEMMA ClearInv ==
  ASSUME BarrierInv, NEW h \in Hart, Clear(h)
  PROVE  BarrierInv'
<1> USE OwnRegister, MaxHartsAssumption, NrCoresAssumption
<1>1. /\ TypeOK /\ pc[h] = "woken"
      /\ msip' = [msip EXCEPT ![h] = 0]
      /\ pc' = [pc EXCEPT ![h] = "scan"]
      /\ reg1' = [reg1 EXCEPT ![h] = 0]
  <2>1. TypeOK /\ h \in Nat /\ pc[h] = "woken" /\ msip' = msip_write(h, 0)
        BY DEF BarrierInv, Clear, Hart
  <2> QED BY <2>1, StoreEffect DEF Clear, Goto
<1>2. TypeOK'
      BY <1>1 DEF TypeOK
<1>3. Called(h)
      BY <1>1 DEF BarrierInv, SleepersCalled, Called
<1>4. \A g \in Hart : Called(g)' <=> Called(g)
      BY <1>1 DEF Called, TypeOK
<1>5. SleepersCalled'
      BY <1>1, <1>3, <1>4 DEF BarrierInv, SleepersCalled, TypeOK
<1>6. WokenByWorker'
      BY <1>1 DEF BarrierInv, WokenByWorker, TypeOK
<1>7. WorkerHoldsGate'
      BY <1>1 DEF BarrierInv, WorkerHoldsGate, TypeOK
<1>8. ScannedHaveArrived'
  <2> SUFFICES ASSUME NEW f \in Hart, NEW g \in Hart, g % 2 = 0,
                      pc'[f] = "multi" \/ (pc'[f] = "scan" /\ g < reg1'[f])
               PROVE  pc'[g] \in {"scan", "multi"}
      BY DEF ScannedHaveArrived
  <2>1. f # h
        BY <1>1 DEF TypeOK, Hart
  <2>2. pc'[f] = pc[f] /\ reg1'[f] = reg1[f]
        BY <2>1, <1>1 DEF TypeOK
  <2>3. pc[g] \in {"scan", "multi"}
        BY <2>2 DEF BarrierInv, ScannedHaveArrived
  <2> QED BY <2>3, <1>1 DEF TypeOK
<1> QED BY <1>2, <1>5, <1>6, <1>7, <1>8 DEF BarrierInv

(* A load that passes a register keeps the invariant: register 0 reads     *)
(* zero only after hart 0 has withdrawn, and by then every hart that still *)
(* sleeps has its bit set, so an even register that reads zero belongs to  *)
(* a hart that has arrived.                                                *)
LEMMA ScanInv ==
  ASSUME BarrierInv, NEW h \in Hart, Scan(h)
  PROVE  BarrierInv'
<1> USE OwnRegister, MaxHartsAssumption, NrCoresAssumption
<1>1. /\ TypeOK /\ pc[h] = "scan" /\ reg1[h] \in 0 .. MaxHarts - 1
      /\ msip' = msip /\ 0 \in msip_read(reg1[h])
      BY DEF BarrierInv, Scan, TypeOK
<1>2. \/ /\ pc' = [pc EXCEPT ![h] = "scan"]
         /\ reg1' = [reg1 EXCEPT ![h] = reg1[h] + 1]
         /\ reg1[h] + 1 < MaxHarts
      \/ /\ pc' = [pc EXCEPT ![h] = "multi"]
         /\ reg1' = [reg1 EXCEPT ![h] = 0]
         /\ reg1[h] + 1 >= MaxHarts
      BY <1>1 DEF Scan, Goto
<1>3. TypeOK'
      BY <1>1, <1>2 DEF TypeOK
<1>4. reg1[h] \in Hart /\ reg1[h] % 2 = 0 => msip[reg1[h]] = 0
  <2>1. SUFFICES ASSUME reg1[h] \in Hart, reg1[h] % 2 = 0 PROVE msip[reg1[h]] = 0
        OBVIOUS
  <2>2. msip_read(reg1[h]) = {msip[reg1[h]]}
        BY <2>1 DEF msip_read
  <2> QED BY <2>2, <1>1
<1>5. pc[0] \in {"scan", "multi"}
  <2>1. CASE reg1[h] > 0
        BY <1>1, <2>1 DEF BarrierInv, WorkerHoldsGate
  <2>2. CASE reg1[h] = 0
    <3>1. msip[0] = 0
          BY <2>2, <1>4
    <3>2. pc[0] # "woken" /\ pc[0] # "sleep"
          BY <3>1 DEF BarrierInv, SleepersCalled, WokenByWorker, Called
    <3>3. h # 0 => Called(h)
          BY <1>1 DEF BarrierInv, SleepersCalled
    <3>4. pc[0] = "post" /\ h # 0 => reg1[0] > 0
          BY <3>3, <1>1 DEF Called, TypeOK, Hart
    <3>5. pc[0] # "post"
          BY <3>1, <3>4, <1>1 DEF BarrierInv, WorkerHoldsGate
    <3>6. pc[0] # "single"
          BY <3>3, <1>1 DEF Called
    <3> QED BY <3>2, <3>5, <3>6, <1>1 DEF TypeOK
  <2> QED BY <2>1, <2>2, <1>1
<1>6. \A g \in Hart : Called(g) /\ Called(g)'
      BY <1>1, <1>2, <1>5 DEF Called, TypeOK
<1>7. SleepersCalled' /\ WokenByWorker'
      BY <1>1, <1>2, <1>6 DEF BarrierInv, SleepersCalled, WokenByWorker, TypeOK
<1>8. pc'[0] \in {"scan", "multi"}
      BY <1>1, <1>2, <1>5 DEF TypeOK
<1>9. WorkerHoldsGate'
      BY <1>8 DEF WorkerHoldsGate
<1>10. reg1[h] \in Hart /\ reg1[h] % 2 = 0 => pc[reg1[h]] \in {"scan", "multi"}
  <2>1. SUFFICES ASSUME NEW g \in Hart, g = reg1[h], g % 2 = 0
                 PROVE  pc[g] \in {"scan", "multi"}
        OBVIOUS
  <2>2. msip[g] = 0
        BY <2>1, <1>4
  <2>3. pc[g] # "sleep" /\ pc[g] # "woken"
        BY <2>2, <1>6 DEF BarrierInv, SleepersCalled, WokenByWorker
  <2>4. pc[g] # "single" /\ pc[g] # "post"
        BY <1>5 DEF BarrierInv, WokenByWorker
  <2> QED BY <2>3, <2>4, <1>1 DEF TypeOK
<1>11. ScannedHaveArrived'
  <2> SUFFICES ASSUME NEW f \in Hart, NEW g \in Hart, g % 2 = 0,
                      pc'[f] = "multi" \/ (pc'[f] = "scan" /\ g < reg1'[f])
               PROVE  pc'[g] \in {"scan", "multi"}
      BY DEF ScannedHaveArrived
  <2>1. pc[g] \in {"scan", "multi"} => pc'[g] \in {"scan", "multi"}
        BY <1>1, <1>2 DEF TypeOK
  <2>2. CASE f # h
    <3>1. pc'[f] = pc[f] /\ reg1'[f] = reg1[f]
          BY <1>1, <1>2, <2>2 DEF TypeOK
    <3> QED BY <2>1, <3>1 DEF BarrierInv, ScannedHaveArrived
  <2>3. CASE f = h /\ g # reg1[h]
    <3>1. g \in Nat /\ g < MaxHarts /\ reg1[h] \in Nat
          BY <1>1 DEF Hart
    <3>2. CASE reg1'[h] = reg1[h] + 1 /\ pc'[h] = "scan"
          BY <3>1, <3>2, <2>1, <2>3, <1>1 DEF BarrierInv, ScannedHaveArrived
    <3>3. CASE reg1[h] + 1 >= MaxHarts
          BY <3>1, <3>3, <2>1, <2>3, <1>1 DEF BarrierInv, ScannedHaveArrived
    <3> QED BY <3>2, <3>3, <1>1, <1>2 DEF TypeOK
  <2>4. CASE f = h /\ g = reg1[h]
        BY <2>1, <2>4, <1>10
  <2> QED BY <2>2, <2>3, <2>4
<1> QED BY <1>3, <1>7, <1>9, <1>11 DEF BarrierInv
(* Every instruction of the macros keeps the invariant. *)
LEMMA StepInv == NonSmpHart = 0 /\ BarrierInv /\ [Next]_vars => BarrierInv'
<1> SUFFICES ASSUME NonSmpHart = 0, BarrierInv, [Next]_vars PROVE BarrierInv'
    OBVIOUS
<1> USE OwnRegister, MaxHartsAssumption, NrCoresAssumption
<1>1. CASE UNCHANGED vars
      BY <1>1 DEF vars, BarrierInv, TypeOK, SleepersCalled, Called, WokenByWorker,
                  WorkerHoldsGate, ScannedHaveArrived
<1>2. ASSUME NEW h \in Hart, Work(h) PROVE BarrierInv'
  <2>1. /\ h = 0 /\ TypeOK /\ pc[0] = "single" /\ msip' = msip
        /\ pc' = [pc EXCEPT ![0] = "post"] /\ reg1' = [reg1 EXCEPT ![0] = 0]
        BY <1>2 DEF BarrierInv, WokenByWorker, Work, Goto
  <2>2. TypeOK'
        BY <2>1 DEF TypeOK
  <2>3. \A g \in Hart : ~Called(g) /\ ~Called(g)'
        BY <2>1 DEF Called, TypeOK, Hart
  <2>4. SleepersCalled'
        BY <2>1, <2>3 DEF BarrierInv, SleepersCalled, TypeOK
  <2>5. WokenByWorker' /\ WorkerHoldsGate' /\ ScannedHaveArrived'
    <3>1. \A g \in Hart : pc'[g] \in {"post", "sleep"} /\ (pc'[g] = "post" => g = 0)
          BY <2>1, <2>3 DEF BarrierInv, SleepersCalled, TypeOK
    <3> QED BY <2>1, <3>1 DEF WokenByWorker, WorkerHoldsGate, ScannedHaveArrived, TypeOK
  <2> QED BY <2>2, <2>4, <2>5 DEF BarrierInv
<1>3. ASSUME NEW h \in Hart, Post(h) PROVE BarrierInv'
      BY <1>3, PostInv
<1>4. ASSUME NEW h \in Hart, Wake(h) PROVE BarrierInv'
  <2>1. /\ TypeOK /\ pc[h] = "sleep" /\ msip[h] = 1 /\ msip' = msip
        /\ pc' = [pc EXCEPT ![h] = "woken"] /\ reg1' = [reg1 EXCEPT ![h] = 0]
        BY <1>4 DEF BarrierInv, Wake, Goto
  <2>2. TypeOK'
        BY <2>1 DEF TypeOK
  <2>3. \A g \in Hart : Called(g)' <=> Called(g)
        BY <2>1 DEF Called, TypeOK
  <2>4. Called(h)
        BY <2>1 DEF BarrierInv, SleepersCalled, Called
  <2>5. SleepersCalled' /\ WokenByWorker'
        BY <2>1, <2>3, <2>4 DEF BarrierInv, SleepersCalled, WokenByWorker, TypeOK
  <2>6. WorkerHoldsGate' /\ ScannedHaveArrived'
        BY <2>1 DEF BarrierInv, WorkerHoldsGate, ScannedHaveArrived, TypeOK
  <2> QED BY <2>2, <2>5, <2>6 DEF BarrierInv
<1>5. ASSUME NEW h \in Hart, Clear(h) PROVE BarrierInv'
      BY <1>5, ClearInv
<1>6. ASSUME NEW h \in Hart, Scan(h) PROVE BarrierInv'
      BY <1>6, ScanInv
<1> QED BY <1>1, <1>2, <1>3, <1>4, <1>5, <1>6 DEF Next, Step

(* With hart 0 as the worker, in every behaviour: a called sleeper has its *)
(* bit set, hart 0 holds the gate, and a scan has passed only harts that   *)
(* have arrived.                                                           *)
THEOREM Barrier == NonSmpHart = 0 => (Spec => []BarrierInv)
<1> SUFFICES ASSUME NonSmpHart = 0 PROVE Spec => []BarrierInv
    OBVIOUS
<1>1. Init => BarrierInv
      BY InitInv
<1>2. BarrierInv /\ [Next]_vars => BarrierInv'
      BY StepInv
<1> QED BY <1>1, <1>2, PTL DEF Spec

(* With hart 0 as the worker, no software interrupt is left pending when   *)
(* the last hart has left, not even the one the register past the last     *)
(* hart could set.                                                         *)
THEOREM NoneLeft == NonSmpHart = 0 => (Spec => []NonePending)
<1>1. BarrierInv => NonePending
      BY DEF BarrierInv, SleepersCalled, NonePending
<1> QED BY <1>1, Barrier, PTL

(* Every instruction is a step of the rendezvous, or none. *)
LEMMA StepRendezvous ==
  NonSmpHart = 0 /\ BarrierInv /\ [Next]_vars => [R!Next]_phaseBar
<1> SUFFICES ASSUME NonSmpHart = 0, BarrierInv, [Next]_vars
             PROVE  [R!Next]_phaseBar
    OBVIOUS
<1> USE OwnRegister DEF Goto
<1>0. TypeOK
      BY DEF BarrierInv
<1>1. CASE UNCHANGED vars
      BY <1>1 DEF vars, phaseBar
<1>2. ASSUME NEW h \in Hart, Work(h) PROVE R!Finish
      BY <1>0, <1>2 DEF Work, R!Finish, BarrierInv, WokenByWorker, TypeOK, phaseBar
<1>3. ASSUME NEW h \in Hart, Post(h) PROVE UNCHANGED phaseBar
      BY <1>0, <1>3 DEF Post, TypeOK, phaseBar
<1>4. ASSUME NEW h \in Hart, Wake(h) PROVE UNCHANGED phaseBar
      BY <1>0, <1>4 DEF Wake, TypeOK, phaseBar
<1>5. ASSUME NEW h \in Hart, Clear(h) PROVE R!Arrive(h)
      BY <1>0, <1>5 DEF Clear, R!Arrive, TypeOK, phaseBar
<1>6. ASSUME NEW h \in Hart, Scan(h), pc'[h] = "multi" PROVE R!Leave(h)
  <2>1. BarrierInv'
        BY <1>6, ScanInv
  <2>2. \A g \in Awaited : g \in Hart /\ pc'[g] \in {"scan", "multi"}
        BY <2>1, <1>6 DEF BarrierInv, ScannedHaveArrived, Awaited
  <2>3. pc' = [pc EXCEPT ![h] = "multi"] /\ pc[h] = "scan"
        BY <1>0, <1>6 DEF Scan, TypeOK
  <2>4. \A g \in Awaited : pc[g] \in {"scan", "multi"}
        BY <2>2, <2>3, <1>0 DEF TypeOK
  <2>5. \A g \in Awaited : phaseBar[g] \in {"arrived", "multi"}
        BY <2>2, <2>4 DEF phaseBar
  <2>6. pc[0] # "single"
        BY <2>4 DEF Awaited
  <2>7. phaseBar[h] = "arrived" /\ phaseBar[NonSmpHart] # "single"
        BY <2>3, <2>6 DEF phaseBar
  <2>8. phaseBar' = [phaseBar EXCEPT ![h] = "multi"]
        BY <2>3, <1>0 DEF phaseBar, TypeOK
  <2> QED BY <2>5, <2>7, <2>8 DEF R!Leave
<1>7. ASSUME NEW h \in Hart, Scan(h), pc'[h] # "multi" PROVE UNCHANGED phaseBar
  <2>1. pc' = pc
        BY <1>0, <1>7 DEF Scan, TypeOK
  <2> QED BY <2>1 DEF phaseBar
<1> QED BY <1>1, <1>2, <1>3, <1>4, <1>5, <1>6, <1>7 DEF Next, Step, R!Next

(* With hart 0 as the worker the macros implement the rendezvous: nobody   *)
(* starts multi-threaded work before hart 0's single-threaded work is over *)
(* and every even hart has arrived.                                        *)
THEOREM Refinement == NonSmpHart = 0 => (Spec => ImplementsRendezvous)
<1> SUFFICES ASSUME NonSmpHart = 0 PROVE Spec => ImplementsRendezvous
    OBVIOUS
<1>1. Init => R!Init
      BY DEF Init, R!Init, phaseBar, smp_pause
<1>2. BarrierInv /\ [Next]_vars => [R!Next]_phaseBar
      BY StepRendezvous
<1>3. Spec => []BarrierInv
      BY Barrier
<1> QED BY <1>1, <1>2, <1>3, PTL DEF Spec, ImplementsRendezvous, R!Spec

(* Every instruction of the barrier keeps the state in its type. *)
THEOREM TypeCorrect == NonSmpHart = 0 => (Spec => []TypeOK)
BY Barrier, PTL DEF BarrierInv
=============================================================================
