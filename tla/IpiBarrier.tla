----------------------------- MODULE IpiBarrier -----------------------------
(***************************************************************************)
(* The barrier macros of the FPGA boot ROM (bootrom/src/smp.h) around a    *)
(* piece of single-threaded work: every hart but NonSmpHart sleeps until   *)
(* the CLINT raises its software interrupt; NonSmpHart ends its work,      *)
(* raises the interrupt of MaxHarts harts one by one, and then every hart  *)
(* clears its own and scans all of them until each reads zero.             *)
(*                                                                         *)
(* The msip registers are those of clint.sv, with its address decode: the  *)
(* range check includes one register too many, the index is a bit field of *)
(* the address, and a read returns the bit in the low half of the 64-bit   *)
(* word, so the register of an odd hart is read as zero.                   *)
(***************************************************************************)
EXTENDS Naturals

CONSTANTS NrCores,      \* harts of the system, NR_CORES of the CLINT
          SelSpan,      \* 2^AddrSelWidth: the range of the index bit field
          MaxHarts,     \* registers the macro writes and scans
          NonSmpHart    \* the hart that runs the single-threaded work

ASSUME NrCoresAssumption == NrCores \in Nat \ {0}
ASSUME SelSpanAssumption == /\ SelSpan \in Nat \ {0, 1}
                            /\ NrCores <= SelSpan
ASSUME MaxHartsAssumption == MaxHarts \in Nat /\ NrCores <= MaxHarts
ASSUME NonSmpHartAssumption == NonSmpHart \in 0 .. NrCores - 1

Hart == 0 .. NrCores - 1

VARIABLES pc,      \* pc[h]: where hart h is in the two macros
          reg1,    \* reg1[h]: the register index hart h has reached
          msip     \* msip_q of the CLINT, one bit per hart

vars == <<pc, reg1, msip>>

(* smp_pause: NonSmpHart falls through to its work, the others branch to   *)
(* the sleeping loop at label 42.                                          *)
smp_pause(h) == IF h = NonSmpHart THEN "single" ELSE "sleep"

Init == /\ pc = [h \in Hart |-> smp_pause(h)]
        /\ reg1 = [h \in Hart |-> 0]
        /\ msip = [h \in Hart |-> 0]

-----------------------------------------------------------------------------
(* The CLINT's registers. *)

(* Does register i pass the range check?  Its upper end is included. *)
Decoded(i) == i <= NrCores

Sel(i) == i % SelSpan

(* A store of v to register i; an index past the vector changes nothing. *)
msip_write(i, v) == IF Decoded(i) /\ Sel(i) \in Hart
                    THEN [msip EXCEPT ![Sel(i)] = v]
                    ELSE msip

(* What a load from register i may return.  Only the low half of the word  *)
(* carries the bit; an index past the vector reads an undefined bit.       *)
msip_read(i) == IF i % 2 = 1 \/ ~Decoded(i) THEN {0}
                ELSE IF Sel(i) \in Hart THEN {msip[Sel(i)]} ELSE {0, 1}

-----------------------------------------------------------------------------
Goto(h, label, i) == /\ pc' = [pc EXCEPT ![h] = label]
                     /\ reg1' = [reg1 EXCEPT ![h] = i]

(* The single-threaded work is done, and smp_resume begins. *)
Work(h) == /\ pc[h] = "single"
           /\ Goto(h, "post", 0)
           /\ UNCHANGED msip

(* sw reg2, 0(reg1): raise the interrupt of the next register. *)
Post(h) == /\ pc[h] = "post"
           /\ msip' = msip_write(reg1[h], 1)
           /\ IF reg1[h] + 1 < MaxHarts
              THEN Goto(h, "post", reg1[h] + 1)
              ELSE Goto(h, "sleep", 0)

(* A fault: wfi returns at will and mip is not looked at. *)
Wake_no_check(h) == /\ pc[h] = "sleep"
                    /\ Goto(h, "woken", 0)
                    /\ UNCHANGED msip

(* wfi; csrr reg2, mip: the loop ends once the hart's own bit is set. *)
Wake(h) == /\ pc[h] = "sleep"
           /\ msip[h] = 1
           /\ Goto(h, "woken", 0)
           /\ UNCHANGED msip

(* A fault: the hart scans without withdrawing its interrupt. *)
Clear_none(h) == /\ pc[h] = "woken"
                 /\ Goto(h, "scan", 0)
                 /\ UNCHANGED msip

(* sw zero, 0(reg2): the hart withdraws its own interrupt. *)
Clear(h) == /\ pc[h] = "woken"
            /\ msip' = msip_write(h, 0)
            /\ Goto(h, "scan", 0)

(* lw reg2, 0(reg1); bnez: go on to the next register when this one reads  *)
(* zero, and to the multi-threaded work after the last.                    *)
Scan(h) == /\ pc[h] = "scan"
           /\ 0 \in msip_read(reg1[h])
           /\ IF reg1[h] + 1 < MaxHarts
              THEN Goto(h, "scan", reg1[h] + 1)
              ELSE Goto(h, "multi", 0)
           /\ UNCHANGED msip

Step(h) == Work(h) \/ Post(h) \/ Wake(h) \/ Clear(h) \/ Scan(h)

Next == \E h \in Hart : Step(h)

Spec == Init /\ [][Next]_vars

(* Every hart keeps executing. *)
FairSpec == Spec /\ \A h \in Hart : WF_vars(Step(h))

-----------------------------------------------------------------------------
(* The barrier's state is in its type: labels, register indices, bits.     *)
TypeOK == /\ pc \in [Hart -> {"single", "post", "sleep", "woken", "scan",
                              "multi"}]
          /\ reg1 \in [Hart -> 0 .. MaxHarts - 1]
          /\ msip \in [Hart -> {0, 1}]

(* The macros implement the rendezvous: a hart has arrived when it has     *)
(* withdrawn its interrupt.  When hart 0 is the worker, whoever leaves has *)
(* seen every even hart arrive, because hart 0 raises its own interrupt    *)
(* first and withdraws it last; nothing is promised about odd harts, whose *)
(* registers always read zero (clint.sv), nor with any other worker.       *)
Awaited == IF NonSmpHart = 0 THEN {h \in Hart : h % 2 = 0} ELSE {}

phaseBar ==
  [h \in Hart |-> IF pc[h] \in {"post", "sleep", "woken"} THEN "held"
                 ELSE IF pc[h] = "scan" THEN "arrived" ELSE pc[h]]

R == INSTANCE Rendezvous WITH Worker <- NonSmpHart, phase <- phaseBar

ImplementsRendezvous == R!Spec

(* No hart sleeps through the barrier or is left spinning on an interrupt  *)
(* nobody will withdraw: every hart gets to its multi-threaded work.       *)
AllLeave == \A h \in Hart : <>(pc[h] = "multi")

(* Once the barrier is over no software interrupt is left pending, to be   *)
(* taken by whatever is loaded next.                                       *)
NonePending == (\A h \in Hart : pc[h] = "multi") => \A h \in Hart : msip[h] = 0

(* The invariant behind the rendezvous, for worker 0.  Called(h): hart 0   *)
(* has raised the interrupt of hart h.                                     *)
Called(h) == \/ pc[0] = "post" /\ h < reg1[0]
             \/ pc[0] \in {"sleep", "woken", "scan", "multi"}

(* A hart that has been called and still sleeps has its bit set, one that  *)
(* has not been called sleeps with its bit clear, and one that has         *)
(* withdrawn its interrupt is not called again.                            *)
SleepersCalled ==
  \A h \in Hart : /\ pc[h] = "sleep" /\ Called(h) => msip[h] = 1
                  /\ ~Called(h) /\ h # 0 => pc[h] = "sleep" /\ msip[h] = 0
                  /\ pc[h] \in {"scan", "multi"} => msip[h] = 0

(* A hart is woken only with its bit set, and only hart 0 works alone.     *)
WokenByWorker ==
  /\ \A h \in Hart : pc[h] = "woken" => msip[h] = 1
  /\ \A h \in Hart : pc[h] \in {"single", "post"} => h = 0

(* Hart 0's bit stays set from its first store until it withdraws it, so   *)
(* nobody's scan gets past register 0 before every interrupt is raised.    *)
WorkerHoldsGate ==
  /\ pc[0] = "post" /\ reg1[0] > 0 => msip[0] = 1
  /\ \A h \in Hart : (pc[h] = "scan" /\ reg1[h] > 0) \/ pc[h] = "multi"
                     => pc[0] \in {"scan", "multi"}

(* The registers a scan has passed belong to harts that have arrived.      *)
ScannedHaveArrived ==
  \A h, g \in Hart :
     g % 2 = 0 /\ (pc[h] = "multi" \/ (pc[h] = "scan" /\ g < reg1[h]))
     => pc[g] \in {"scan", "multi"}

BarrierInv == /\ TypeOK
              /\ SleepersCalled
              /\ WokenByWorker
              /\ WorkerHoldsGate
              /\ ScannedHaveArrived
=============================================================================
