---------------------------- MODULE CountBarrier ----------------------------
(***************************************************************************)
(* The start-up barrier of the OpenPiton boot ROM (linux/src/smp.h): one   *)
(* counter in memory.  The harts pass it in the order of their numbers,    *)
(* each when the counter equals its number, and each waits until it equals *)
(* MAX_HARTS.  The update is a plain load and an amoswap of the loaded     *)
(* value plus one.  The counter's cache line is never stored to before the *)
(* barrier; it is taken to be zero at reset.                               *)
(***************************************************************************)
EXTENDS Naturals

CONSTANTS MaxHarts,     \* harts of the system, MAX_HARTS of the macro
          NonSmpHart    \* the hart that runs the single-threaded work

ASSUME MaxHartsAssumption == MaxHarts \in Nat \ {0}
ASSUME NonSmpHartAssumption == NonSmpHart \in 0 .. MaxHarts - 1

Hart == 0 .. MaxHarts - 1

VARIABLES pc,       \* pc[h]: where hart h is in the two macros
          reg2,     \* reg2[h]: the counter value hart h has loaded
          barrier   \* the word at SMP_BARRIER_ADDR

vars == <<pc, reg2, barrier>>

(* smp_pause: the other harts branch to the counter loop at label 42. *)
smp_pause(h) == IF h = NonSmpHart THEN "single" ELSE "turn"

Init == /\ pc = [h \in Hart |-> smp_pause(h)]
        /\ reg2 = [h \in Hart |-> 0]
        /\ barrier = 0

Goto(h, label) == pc' = [pc EXCEPT ![h] = label]

(* main returns, and smp_resume begins. *)
Work(h) == /\ pc[h] = "single"
           /\ Goto(h, "turn")
           /\ UNCHANGED <<reg2, barrier>>

(* 42: lw reg2; bne mhartid, reg2, 42b. *)
Turn(h) == /\ pc[h] = "turn"
           /\ barrier = h
           /\ reg2' = [reg2 EXCEPT ![h] = barrier]
           /\ Goto(h, "swap")
           /\ UNCHANGED barrier

(* A fault: the increment is left out. *)
Swap_same(h) == /\ pc[h] = "swap"
                /\ barrier' = reg2[h]
                /\ Goto(h, "all")
                /\ UNCHANGED reg2

(* addi reg2, reg2, 1; amoswap.w reg1, reg2, (reg1). *)
Swap(h) == /\ pc[h] = "swap"
           /\ barrier' = reg2[h] + 1
           /\ Goto(h, "all")
           /\ UNCHANGED reg2

(* A fault: the wait ends as soon as the hart's own turn is over. *)
All_own(h) == /\ pc[h] = "all"
              /\ barrier > h
              /\ reg2' = [reg2 EXCEPT ![h] = barrier]
              /\ Goto(h, "multi")
              /\ UNCHANGED barrier

(* 43: lw reg2; bne MAX_HARTS, reg2, 43b. *)
All(h) == /\ pc[h] = "all"
          /\ barrier = MaxHarts
          /\ reg2' = [reg2 EXCEPT ![h] = barrier]
          /\ Goto(h, "multi")
          /\ UNCHANGED barrier

Step(h) == Work(h) \/ Turn(h) \/ Swap(h) \/ All(h)

Next == \E h \in Hart : Step(h)

Spec == Init /\ [][Next]_vars

-----------------------------------------------------------------------------
(* The barrier's state is in its type; the counter never exceeds the       *)
(* number of harts.                                                        *)
TypeOK == /\ pc \in [Hart -> {"single", "turn", "swap", "all", "multi"}]
          /\ reg2 \in [Hart -> 0 .. MaxHarts]
          /\ barrier \in 0 .. MaxHarts

(* The counter is the number of harts that have passed their turn: these   *)
(* are the harts 0 .. barrier-1, and only the next one may be about to     *)
(* swap, with a value that is not stale.                                   *)
CounterInv == /\ TypeOK
              /\ \A h \in Hart : pc[h] \in {"all", "multi"} <=> h < barrier
              /\ \A h \in Hart : pc[h] = "swap" => h = barrier /\ reg2[h] = h
              /\ \A h \in Hart : pc[h] = "multi" => barrier = MaxHarts
              /\ \A h \in Hart : pc[h] = "single" => h = NonSmpHart

(* The macros implement the rendezvous with every hart awaited, whichever  *)
(* hart does the single-threaded work.                                     *)
phaseBar == [h \in Hart |-> IF pc[h] \in {"turn", "swap"} THEN "held"
                            ELSE IF pc[h] = "all" THEN "arrived" ELSE pc[h]]

R == INSTANCE Rendezvous WITH Worker <- NonSmpHart, Awaited <- Hart,
                              phase <- phaseBar

ImplementsRendezvous == R!Spec
=============================================================================
