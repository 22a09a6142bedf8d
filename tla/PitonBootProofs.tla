-------------------------- MODULE PitonBootProofs ---------------------------
(***************************************************************************)
(* Proofs about the OpenPiton boot ROM, for every number of harts, every   *)
(* worker and every card: its counter barrier implements the rendezvous,   *)
(* and no hart starts the loaded program before it is loaded.              *)
(***************************************************************************)
EXTENDS PitonBoot, TLAPS

-----------------------------------------------------------------------------
(* The counter barrier. *)

(* The barrier starts with no hart past its turn. *)
LEMMA InitInv == Init => CounterInv
BY MaxHartsAssumption DEF Init, CounterInv, TypeOK, Hart, smp_pause

(* Each instruction of the macros keeps the counter equal to the number of *)
(* harts past their turn: the load and the amoswap are not one atomic      *)
(* step, but only the hart whose number the counter holds is between them. *)
LEMMA StepInv == CounterInv /\ [Next]_vars => CounterInv'
<1> SUFFICES ASSUME CounterInv, [Next]_vars PROVE CounterInv'
    OBVIOUS
<1> USE MaxHartsAssumption
<1>1. CASE UNCHANGED vars
      BY <1>1 DEF vars, CounterInv, TypeOK
<1>2. ASSUME NEW h \in Hart, Work(h) PROVE CounterInv'
      BY <1>2 DEF Work, Goto, CounterInv, TypeOK, Hart
<1>3. ASSUME NEW h \in Hart, Turn(h) PROVE CounterInv'
      BY <1>3 DEF Turn, Goto, CounterInv, TypeOK, Hart
<1>4. ASSUME NEW h \in Hart, Swap(h) PROVE CounterInv'
  <2>1. h = barrier /\ barrier' = h + 1
        BY <1>4 DEF Swap, CounterInv
  <2>2. TypeOK'
        BY <1>4, <2>1 DEF Swap, Goto, CounterInv, TypeOK, Hart
  <2>3. \A g \in Hart : pc'[g] \in {"all", "multi"} <=> g < barrier'
        BY <1>4, <2>1 DEF Swap, Goto, CounterInv, TypeOK, Hart
  <2>4. \A g \in Hart : pc'[g] = "swap" => g = barrier' /\ reg2'[g] = g
        BY <1>4, <2>1 DEF Swap, Goto, CounterInv, TypeOK, Hart
  <2>5. \A g \in Hart : pc'[g] = "multi" => barrier' = MaxHarts
        BY <1>4, <2>1 DEF Swap, Goto, CounterInv, TypeOK, Hart
  <2>6. \A g \in Hart : pc'[g] = "single" => g = NonSmpHart
        BY <1>4 DEF Swap, Goto, CounterInv, TypeOK
  <2> QED BY <2>2, <2>3, <2>4, <2>5, <2>6 DEF CounterInv
<1>5. ASSUME NEW h \in Hart, All(h) PROVE CounterInv'
      BY <1>5 DEF All, Goto, CounterInv, TypeOK, Hart
<1> QED BY <1>1, <1>2, <1>3, <1>4, <1>5 DEF Next, Step

(* In every behaviour of the barrier the counter counts the harts that     *)
(* have passed, and no hart swaps in a stale value.                        *)
THEOREM Counter == Spec => []CounterInv
BY InitInv, StepInv, PTL DEF Spec

(* Every instruction is a step of the rendezvous, or none: a hart that     *)
(* leaves does so with every hart arrived and the worker's work over.      *)
LEMMA StepRendezvous ==
  CounterInv /\ [Next]_vars => [R!Next]_phaseBar
<1> SUFFICES ASSUME CounterInv, [Next]_vars PROVE [R!Next]_phaseBar
    OBVIOUS
<1> USE MaxHartsAssumption, NonSmpHartAssumption
<1>1. CASE UNCHANGED vars
      BY <1>1 DEF vars, phaseBar
<1> USE DEF Goto, phaseBar, CounterInv, TypeOK, R!Next
<1>2. ASSUME NEW h \in Hart, Work(h) PROVE R!Finish
      BY <1>2 DEF Work, R!Finish
<1>3. ASSUME NEW h \in Hart, Turn(h) PROVE UNCHANGED phaseBar
      BY <1>3 DEF Turn
<1>4. ASSUME NEW h \in Hart, Swap(h) PROVE R!Arrive(h)
      BY <1>4 DEF Swap, R!Arrive
<1>5. ASSUME NEW h \in Hart, All(h) PROVE R!Leave(h)
  <2>1. \A g \in Hart : pc[g] \in {"all", "multi"}
        BY <1>5 DEF All, Hart
  <2>2. \A g \in Hart : phaseBar[g] \in {"arrived", "multi"}
        BY <2>1
  <2>3. phaseBar[h] = "arrived" /\ phaseBar[NonSmpHart] # "single"
        BY <1>5, <2>2 DEF All, Hart
  <2>4. phaseBar' = [phaseBar EXCEPT ![h] = "multi"]
        BY <1>5 DEF All
  <2> QED BY <2>2, <2>3, <2>4 DEF R!Leave
<1> QED BY <1>1, <1>2, <1>3, <1>4, <1>5 DEF Next, Step

(* The counter barrier implements the rendezvous, with every hart awaited, *)
(* for any number of harts and whichever of them is the worker.            *)
THEOREM Refinement == Spec => ImplementsRendezvous
<1>1. Init => R!Init
      BY DEF Init, R!Init, phaseBar, smp_pause
<1> QED BY <1>1, Counter, StepRendezvous, PTL DEF Spec, ImplementsRendezvous, R!Spec

-----------------------------------------------------------------------------
(* The loader and the barrier together. *)

(* A step of the boot ROM is a step of the barrier, or leaves it alone. *)
LEMMA BarrierStep == ASSUME [BootNext]_bootVars
                     PROVE  [Next]_vars
<1>1. NonSmpHart \in Hart
  BY NonSmpHartAssumption DEF Hart
<1> QED
  BY <1>1 DEF BootNext, bootVars, vars, Load, CopyBlock, HeaderRead, EntriesRead,
              MainReturns, smp_resume, Next, Step

(* The boot ROM uses the barrier as CountBarrier specifies it. *)
LEMMA UsesBarrier == BootSpec => Spec
<1>1. BootInit => Init
  BY DEF BootInit
<1>2. [BootNext]_bootVars => [Next]_vars
  BY BarrierStep
<1> QED
  BY <1>1, <1>2, PTL DEF BootSpec, Spec

(* Numbers cut to the width of sd_copy's parameters. *)
LEMMA Cut == ASSUME NEW n \in Int
             PROVE  /\ n % LbaMod \in 0 .. LbaMod - 1
                    /\ n \in 0 .. LbaMod - 1 => n % LbaMod = n
  BY LbaModAssumption

(* The loader starts with the copy of the header. *)
LEMMA LoaderStarts == BootInit /\ CounterInv => LoaderInv
<1> SUFFICES ASSUME BootInit, CounterInv
             PROVE  LoaderInv
  OBVIOUS
<1>1. BootTypeOK
  BY LbaModAssumption DEF BootInit, BootTypeOK, CounterInv, Stages
<1>2. pc[NonSmpHart] = "single"
  BY NonSmpHartAssumption DEF BootInit, Init, smp_pause, Hart
<1> QED
  BY <1>1, <1>2 DEF BootInit, LoaderInv

(* The blocks of a well-formed card that the loader looks at. *)
LEMMA CardBlocks == ASSUME disk \in Disks, WellFormed
                    PROVE  /\ disk \in [0 .. Capacity - 1 -> Block]
                           /\ Entries \in 0 .. Capacity - 1
                           /\ First \in 0 .. Capacity - 1
                           /\ Last \in First .. Capacity - 1
<1>1. disk \in [0 .. Capacity - 1 -> Block] /\ Capacity \in Nat \ {0, 1}
  BY DisksAssumption
<1>2. disk[1] \in Block
  BY <1>1
<1>3. Entries \in Nat
  BY <1>2, BlockAssumption DEF Entries
<1>4. disk[Entries] \in Block
  BY <1>1, <1>3 DEF WellFormed
<1>5. First \in Nat /\ Last \in Nat
  BY <1>4, BlockAssumption DEF First, Last
<1> QED
  BY <1>1, <1>3, <1>5 DEF WellFormed

(* A copy of the next stage has nothing to keep yet. *)
LEMMA CopyStarts ==
  ASSUME BootTypeOK, NEW s \in Stages, NEW first \in Int, NEW n \in Int,
         sd_copy(s, first, n), UNCHANGED <<vars, disk>>, TypeOK'
  PROVE  /\ BootTypeOK'
         /\ stage' = s /\ blk' = 0
         /\ first \in 0 .. LbaMod - 1 => src_lba' = first
         /\ n \in 0 .. LbaMod - 1 => size' = n
<1>1. first % LbaMod \in 0 .. LbaMod - 1 /\ n % LbaMod \in 0 .. LbaMod - 1
  BY Cut
<1>2. BootTypeOK'
  BY <1>1, LbaModAssumption DEF BootTypeOK, sd_copy
<1> QED
  BY <1>2, Cut DEF sd_copy

(* Every step of the boot ROM keeps the loader's invariant, given that the *)
(* barrier keeps its own.                                                  *)
LEMMA LoaderStep ==
  ASSUME LoaderInv, CounterInv, CounterInv', [BootNext]_bootVars
  PROVE  LoaderInv'
<1> USE LbaModAssumption
<1>0. NonSmpHart \in Hart /\ TypeOK /\ TypeOK' /\ BootTypeOK
  BY NonSmpHartAssumption DEF Hart, CounterInv, LoaderInv
<1>1. CASE UNCHANGED bootVars
  BY <1>0, <1>1 DEF bootVars, vars, loader, LoaderInv, BootTypeOK, WellFormed, Entries,
               First, Last
<1>2. CASE CopyBlock
  <2>0. blk \in 0 .. LbaMod - 1 /\ blk < size /\ blk + 1 <= size
    BY <1>0, <1>2 DEF BootTypeOK, CopyBlock
  <2>1. CardWord(src_lba + blk) \in Block \union {NoBlock}
    BY <1>0, DisksAssumption DEF CardWord, BootTypeOK
  <2>2. BootTypeOK'
    BY <1>0, <1>2, <2>0, <2>1 DEF BootTypeOK, CopyBlock
  <2>3. ASSUME WellFormed
        PROVE  \A k \in 0 .. LbaMod - 1 :
                 k < blk' => dst'[stage][k] = disk[src_lba + k]
    <3>1. src_lba + blk \in 0 .. Capacity - 1
      BY <1>0, <2>0, <2>3, CardBlocks, DisksAssumption
      DEF LoaderInv, BootTypeOK, Stages
    <3>2. dst'[stage] = [dst[stage] EXCEPT ![blk] = disk[src_lba + blk]]
      BY <1>0, <1>2, <3>1 DEF CopyBlock, CardWord, BootTypeOK
    <3>3. dst[stage] \in [0 .. LbaMod - 1 -> Block \union {NoBlock}]
      BY <1>0 DEF BootTypeOK
    <3>4. \A k \in 0 .. LbaMod - 1 :
            k < blk => dst[stage][k] = disk[src_lba + k]
      BY <2>3 DEF LoaderInv
    <3> QED
      BY <1>2, <2>0, <3>2, <3>3, <3>4 DEF CopyBlock
  <2>4. WellFormed' = WellFormed /\ Entries' = Entries /\ First' = First /\ Last' = Last
    BY <1>2 DEF CopyBlock, WellFormed, Entries, First, Last
  <2> QED
    BY <1>2, <2>2, <2>3, <2>4 DEF LoaderInv, CopyBlock, vars
<1>3. CASE HeaderRead
  <2> DEFINE e == dst.header[0].partition_entries_lba
  <2>1. e \in Nat
    BY <1>0, BlockAssumption DEF BootTypeOK, Stages
  <2>2. sd_copy("entries", e, 1) /\ UNCHANGED <<vars, disk>>
    BY <1>3 DEF HeaderRead
  <2>3. /\ BootTypeOK' /\ stage' = "entries" /\ blk' = 0
        /\ e \in 0 .. LbaMod - 1 => src_lba' = e
        /\ size' = 1
    BY <1>0, <2>1, <2>2, CopyStarts DEF Stages
  <2>4. WellFormed => e = Entries /\ Entries \in 0 .. LbaMod - 1
    BY <1>0, <1>3, CardBlocks, DisksAssumption
    DEF LoaderInv, HeaderRead, Entries, BootTypeOK, WellFormed
  <2>5. WellFormed' = WellFormed /\ Entries' = Entries
    BY <2>2 DEF WellFormed, Entries, First, Last
  <2>6. pc' = pc /\ pc[NonSmpHart] = "single"
    BY <1>3 DEF HeaderRead, vars
  <2> QED
    BY <2>3, <2>4, <2>5, <2>6 DEF LoaderInv
<1>4. CASE EntriesRead
  <2> DEFINE f == dst.entries[0].first_lba
             l == dst.entries[0].last_lba
  <2>1. f \in Nat /\ l \in Nat /\ l - f + 1 \in Int
    BY <1>0, BlockAssumption DEF BootTypeOK, Stages
  <2>2. sd_copy("image", f, l - f + 1) /\ UNCHANGED <<vars, disk>>
    BY <1>4 DEF EntriesRead
  <2>3. /\ BootTypeOK' /\ stage' = "image" /\ blk' = 0
        /\ f \in 0 .. LbaMod - 1 => src_lba' = f
        /\ l - f + 1 \in 0 .. LbaMod - 1 => size' = l - f + 1
    BY <1>0, <2>1, <2>2, CopyStarts DEF Stages
  <2>4. ASSUME WellFormed
        PROVE  /\ f = First /\ l = Last
               /\ f \in 0 .. LbaMod - 1
               /\ l - f + 1 \in 0 .. LbaMod - 1
    <3>1. dst.entries[0] = disk[Entries]
      BY <1>0, <1>4, <2>4, CardBlocks
      DEF LoaderInv, EntriesRead, BootTypeOK
    <3> QED
      BY <1>0, <2>4, <3>1, CardBlocks, DisksAssumption DEF First, Last, WellFormed, BootTypeOK
  <2>5. WellFormed' = WellFormed /\ First' = First /\ Last' = Last
    BY <2>2 DEF WellFormed, Entries, First, Last
  <2>6. pc' = pc /\ pc[NonSmpHart] = "single"
    BY <1>4 DEF EntriesRead, vars
  <2> QED
    BY <2>3, <2>4, <2>5, <2>6 DEF LoaderInv
<1>5. CASE MainReturns
  <2>1. UNCHANGED <<disk, loader>> /\ stage = "image" /\ blk = size
    BY <1>0, <1>5 DEF MainReturns, BootTypeOK
  <2> QED
    BY <1>0, <2>1 DEF loader, LoaderInv, BootTypeOK, WellFormed, Entries, First, Last
<1>6. ASSUME NEW h \in Hart, smp_resume(h)
      PROVE  LoaderInv'
  <2>1. UNCHANGED <<disk, loader>> /\ pc[h] # "single"
    BY <1>6 DEF smp_resume, Turn, Swap, All
  <2>2. pc'[NonSmpHart] # "single" => pc[NonSmpHart] # "single"
    BY <1>0, <1>6, <2>1 DEF smp_resume, Turn, Swap, All, Goto, TypeOK
  <2> QED
    BY <1>0, <2>1, <2>2 DEF loader, LoaderInv, BootTypeOK, WellFormed, Entries, First, Last
<1> QED
  BY <1>1, <1>2, <1>3, <1>4, <1>5, <1>6 DEF BootNext, Load

(* The loader copies exactly the blocks the card names, for every card. *)
THEOREM Loader == BootSpec => []LoaderInv
<1>1. BootSpec => []CounterInv
  BY UsesBarrier, Counter, PTL
<1>2. BootInit /\ CounterInv => LoaderInv
  BY LoaderStarts
<1>3. LoaderInv /\ CounterInv /\ CounterInv' /\ [BootNext]_bootVars => LoaderInv'
  BY LoaderStep
<1> QED
  BY <1>1, <1>2, <1>3, PTL DEF BootSpec

(* No hart jumps to DRAM before the whole partition is there, for every    *)
(* number of harts, every worker and every well-formed card: a hart is     *)
(* past the barrier only when the counter has counted the worker, and the  *)
(* worker joins the barrier only when the image is copied.                 *)
THEOREM NoEarlyStart == BootSpec => []StartedLoaded
<1>1. LoaderInv /\ CounterInv => StartedLoaded
  <2> SUFFICES ASSUME LoaderInv, CounterInv, WellFormed,
                      NEW h \in Hart, pc[h] = "multi",
                      NEW k \in 0 .. Last - First
               PROVE  dst.image[k] = disk[First + k]
    BY DEF StartedLoaded
  <2>1. barrier = MaxHarts /\ NonSmpHart < barrier
    BY NonSmpHartAssumption, MaxHartsAssumption DEF CounterInv
  <2>2. pc[NonSmpHart] # "single"
    BY <2>1, NonSmpHartAssumption DEF CounterInv, Hart
  <2>3. stage = "image" /\ blk = Last - First + 1 /\ src_lba = First
    BY <2>2 DEF LoaderInv
  <2>4. disk \in Disks /\ blk \in 0 .. LbaMod - 1
    BY LbaModAssumption DEF LoaderInv, BootTypeOK
  <2>5. First \in Nat /\ Last \in Nat
    BY <2>4, CardBlocks, DisksAssumption
  <2> QED
    BY <2>3, <2>4, <2>5, LbaModAssumption DEF LoaderInv
<1>2. BootSpec => []CounterInv
  BY UsesBarrier, Counter, PTL
<1> QED
  BY <1>1, <1>2, Loader, PTL

(* Every instruction of the start-up keeps the state in its type. *)
THEOREM BootTypes == BootSpec => []BootTypeOK
BY Loader, PTL DEF LoaderInv
=============================================================================
