----------------------------- MODULE Rendezvous -----------------------------
(***************************************************************************)
(* What the pair smp_pause / smp_resume promises to the harts that run it: *)
(* the worker does its single-threaded work alone, and a hart starts its   *)
(* multi-threaded work only after that work is over and after every hart   *)
(* of Awaited has arrived.  The two boot ROMs of the repository implement  *)
(* the pair differently (IpiBarrier, CountBarrier), and differ in which    *)
(* harts are awaited.                                                      *)
(***************************************************************************)
CONSTANTS Hart,      \* the harts of the system
          Worker,    \* the hart that does the single-threaded work
          Awaited    \* the harts whose arrival a leaving hart relies on

VARIABLE phase       \* phase[h]: how far hart h has got

Init == phase = [h \in Hart |-> IF h = Worker THEN "single" ELSE "held"]

(* The worker has returned from its single-threaded work. *)
Finish == /\ phase[Worker] = "single"
          /\ phase' = [phase EXCEPT ![Worker] = "held"]

Arrive(h) == /\ phase[h] = "held"
             /\ phase' = [phase EXCEPT ![h] = "arrived"]

Leave(h) == /\ phase[h] = "arrived"
            /\ phase[Worker] # "single"
            /\ \A g \in Awaited : phase[g] \in {"arrived", "multi"}
            /\ phase' = [phase EXCEPT ![h] = "multi"]

Next == Finish \/ \E h \in Hart : Arrive(h) \/ Leave(h)

Spec == Init /\ [][Next]_phase
=============================================================================
