----------------------------- MODULE MCAxiSram -----------------------------
(* Instances of AxiSram for TLC. *)
EXTENDS AxiSram

Req(addr, len, burst) == [id |-> len % 2, addr |-> addr, len |-> len, burst |-> burst]

(* Incrementing bursts of 1 to CntMod - 1 beats, and a wrapping burst of    *)
(* the two beats of a cache line, critical word first.                      *)
UsedRequests == {Req(0, 0, "INCR"), Req(2, 2, "INCR"), Req(1, 1, "WRAP")}

(* A legal AXI burst outside that set: a wrapping burst of four beats that  *)
(* starts inside its block.                                                 *)
WrapRequests == {Req(2, 3, "WRAP")}
=============================================================================
