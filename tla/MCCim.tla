------------------------------- MODULE MCCim -------------------------------
(* Two banks whose address range is longer than the RAM, bursts inside a     *)
(* bank up to its last word, one of them the last word of all.               *)
EXTENDS Cim

Request(addr, len) == [id |-> 0, addr |-> addr, len |-> len, burst |-> "INCR"]
MCRequests == {Request(1, 1), Request(5, 0)}

(* Beats that strobe one byte, not the lowest, or none. *)
MCData == {[l \in Lane |-> v] : v \in Byte}
MCStrobes == {{}, {1}}
=============================================================================
