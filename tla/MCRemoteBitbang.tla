-------------------------- MODULE MCRemoteBitbang --------------------------
(* Instances of RemoteBitbang: a port of one register bit, as the debug     *)
(* module's is while it shifts its bypass register (dmi_jtag_tap.sv): TDI   *)
(* is taken on the rising edge of TCK while TMS is low, TDO changes on the  *)
(* falling edge.                                                            *)
EXTENDS RemoteBitbang

MCTap == [tck : Bit, bypass : Bit, td_o : Bit]

MCEdge(t, p) == CASE p.tck > t.tck /\ p.tms = 0 ->
                       [t EXCEPT !.tck = 1, !.bypass = p.tdi]
                  [] p.tck < t.tck -> [t EXCEPT !.tck = 0, !.td_o = t.bypass]
                  [] OTHER -> [t EXCEPT !.tck = p.tck]

MCTdo(t) == t.td_o

Write(k, s, d) == [op |-> "set", pins |-> [tck |-> k, tms |-> s, tdi |-> d]]

MCCmds == {Write(0, 0, 0), Write(1, 0, 1), Write(1, 0, 0), Write(1, 1, 0)}
          \cup [op : {"R", "Q", "other"}, pins : {IdlePins}]
=============================================================================
