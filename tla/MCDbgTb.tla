------------------------------ MODULE MCDbgTb -------------------------------
(* Constants of the run of DbgTb. *)
EXTENDS DbgTb

MCIncrs == {-2, 0, 1, 3, 6}
MCTexts == {<<"a", "b", "c">>, <<"d">>}
MCComplaint == <<"d">>
=============================================================================
