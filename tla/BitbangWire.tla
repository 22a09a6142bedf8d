---------------------------- MODULE BitbangWire -----------------------------
(***************************************************************************)
(* What a remote bit-bang server promises its client: the client's         *)
(* commands act on the debug module's test access port as if the client    *)
(* held the wires itself.  They take effect in the order they were sent,   *)
(* each in full before the next, and a read is answered with the output    *)
(* the port has after everything sent before it.                           *)
(***************************************************************************)
EXTENDS Sequences

CONSTANTS Cmd,          \* the commands: records with an op and pins
          IdlePins,     \* the pins before the first command
          Tap,          \* the states of the port
          Edge(_, _),   \* Edge(t, p): the port once pins p have settled
          Tdo(_)        \* Tdo(t): the output of the port

VARIABLES inq,   \* commands sent and not yet executed
          outq,  \* answers sent and not yet received
          tap,   \* the port
          up     \* is the server still executing commands?

wire == <<inq, outq, tap, up>>

Init == inq = <<>> /\ outq = <<>> /\ tap \in Tap /\ up = TRUE

(* The client's two ends of the connection. *)
Send == /\ \E c \in Cmd : inq' = Append(inq, c)
        /\ UNCHANGED <<outq, tap, up>>

Receive == /\ outq # <<>>
           /\ outq' = Tail(outq)
           /\ UNCHANGED <<inq, tap, up>>

(* The server takes the wires. *)
Attach == /\ up
          /\ tap' = Edge(tap, IdlePins)
          /\ UNCHANGED <<inq, outq, up>>

Take(op) == up /\ inq # <<>> /\ Head(inq).op = op /\ inq' = Tail(inq)

Set == /\ Take("set")
       /\ tap' = Edge(tap, Head(inq).pins)
       /\ UNCHANGED <<outq, up>>

Read == /\ Take("R")
        /\ outq' = Append(outq, Tdo(tap))
        /\ UNCHANGED <<tap, up>>

Ignore == Take("other") /\ UNCHANGED <<outq, tap, up>>

Quit == Take("Q") /\ up' = FALSE /\ UNCHANGED <<outq, tap>>

(* The server gives up, possibly over the answer to a read. *)
Fail == /\ up /\ up' = FALSE
        /\ inq' = inq \/ Take("R")
        /\ UNCHANGED <<outq, tap>>

Next == \/ Send \/ Receive
        \/ Attach \/ Set \/ Read \/ Ignore \/ Quit \/ Fail

Spec == Init /\ [][Next]_wire
=============================================================================
