---------------------------- MODULE BurstMemory ----------------------------
(***************************************************************************)
(* What an AXI memory slave promises its master, stated without a clock,   *)
(* without registers and without a memory pipeline.  One burst is served   *)
(* at a time.  Beat i of a burst reads or writes the word the AXI standard *)
(* assigns to it (BeatAddr), a read burst of length len hands over exactly *)
(* len + 1 beats of which only the last carries "last", a write burst is   *)
(* acknowledged once, after its last beat is in memory, and every response *)
(* carries the identifier of the request it answers.                       *)
(*                                                                         *)
(* Addresses are word addresses; a memory of Depth words sees them modulo  *)
(* Depth, which is what slicing the low address bits does.                 *)
(***************************************************************************)
EXTENDS Integers

CONSTANTS
    Requests,   \* the AR and AW requests the masters issue
    Lane,       \* the byte lanes of a word
    Byte,       \* the values of a byte lane
    Depth,      \* the number of words of the memory
    None        \* an idle channel

VARIABLES
    ar, aw,     \* the request held on the AR and on the AW channel, or None
    w,          \* the beat held on the W channel, or None
    wreq,       \* the write whose beats the master still has to present
    r, b,       \* the last R beat and the last B response handed over
    txn,        \* the burst being served
    mem         \* the words

vars == <<ar, aw, w, wreq, r, b, txn, mem>>

Word == [Lane -> Byte]

Index(a) == a % Depth

(* The word with its strobed lanes replaced. *)
Merge(old, new, strb) == [l \in Lane |-> IF l \in strb THEN new[l] ELSE old[l]]

(* The word address of beat i of request q, as the AXI standard defines it. *)
BeatAddr(q, i) ==
    CASE q.burst = "FIXED" -> q.addr
      [] q.burst = "INCR"  -> q.addr + i
      [] q.burst = "WRAP"  ->
            LET n == q.len + 1 IN n * (q.addr \div n) + ((q.addr + i) % n)

NoTxn == [kind |-> "none"]
Txn(k, q, i) == [kind |-> k, req |-> q, beat |-> i]

-----------------------------------------------------------------------------
(* The master: it raises a request and holds it until the handshake, and    *)
(* presents the beats of a write in order, the last one marked.             *)

RaiseAR(q) == /\ ar = None
              /\ ar' = q
              /\ UNCHANGED <<aw, w, wreq, r, b, txn, mem>>

RaiseAW(q) == /\ aw = None /\ wreq = None
              /\ aw' = q
              /\ wreq' = [req |-> q, sent |-> 0]
              /\ UNCHANGED <<ar, w, r, b, txn, mem>>

RaiseW(d, s) ==
    /\ wreq # None /\ w = None
    /\ w' = [data |-> d, strb |-> s, last |-> wreq.sent = wreq.req.len]
    /\ wreq' = IF wreq.sent = wreq.req.len
               THEN None ELSE [wreq EXCEPT !.sent = @ + 1]
    /\ UNCHANGED <<ar, aw, r, b, txn, mem>>

-----------------------------------------------------------------------------
AcceptRead == /\ txn = NoTxn /\ ar # None
              /\ txn' = Txn("read", ar, 0)
              /\ ar' = None
              /\ UNCHANGED <<aw, w, wreq, r, b, mem>>

ReadBeat ==
    /\ txn.kind = "read"
    /\ r' = [id   |-> txn.req.id,
             data |-> mem[Index(BeatAddr(txn.req, txn.beat))],
             last |-> txn.beat = txn.req.len]
    /\ txn' = IF txn.beat = txn.req.len THEN NoTxn
              ELSE Txn("read", txn.req, txn.beat + 1)
    /\ UNCHANGED <<ar, aw, w, wreq, b, mem>>

(* Beat i of write q goes to memory; the beat after the last is the reply. *)
Store(q, i) ==
    /\ w # None
    /\ LET k == Index(BeatAddr(q, i))
       IN  mem' = [mem EXCEPT ![k] = Merge(@, w.data, w.strb)]
    /\ w' = None
    /\ txn' = Txn(IF i = q.len THEN "reply" ELSE "write", q, i + 1)
    /\ UNCHANGED <<ar, wreq, r, b>>

AcceptWrite == /\ txn = NoTxn /\ aw # None
               /\ aw' = None
               /\ \/ Store(aw, 0)
                  \/ /\ txn' = Txn("write", aw, 0)
                     /\ UNCHANGED <<ar, w, wreq, r, b, mem>>

WriteBeat == /\ txn.kind = "write"
             /\ Store(txn.req, txn.beat)
             /\ aw' = aw

Reply == /\ txn.kind = "reply"
         /\ b' = [id |-> txn.req.id]
         /\ txn' = NoTxn
         /\ UNCHANGED <<ar, aw, w, wreq, r, mem>>

(* A reset abandons every burst; the memory keeps its words. *)
Reset == /\ ar' = None /\ aw' = None /\ w' = None /\ wreq' = None
         /\ r' = None /\ b' = None /\ txn' = NoTxn
         /\ mem' = mem

Init == /\ ar = None /\ aw = None /\ w = None /\ wreq = None
        /\ r = None /\ b = None /\ txn = NoTxn
        /\ mem \in [0..Depth-1 -> Word]

Next == \/ \E q \in Requests : RaiseAR(q) \/ RaiseAW(q)
        \/ \E d \in Word, s \in SUBSET Lane : RaiseW(d, s)
        \/ AcceptRead \/ ReadBeat
        \/ AcceptWrite \/ WriteBeat \/ Reply
        \/ Reset

Spec == Init /\ [][Next]_vars
=============================================================================
