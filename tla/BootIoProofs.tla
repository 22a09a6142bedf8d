---------------------------- MODULE BootIoProofs ----------------------------
(***************************************************************************)
(* Proofs about the boot ROM's device drivers, for every depth of the SPI  *)
(* core's FIFOs, every length of a call, every baud rate and every number  *)
(* printed.                                                                *)
(***************************************************************************)
EXTENDS BootIo, SequenceTheorems, FiniteSetTheorems, TLAPS

-----------------------------------------------------------------------------
(* A byte that goes from the head of one sequence to the end of the one    *)
(* before it leaves the two, end to end, as they were.                     *)
LEMMA Moved ==
  ASSUME NEW S, NEW a \in Seq(S), NEW b \in Seq(S), b # <<>>
  PROVE  Append(a, Head(b)) \o Tail(b) = a \o b
<1>1. /\ Head(b) \in S /\ Tail(b) \in Seq(S) /\ Len(Tail(b)) = Len(b) - 1
      /\ \A n \in 1 .. Len(Tail(b)) : Tail(b)[n] = b[n + 1]
      /\ Len(b) \in Nat \ {0} /\ Head(b) = b[1] /\ Len(a) \in Nat
  BY HeadTailProperties, LenProperties, EmptySeq
<1>2. /\ Append(a, Head(b)) \in Seq(S) /\ Len(Append(a, Head(b))) = Len(a) + 1
      /\ \A n \in 1 .. Len(a) : Append(a, Head(b))[n] = a[n]
      /\ Append(a, Head(b))[Len(a) + 1] = Head(b)
  BY <1>1, AppendProperties
<1> DEFINE c == Append(a, Head(b))
           d == Tail(b)
<1> HIDE DEF c, d
<1>3. /\ c \o d \in Seq(S) /\ Len(c \o d) = Len(a) + Len(b)
      /\ \A n \in 1 .. Len(a) + Len(b) :
           (c \o d)[n] = IF n <= Len(a) + 1 THEN c[n] ELSE d[n - (Len(a) + 1)]
  BY <1>1, <1>2, ConcatProperties DEF c, d
<1>4. /\ a \o b \in Seq(S) /\ Len(a \o b) = Len(a) + Len(b)
      /\ \A n \in 1 .. Len(a) + Len(b) :
           (a \o b)[n] = IF n <= Len(a) THEN a[n] ELSE b[n - Len(a)]
  BY ConcatProperties
<1>5. ASSUME NEW n \in 1 .. Len(a) + Len(b) PROVE (c \o d)[n] = (a \o b)[n]
  <2>1. CASE n <= Len(a)
    BY <1>1, <1>2, <1>3, <1>4, <2>1 DEF c
  <2>2. CASE n = Len(a) + 1
    BY <1>1, <1>2, <1>3, <1>4, <2>2 DEF c
  <2>3. CASE n > Len(a) + 1
    <3>1. n - (Len(a) + 1) \in 1 .. Len(b) - 1 /\ n - (Len(a) + 1) + 1 = n - Len(a)
      BY <1>1, <2>3
    <3>2. d[n - (Len(a) + 1)] = b[n - Len(a)]
      BY <1>1, <3>1 DEF d
    <3> QED BY <1>1, <1>3, <1>4, <2>3, <3>2
  <2>4. n <= Len(a) \/ n = Len(a) + 1 \/ n > Len(a) + 1
    BY <1>1
  <2> QED BY <2>1, <2>2, <2>3, <2>4, Zenon
<1>6. c \o d = a \o b
  BY <1>3, <1>4, <1>5, SeqEqual
<1> QED BY <1>6 DEF c, d

(* A byte at the end of the second of two sequences is at the end of both. *)
LEMMA AtEnd ==
  ASSUME NEW S, NEW a \in Seq(S), NEW b \in Seq(S), NEW e \in S
  PROVE  a \o Append(b, e) = Append(a \o b, e)
<1> DEFINE c == Append(b, e)
           d == a \o b
<1>1. /\ c \in Seq(S) /\ Len(c) = Len(b) + 1 /\ Len(a) \in Nat /\ Len(b) \in Nat
      /\ \A n \in 1 .. Len(b) : c[n] = b[n]
      /\ c[Len(b) + 1] = e
  BY AppendProperties, LenProperties
<1>2. /\ d \in Seq(S) /\ Len(d) = Len(a) + Len(b)
      /\ \A n \in 1 .. Len(a) + Len(b) : d[n] = IF n <= Len(a) THEN a[n] ELSE b[n - Len(a)]
  BY ConcatProperties
<1> HIDE DEF c, d
<1>3. /\ a \o c \in Seq(S) /\ Len(a \o c) = Len(a) + Len(b) + 1
      /\ \A n \in 1 .. Len(a) + Len(b) + 1 :
           (a \o c)[n] = IF n <= Len(a) THEN a[n] ELSE c[n - Len(a)]
  BY <1>1, ConcatProperties
<1> DEFINE f == Append(d, e)
<1>4. /\ f \in Seq(S) /\ Len(f) = Len(a) + Len(b) + 1
      /\ \A n \in 1 .. Len(a) + Len(b) : f[n] = d[n]
      /\ f[Len(a) + Len(b) + 1] = e
  <2>1. /\ f \in Seq(S) /\ Len(f) = Len(d) + 1
        /\ \A n \in 1 .. Len(d) : f[n] = d[n]
        /\ f[Len(d) + 1] = e
    <3>1. d \in Seq(S)
      BY <1>2
    <3> QED BY <3>1, AppendProperties
  <2> HIDE DEF f
  <2> QED BY <1>2, <2>1
<1> HIDE DEF f
<1>5. ASSUME NEW n \in 1 .. Len(a) + Len(b) + 1 PROVE (a \o c)[n] = f[n]
  <2>1. CASE n <= Len(a)
    BY <1>1, <1>2, <1>3, <1>4, <2>1
  <2>2. CASE n > Len(a) /\ n <= Len(a) + Len(b)
    <3>1. n - Len(a) \in 1 .. Len(b) /\ ~(n <= Len(a)) /\ n \in 1 .. Len(a) + Len(b)
      BY <1>1, <2>2
    <3>2. (a \o c)[n] = b[n - Len(a)]
      BY <1>1, <1>3, <3>1
    <3> QED BY <1>2, <1>4, <3>1, <3>2
  <2>3. CASE n = Len(a) + Len(b) + 1
    <3>1. n - Len(a) = Len(b) + 1 /\ ~(n <= Len(a))
      BY <1>1, <2>3
    <3> QED BY <1>1, <1>3, <1>4, <2>3, <3>1
  <2>4. n <= Len(a) \/ (n > Len(a) /\ n <= Len(a) + Len(b)) \/ n = Len(a) + Len(b) + 1
    BY <1>1
  <2> QED BY <2>1, <2>2, <2>3, <2>4, Zenon
<1>6. a \o c = f
  BY <1>3, <1>4, <1>5, SeqEqual
<1> QED BY <1>6 DEF c, d, f

-----------------------------------------------------------------------------
(* The SPI driver. *)

InCall == {"wait_one", "push", "wait", "pop", "deselect"}

(* How far a call has come; together with PortInv this is inductive. *)
CallInv ==
  /\ pc \in {"reset", "clear"} => ~ss /\ len = 0 /\ sent = 0
  /\ pc \in InCall => /\ ss /\ len \in 1 .. FifoDepth
                      /\ IF pc = "push" THEN sent - first + 1 \in 0 .. len - 1
                                        ELSE sent - first + 1 = len
  /\ pc \in {"wait_one", "push", "wait"} => ret = <<>>
  /\ pc = "wait_one" => len = 1
  /\ pc = "pop" => Len(ret) < len
  /\ pc = "deselect" => Len(ret) = len

SpiInv == PortInv /\ CallInv

(* The bytes of a call, n of them. *)
Bytes(n) == [k \in 1 .. n |-> first + k - 1]

LEMMA SpiStarts == Init => SpiInv
<1>1. ASSUME NEW q \in SeqOf({Noise}, FifoDepth) PROVE q \in Seq(0 .. 0)
  BY FifoDepthAssumption DEF SeqOf, Noise
<1> SUFFICES ASSUME Init PROVE SpiInv
  OBVIOUS
<1>2. ss \in BOOLEAN /\ lost \in BOOLEAN
  BY Zenon DEF Init
<1>3. TypeOK
  <2>1. tx \in Seq(0 .. 0) /\ rx \in Seq(0 .. 0) /\ sent = 0 /\ ret = <<>>
    BY <1>1 DEF Init
  <2>2. ret \in Seq(0 .. 0)
    BY <2>1
  <2> QED BY <1>2, <2>1, <2>2 DEF Init, TypeOK
<1>4. PortInv
  BY <1>3 DEF Init, PortInv, OwnReplies, NoneLost
<1> QED BY <1>4 DEF Init, SpiInv, CallInv, InCall

(* The lengths add up, so no FIFO holds more than the call has sent. *)
LEMMA CallLengths ==
  ASSUME SpiInv, pc \in InCall
  PROVE  /\ Len(ret) + Len(rx) + Len(tx) = sent - first + 1
         /\ Len(ret) \in Nat /\ Len(rx) \in Nat /\ Len(tx) \in Nat
         /\ sent - first + 1 \in 0 .. len /\ len \in 1 .. FifoDepth
         /\ first \in Nat \ {0} /\ sent \in Nat
         /\ ret \o rx \o tx = Bytes(sent - first + 1)
<1>1. /\ ret \in Seq(0 .. sent) /\ rx \in Seq(0 .. sent) /\ tx \in Seq(0 .. sent)
      /\ first \in Nat \ {0} /\ sent \in Nat
  BY DEF SpiInv, PortInv, TypeOK
<1>2. sent - first + 1 \in 0 .. len /\ len \in 1 .. FifoDepth
  BY <1>1, FifoDepthAssumption DEF SpiInv, CallInv, InCall
<1>3. ret \o rx \o tx = Bytes(sent - first + 1)
  BY DEF SpiInv, PortInv, InCall, Bytes
<1>4. Len(Bytes(sent - first + 1)) = sent - first + 1
  BY <1>2, FifoDepthAssumption DEF Bytes
<1>5. Len(ret \o rx) = Len(ret) + Len(rx) /\ ret \o rx \in Seq(0 .. sent)
  BY <1>1, ConcatProperties
<1>6. Len(ret \o rx \o tx) = Len(ret) + Len(rx) + Len(tx)
  BY <1>1, <1>5, ConcatProperties
<1> QED BY <1>1, <1>2, <1>3, <1>4, <1>6, LenProperties

(* The core moves a byte. *)
LEMMA ExchangeStep == ASSUME SpiInv, Exchange PROVE SpiInv'
<1> USE DEF SpiInv
<1>1. /\ TypeOK /\ tx # <<>> /\ tx' = Tail(tx) /\ ss' = ss
      /\ UNCHANGED <<pc, first, len, ret, sent>>
  BY DEF PortInv, Exchange, driver
<1>2. /\ Head(tx) \in 0 .. sent /\ Tail(tx) \in Seq(0 .. sent)
      /\ Len(rx) \in Nat /\ Len(tx) \in Nat \ {0}
  BY <1>1, HeadTailProperties, LenProperties, EmptySeq DEF TypeOK
<1>3. rx' \in Seq(0 .. sent) /\ lost' \in BOOLEAN
  <2>1. CASE Len(rx) < FifoDepth
    <3>1. rx' = Append(rx, IF ss THEN Head(tx) ELSE Noise) /\ lost' = lost
      BY <2>1 DEF Exchange
    <3>2. (IF ss THEN Head(tx) ELSE Noise) \in 0 .. sent
      BY <1>1, <1>2 DEF Noise, TypeOK
    <3> QED BY <1>1, <3>1, <3>2, AppendProperties DEF TypeOK
  <2>2. CASE ~(Len(rx) < FifoDepth)
    BY <1>1, <2>2 DEF Exchange, TypeOK
  <2> QED BY <2>1, <2>2
<1>4. TypeOK'
  BY <1>1, <1>2, <1>3 DEF TypeOK
<1>5. pc # "idle"
  BY <1>1 DEF PortInv
<1>6. CallInv'
  BY <1>1 DEF CallInv
<1>7. CASE pc \in InCall
  <2>1. Len(rx) < FifoDepth
    BY <1>2, <1>7, CallLengths, FifoDepthAssumption
  <2>2. ss
    BY <1>7 DEF CallInv
  <2>3. rx' = Append(rx, Head(tx)) /\ lost' = lost
    BY <2>1, <2>2 DEF Exchange
  <2>4. /\ ret \in Seq(0 .. sent) /\ rx \in Seq(0 .. sent) /\ tx \in Seq(0 .. sent)
        /\ ret \o rx \in Seq(0 .. sent)
    BY <1>1, ConcatProperties DEF TypeOK
  <2>5. ret \o rx' = Append(ret \o rx, Head(tx))
    BY <1>2, <2>3, <2>4, AtEnd
  <2>6. ret \o rx' \o tx' = ret \o rx \o tx
    BY <1>1, <2>4, <2>5, Moved
  <2>7. PortInv'
    BY <1>1, <1>4, <1>5, <1>7, <2>3, <2>6 DEF PortInv, OwnReplies, NoneLost, InCall
  <2> QED BY <1>6, <2>7
<1>8. CASE pc \in {"reset", "clear"}
  <2>1. PortInv'
    BY <1>1, <1>4, <1>8 DEF PortInv, OwnReplies, NoneLost
  <2> QED BY <1>6, <2>1
<1> QED BY <1>1, <1>5, <1>7, <1>8 DEF TypeOK, InCall

(* A call is made: it starts with empty FIFOs, so nothing of the call      *)
(* before it can come back in its place.                                   *)
LEMMA CallStep == ASSUME SpiInv, Call PROVE SpiInv'
<1> USE DEF SpiInv
<1>1. /\ TypeOK /\ pc = "idle" /\ tx = <<>> /\ rx = <<>> /\ ~lost
      /\ first' = sent + 1 /\ ret' = <<>> /\ ss' = TRUE /\ rx' = rx
  BY DEF PortInv, NoneLost, Call, spi_txrx, spi_write_bytes
<1>2. sent \in Nat
  BY <1>1 DEF TypeOK
<1>3. CASE spi_txrx
  <2>1. /\ pc' = "wait_one" /\ len' = 1 /\ sent' = sent + 1
        /\ tx' = Append(tx, sent + 1) /\ lost' = lost
    <3>1. Len(tx) < FifoDepth
      BY <1>1, FifoDepthAssumption
    <3> QED BY <1>3, <3>1 DEF spi_txrx, Transmit
  <2>2. tx' = <<sent + 1>>
    BY <1>1, <2>1
  <2>3. /\ ret' \in Seq(0 .. sent') /\ rx' \in Seq(0 .. sent') /\ tx' \in Seq(0 .. sent')
        /\ ret' \o rx' \o tx' = <<sent + 1>>
    BY <1>1, <1>2, <2>1, <2>2
  <2>4. <<sent + 1>> = [k \in 1 .. sent' - first' + 1 |-> first' + k - 1]
    <3>1. sent' - first' + 1 = 1
      BY <1>1, <1>2, <2>1
    <3>2. \A k \in 1 .. 1 : first' + k - 1 = sent + 1
      BY <1>1, <1>2
    <3>3. [k \in 1 .. 1 |-> first' + k - 1] = [k \in 1 .. 1 |-> sent + 1]
      BY <3>2
    <3> QED BY <3>1, <3>3
  <2>5. TypeOK'
    BY <1>1, <1>2, <2>1, <2>3 DEF TypeOK
  <2>6. PortInv'
    BY <1>1, <2>1, <2>3, <2>4, <2>5 DEF PortInv, OwnReplies, NoneLost
  <2>7. CallInv'
    BY <1>1, <1>2, <2>1, FifoDepthAssumption DEF CallInv, InCall
  <2> QED BY <2>6, <2>7
<1>4. ASSUME NEW n \in Lens, spi_write_bytes(n) PROVE SpiInv'
  <2>1. /\ pc' = "push" /\ len' = n /\ n \in 1 .. FifoDepth /\ UNCHANGED <<sent, tx, lost>>
    BY <1>4, LensAssumption, FifoDepthAssumption DEF spi_write_bytes
  <2>2. /\ ret' \in Seq(0 .. sent') /\ rx' \in Seq(0 .. sent') /\ tx' \in Seq(0 .. sent')
        /\ ret' \o rx' \o tx' = <<>>
    BY <1>1, <2>1
  <2>3. [k \in 1 .. sent' - first' + 1 |-> first' + k - 1] = <<>>
    <3>1. sent' - first' + 1 = 0
      BY <1>1, <1>2, <2>1
    <3> QED BY <3>1
  <2>4. TypeOK'
    BY <1>1, <1>2, <2>1, <2>2, FifoDepthAssumption DEF TypeOK
  <2>5. PortInv'
    BY <1>1, <2>1, <2>2, <2>3, <2>4 DEF PortInv, OwnReplies, NoneLost
  <2>6. CallInv'
    BY <1>1, <1>2, <2>1, FifoDepthAssumption DEF CallInv, InCall
  <2> QED BY <2>5, <2>6
<1> QED BY <1>3, <1>4 DEF Call

(* One more byte is sent. *)
LEMMA PushStep == ASSUME SpiInv, Push PROVE SpiInv'
<1> USE DEF SpiInv
<1> DEFINE n == sent - first + 1
<1>1. /\ TypeOK /\ pc = "push" /\ pc \in InCall /\ ~lost /\ ret = <<>> /\ ss
      /\ UNCHANGED <<first, len, ret, ss, rx>>
  BY DEF PortInv, NoneLost, CallInv, Push, InCall
<1>2. /\ Len(ret) + Len(rx) + Len(tx) = n
      /\ Len(ret) \in Nat /\ Len(rx) \in Nat /\ Len(tx) \in Nat
      /\ n \in 0 .. len - 1 /\ len \in 1 .. FifoDepth
      /\ first \in Nat \ {0} /\ sent \in Nat
      /\ ret \o rx \o tx = Bytes(n)
  BY <1>1, CallLengths DEF CallInv
<1>3. /\ sent' = sent + 1 /\ tx' = Append(tx, sent + 1) /\ lost' = lost
      /\ pc' = IF sent + 1 = first + len - 1 THEN "wait" ELSE "push"
  <2>1. Len(tx) < FifoDepth
    BY <1>2, FifoDepthAssumption
  <2> QED BY <2>1 DEF Push, Transmit
<1>4. /\ ret \in Seq(0 .. sent + 1) /\ rx \in Seq(0 .. sent + 1)
      /\ tx \in Seq(0 .. sent + 1) /\ sent + 1 \in 0 .. sent + 1
  <2>1. 0 .. sent \subseteq 0 .. sent + 1 /\ sent + 1 \in 0 .. sent + 1
    BY <1>2
  <2> QED BY <1>1, <2>1, SeqMonotonic DEF TypeOK
<1>5. tx' \in Seq(0 .. sent + 1)
  BY <1>3, <1>4, AppendProperties
<1>6. TypeOK'
  BY <1>1, <1>2, <1>3, <1>4, <1>5 DEF TypeOK
<1>7. ret' \o rx' \o tx' = Append(Bytes(n), sent + 1)
  <2>1. ret \o rx \in Seq(0 .. sent + 1)
    BY <1>4, ConcatProperties
  <2>2. (ret \o rx) \o Append(tx, sent + 1) = Append((ret \o rx) \o tx, sent + 1)
    BY <1>4, <2>1, AtEnd
  <2> QED BY <1>1, <1>2, <1>3, <2>2
<1>8. Append(Bytes(n), sent + 1) = [k \in 1 .. sent' - first' + 1 |-> first' + k - 1]
  <2>1. sent' - first' + 1 = n + 1 /\ first + (n + 1) - 1 = sent + 1 /\ n \in Nat
    BY <1>1, <1>2, <1>3, FifoDepthAssumption
  <2> HIDE DEF n
  <2>2. Append(Bytes(n), sent + 1) = [k \in 1 .. n + 1 |-> first + k - 1]
    BY <1>2, <2>1 DEF Bytes
  <2> QED BY <1>1, <2>1, <2>2
<1>9. PortInv'
  BY <1>1, <1>3, <1>6, <1>7, <1>8 DEF PortInv, OwnReplies, NoneLost
<1>10. CallInv'
  BY <1>1, <1>2, <1>3, FifoDepthAssumption DEF CallInv, InCall
<1> QED BY <1>9, <1>10

(* A byte is read from the receive FIFO. *)
LEMMA PopStep == ASSUME SpiInv, WaitOne \/ Pop PROVE SpiInv'
<1> USE DEF SpiInv
<1>1. /\ TypeOK /\ pc \in {"wait_one", "pop"} /\ pc \in InCall /\ ~lost /\ rx # <<>>
      /\ ret' = Append(ret, Head(rx)) /\ rx' = Tail(rx)
      /\ UNCHANGED <<first, len, sent, ss, tx, lost>>
  BY DEF PortInv, NoneLost, WaitOne, Pop, InCall, RxEmpty
<1>2. /\ ret \in Seq(0 .. sent) /\ rx \in Seq(0 .. sent) /\ tx \in Seq(0 .. sent)
      /\ Head(rx) \in 0 .. sent /\ Tail(rx) \in Seq(0 .. sent) /\ Len(ret) \in Nat
  BY <1>1, HeadTailProperties, LenProperties DEF TypeOK
<1>3. ret' \in Seq(0 .. sent) /\ Len(ret') = Len(ret) + 1
  BY <1>1, <1>2, AppendProperties
<1>4. ret' \o rx' \o tx' = ret \o rx \o tx
  BY <1>1, <1>2, Moved
<1>5. /\ pc' \in {"pop", "deselect"}
      /\ IF pc' = "pop" THEN Len(ret') < len ELSE Len(ret') = len
  <2>1. CASE WaitOne
    <3>1. pc = "wait_one" /\ pc' = "deselect"
      BY <2>1 DEF WaitOne
    <3>2. Len(ret) = 0 /\ len = 1
      BY <3>1 DEF CallInv
    <3> QED BY <1>3, <3>1, <3>2
  <2>2. CASE Pop
    <3>1. pc = "pop" /\ pc' = IF Len(ret') = len THEN "deselect" ELSE "pop"
      BY <2>2 DEF Pop
    <3>2. Len(ret) < len /\ len \in Nat
      BY <1>1, <3>1 DEF CallInv, TypeOK
    <3> QED BY <1>2, <1>3, <3>1, <3>2
  <2> QED BY <2>1, <2>2
<1>6. TypeOK'
  BY <1>1, <1>2, <1>3, <1>5 DEF TypeOK
<1>7. PortInv'
  BY <1>1, <1>4, <1>5, <1>6 DEF PortInv, OwnReplies, NoneLost
<1>8. CallInv'
  BY <1>1, <1>5 DEF CallInv, InCall
<1> QED BY <1>7, <1>8

(* The call returns when as many bytes came as were sent: then both FIFOs  *)
(* are empty and what it returns are its own bytes.                        *)
LEMMA DeselectStep == ASSUME SpiInv, Deselect PROVE SpiInv'
<1> USE DEF SpiInv
<1>1. /\ TypeOK /\ pc = "deselect" /\ pc \in InCall /\ ~lost /\ pc' = "idle" /\ ss' = FALSE
      /\ UNCHANGED <<first, len, ret, sent, tx, rx, lost>>
  BY DEF PortInv, NoneLost, Deselect, InCall
<1>2. /\ sent - first + 1 = len /\ Len(ret) = len
      /\ Len(rx) = 0 /\ Len(tx) = 0 /\ ret \o rx \o tx = Bytes(len)
  BY <1>1, CallLengths DEF CallInv
<1>3. rx = <<>> /\ tx = <<>>
  BY <1>1, <1>2, EmptySeq DEF TypeOK
<1>4. ret = Bytes(len)
  BY <1>1, <1>2, <1>3, ConcatEmptySeq DEF TypeOK
<1>5. TypeOK'
  BY <1>1 DEF TypeOK
<1>6. PortInv'
  BY <1>1, <1>3, <1>4, <1>5 DEF PortInv, OwnReplies, NoneLost, Bytes
<1>7. CallInv'
  BY <1>1 DEF CallInv, InCall
<1> QED BY <1>6, <1>7

LEMMA SpiStep == SpiInv /\ [Next]_vars => SpiInv'
<1> SUFFICES ASSUME SpiInv, [Next]_vars PROVE SpiInv'
  OBVIOUS
<1> USE DEF SpiInv
<1>1. CASE UNCHANGED vars
  BY <1>1 DEF vars, driver, core, PortInv, TypeOK, OwnReplies, NoneLost, CallInv
<1>2. CASE spi_reset
  BY <1>2 DEF spi_reset, core, PortInv, TypeOK, OwnReplies, NoneLost, CallInv, InCall
<1>3. CASE spi_init
  <2>1. <<>> \in Seq(0 .. sent)
    OBVIOUS
  <2>2. TypeOK'
    BY <1>3, <2>1 DEF spi_init, PortInv, TypeOK
  <2> QED BY <1>3, <2>2 DEF spi_init, PortInv, OwnReplies, NoneLost, CallInv, InCall
<1>4. CASE Wait
  <2>1. ret = <<>> /\ Len(ret) = 0 /\ len >= 1
    BY <1>4, FifoDepthAssumption DEF Wait, CallInv, InCall
  <2>2. PortInv'
    BY <1>4 DEF Wait, core, PortInv, TypeOK, OwnReplies, NoneLost
  <2>3. CallInv'
    BY <1>4, <2>1, FifoDepthAssumption DEF Wait, core, CallInv, InCall
  <2> QED BY <2>2, <2>3
<1> QED BY <1>1, <1>2, <1>3, <1>4, ExchangeStep, CallStep, PushStep, PopStep, DeselectStep
        DEF Next, Return

(* Every step of the two drivers is a step of the SPI driver or none. *)
LEMMA SpiPart == IoSpec => Spec
<1>1. [IoNext]_iovars => [Next]_vars
  BY DEF IoNext, iovars, InitSpi, Next, vars, driver, core
<1>2. IoInit => Init
  BY DEF IoInit
<1> QED BY <1>1, <1>2, PTL DEF IoSpec, Spec

(* The bytes a call of the SPI driver returns are those that came for the  *)
(* bytes it sent, in order, and no FIFO overflows: for every depth of the  *)
(* FIFOs, every length of a call up to it, and however the core's work     *)
(* falls between the driver's.                                             *)
THEOREM PortSafe == IoSpec => []PortInv
<1>1. SpiInv => PortInv
  BY DEF SpiInv
<1> QED BY <1>1, SpiStarts, SpiStep, SpiPart, PTL DEF Spec

-----------------------------------------------------------------------------
(* Quotients. *)

LEMMA Quotient == ASSUME NEW n \in Nat \ {0}, NEW q \in Nat, NEW e \in 0 .. n - 1
                  PROVE  (n * q + e) \div n = q /\ (n * q + e) % n = e
OBVIOUS

LEMMA Quotients == ASSUME NEW n \in Nat \ {0}, NEW a \in Nat
                   PROVE  a = n * (a \div n) + (a % n) /\ a \div n \in Nat /\ a % n \in 0 .. n - 1
OBVIOUS

LEMMA Times == ASSUME NEW n \in Nat, NEW a \in Nat, NEW b \in Nat, a <= b
               PROVE  n * a <= n * b /\ n * a \in Nat /\ n * b \in Nat
OBVIOUS

-----------------------------------------------------------------------------
(* Numerals. *)

LEMMA TopPower == Pow10[10] = 1000000000
BY SMT DEF Pow10

LEMMA Powers == /\ Pow10[1] = 1
                /\ \A k \in 1 .. 10 : Pow10[k] \in Nat \ {0}
                /\ \A k \in 1 .. 9 : Pow10[k + 1] = 10 * Pow10[k]
                /\ \A k, m \in 1 .. 10 : k <= m => Pow10[k] <= Pow10[m]
BY DEF Pow10

Digits(v) == Cardinality({k \in 1 .. 10 : v >= Pow10[k]})
Width(v, d) == IF Digits(v) > d THEN Digits(v) ELSE d

LEMMA UpTo == ASSUME NEW n \in Nat PROVE IsFiniteSet(1 .. n) /\ Cardinality(1 .. n) = n
<1>1. 1 \in Int /\ n \in Int
  OBVIOUS
<1>2. IsFiniteSet(1 .. n) /\ Cardinality(1 .. n) = IF 1 > n THEN 0 ELSE n - 1 + 1
  BY <1>1, FS_Interval, Zenon
<1> QED BY <1>2

LEMMA DigitsRange == ASSUME NEW v \in Nat PROVE Digits(v) \in 0 .. 10
<1> DEFINE s == {k \in 1 .. 10 : v >= Pow10[k]}
<1>1. s \subseteq 1 .. 10 /\ IsFiniteSet(1 .. 10) /\ Cardinality(1 .. 10) = 10
  BY UpTo
<1>2. IsFiniteSet(s) /\ Cardinality(s) <= 10
  BY <1>1, FS_Subset
<1>3. Cardinality(s) \in Nat
  BY <1>2, FS_CardinalityType
<1> QED BY <1>2, <1>3 DEF Digits

(* A number has k digits or more if it reaches the k-th power of ten. *)
LEMMA AtLeast ==
  ASSUME NEW v \in Nat, NEW k \in 1 .. 10
  PROVE  Digits(v) >= k <=> v >= Pow10[k]
<1> DEFINE s == {m \in 1 .. 10 : v >= Pow10[m]}
<1>1. IsFiniteSet(s)
  BY UpTo, FS_Subset
<1>2. Digits(v) = Cardinality(s) /\ Digits(v) \in 0 .. 10
  BY DigitsRange DEF Digits
<1>3. ASSUME v >= Pow10[k] PROVE Digits(v) >= k
  <2>1. \A m \in 1 .. k : m \in 1 .. 10 /\ Pow10[m] <= Pow10[k]
                           /\ Pow10[m] \in Nat /\ Pow10[k] \in Nat
    BY Powers
  <2>2. 1 .. k \subseteq s
    BY <1>3, <2>1
  <2>3. Cardinality(1 .. k) <= Cardinality(s) /\ Cardinality(1 .. k) = k
    BY <1>1, <2>2, FS_Subset, UpTo
  <2> QED BY <1>2, <2>3
<1>4. ASSUME ~(v >= Pow10[k]) PROVE ~(Digits(v) >= k)
  <2>1. ASSUME NEW m \in 1 .. 10, v >= Pow10[m] PROVE m \in 1 .. k - 1
    <3>1. CASE m >= k
      <4>1. Pow10[k] <= Pow10[m] /\ Pow10[m] \in Nat /\ Pow10[k] \in Nat
        BY <3>1, Powers
      <4> QED BY <1>4, <2>1, <4>1
    <3> QED BY <3>1
  <2>2. s \subseteq 1 .. k - 1
    BY <2>1
  <2>3. IsFiniteSet(1 .. k - 1) /\ Cardinality(1 .. k - 1) = k - 1
    <3>1. k - 1 \in Nat
      OBVIOUS
    <3> QED BY <3>1, UpTo
  <2>4. Cardinality(s) <= k - 1
    BY <2>2, <2>3, FS_Subset
  <2> QED BY <1>2, <2>4
<1> QED BY <1>3, <1>4

(* Characters that the terminal shows. *)
Plain == Nat \ {Backspace, 10, 13}

LEMMA NumeralIs ==
  ASSUME NEW v \in Nat, NEW d \in 0 .. 10
  PROVE  /\ Width(v, d) \in 0 .. 10
         /\ Numeral(v, d) \in Seq(Plain)
         /\ Len(Numeral(v, d)) = Width(v, d)
         /\ \A j \in 1 .. Width(v, d) :
              Numeral(v, d)[j] = 48 + ((v \div Pow10[Width(v, d) - j + 1]) % 10)
<1> DEFINE n == Width(v, d)
<1>1. n \in 0 .. 10
  <2>1. Digits(v) \in 0 .. 10
    BY DigitsRange, Zenon
  <2> QED BY <2>1 DEF Width
<1>2. Numeral(v, d) = [j \in 1 .. n |-> 48 + ((v \div Pow10[n - j + 1]) % 10)]
  BY DEF Numeral, Width, Digits
<1> HIDE DEF n
<1>3. ASSUME NEW j \in 1 .. n PROVE 48 + ((v \div Pow10[n - j + 1]) % 10) \in Plain
  <2> DEFINE p == Pow10[n - j + 1]
             q == v \div p
  <2>1. n - j + 1 \in 1 .. 10
    BY <1>1
  <2>2. p \in Nat \ {0}
    BY <2>1, Powers
  <2> HIDE DEF p
  <2>3. q \in Nat
    BY <2>2
  <2> HIDE DEF q
  <2>4. 48 + (q % 10) \in Nat /\ 48 + (q % 10) > 13
    BY <2>3
  <2> QED BY <2>4 DEF Plain, Backspace, p, q
<1>4. n \in Nat
  BY <1>1
<1>5. Numeral(v, d) \in Seq(Plain) /\ Len(Numeral(v, d)) = n
  BY <1>2, <1>3, <1>4
<1> QED BY <1>1, <1>2, <1>5 DEF n
-----------------------------------------------------------------------------
(* The UART driver: its part of a step of the two drivers. *)
UartNext == \/ Receive \/ UartStep \/ UartCall
            \/ \E s \in Status : PrintValue(Hex(s))

LEMMA UartPart == [IoNext]_iovars => [UartNext]_uvars
BY DEF IoNext, iovars, InitSpi, UartNext, uvars, uart, term, copy

(* How far init_uart has come. *)
DivisorInv ==
  /\ upc \in {"reset", "lsb", "msb", "lcr", "ready", "print", "copy", "update", "end"}
  /\ upc \in {"lsb", "msb", "lcr"} => dlab = TRUE
  /\ upc \in {"ready", "print", "copy", "update", "end"} => dlab = FALSE
  /\ upc \notin {"reset", "lsb"} => lsb = divisor % 256
  /\ upc \notin {"reset", "lsb", "msb"} => msb = (divisor \div 256) % 256

(* A write to the transmit register leaves the divisor alone. *)
LEMMA PrintedByte ==
  ASSUME DivisorInv, Printing
  PROVE  dlab' = dlab /\ lsb' = lsb /\ msb' = msb /\ upc' = upc
<1>1. dlab = FALSE /\ UNCHANGED <<dlab, msb, upc>>
  BY DEF Printing, DivisorInv
<1>2. \A a : WriteBase(a) => lsb' = lsb
  BY <1>1 DEF WriteBase
<1>3. print_uart => lsb' = lsb
  BY <1>2 DEF print_uart, Put, Skip, write_serial
<1>4. BackUp => lsb' = lsb
  BY <1>2 DEF BackUp, write_serial
<1>5. print_uart_dec => lsb' = lsb
  BY <1>2 DEF print_uart_dec, DecRound, Put, Skip, write_serial
<1>6. print_uart_addr => lsb' = lsb
  BY <1>2 DEF print_uart_addr, Put, Skip, write_serial
<1> QED BY <1>1, <1>3, <1>4, <1>5, <1>6 DEF Printing

LEMMA DivisorStep == DivisorInv /\ [UartNext]_uvars => DivisorInv'
<1> SUFFICES ASSUME DivisorInv, [UartNext]_uvars PROVE DivisorInv'
  OBVIOUS
<1>0. divisor' = divisor
  BY DEF divisor
<1>1. CASE UNCHANGED uvars
  BY <1>0, <1>1 DEF uvars, uart, DivisorInv
<1>2. CASE Receive
  BY <1>0, <1>2 DEF Receive, DivisorInv
<1>3. CASE Initialise
  BY <1>0, <1>3 DEF Initialise, init_uart, WriteBase, DivisorInv
<1>4. CASE Printing
  <2>1. UNCHANGED <<dlab, lsb, msb, upc>>
    BY <1>4, PrintedByte
  <2> QED BY <1>0, <2>1 DEF DivisorInv
<1>5. ASSUME NEW p, PrintValue(p) PROVE DivisorInv'
  BY <1>0, <1>5 DEF PrintValue, uart, DivisorInv
<1>6. ASSUME NEW n \in Sizes, StartCopy(n) PROVE DivisorInv'
  BY <1>0, <1>6 DEF StartCopy, uart, DivisorInv
<1>7. CASE Update \/ NextBlock \/ EndCopy \/ Back
  BY <1>0, <1>7 DEF Update, NextBlock, EndCopy, Back, uart, DivisorInv
<1> QED BY <1>1, <1>2, <1>3, <1>4, <1>5, <1>6, <1>7 DEF UartNext, UartStep, UartCall

(* Once init_uart has returned, the UART's divisor is the one it computed, *)
(* whatever is printed: for every frequency and baud rate whose divisor    *)
(* fits the two registers.                                                 *)
THEOREM DivisorSafe == IoSpec => []DivisorKept
<1>1. IoInit => DivisorInv
  BY DEF IoInit, UartInit, DivisorInv
<1>2. DivisorInv => DivisorKept
  <2> DEFINE b == Freq \div (Baud * 16)
             h == b \div 256
  <2>1. b \in Nat /\ b < 65536
    <3>1. Baud * 16 \in Nat \ {0}
      BY BaudAssumption
    <3> QED BY <3>1, BaudAssumption, Quotients
  <2> HIDE DEF b
  <2>2. b = 256 * h + (b % 256) /\ b % 256 \in 0 .. 255 /\ h \in Nat
    BY <2>1, Quotients
  <2> HIDE DEF h
  <2>3. h < 256
    BY <2>1, <2>2
  <2>4. h % 256 = h
    BY <2>2, <2>3
  <2>5. (b % 256) + 256 * (h % 256) = b
    BY <2>2, <2>4
  <2> QED BY <2>5 DEF DivisorInv, DivisorKept, divisor, b, h
<1>3. DivisorInv /\ [IoNext]_iovars => DivisorInv'
  BY UartPart, DivisorStep
<1> QED BY <1>1, <1>2, <1>3, PTL DEF IoSpec

-----------------------------------------------------------------------------
(* What a call that prints has written so far, and what is left of it. *)

(* part is the beginning of text. *)
Written(part, text) == /\ part \in Seq(Nat) /\ Len(part) <= Len(text)
                       /\ \A m \in 1 .. Len(part) : part[m] = text[m]

LEMMA Extended ==
  ASSUME NEW text \in Seq(Nat), NEW part, Written(part, text), Len(part) < Len(text)
  PROVE  /\ Len(part) + 1 \in 1 .. Len(text)
         /\ Len(Append(part, text[Len(part) + 1])) = Len(part) + 1
         /\ Written(Append(part, text[Len(part) + 1]), text)
<1> DEFINE n == Len(part)
           e == text[n + 1]
           p == Append(part, e)
<1>1. /\ part \in Seq(Nat) /\ n \in Nat /\ Len(text) \in Nat /\ n + 1 \in 1 .. Len(text)
      /\ \A m \in 1 .. n : part[m] = text[m]
  BY LenProperties DEF Written
<1>2. e \in Nat
  BY <1>1, ElementOfSeq
<1> HIDE DEF e
<1>3. /\ p \in Seq(Nat) /\ Len(p) = n + 1 /\ p[n + 1] = e
      /\ \A m \in 1 .. n : p[m] = part[m]
  BY <1>1, <1>2, AppendProperties
<1> HIDE DEF p
<1>4. ASSUME NEW m \in 1 .. n + 1 PROVE p[m] = text[m]
  <2>1. CASE m = n + 1
    BY <1>3, <2>1 DEF e
  <2>2. CASE m # n + 1
    <3>1. m \in 1 .. n
      BY <1>1, <2>2
    <3> QED BY <1>1, <1>3, <3>1
  <2> QED BY <2>1, <2>2
<1>5. Written(p, text)
  BY <1>1, <1>3, <1>4 DEF Written
<1> QED BY <1>1, <1>3, <1>5 DEF p, e

LEMMA Complete ==
  ASSUME NEW text \in Seq(Nat), NEW part, Written(part, text), Len(part) = Len(text)
  PROVE  part = text
BY SeqEqual DEF Written

LEMMA NoneYet == ASSUME NEW text \in Seq(Nat) PROVE Written(<<>>, text)
<1>1. <<>> \in Seq(Nat) /\ Len(<<>>) = 0 /\ Len(text) \in Nat
  BY EmptySeq, LenProperties
<1> QED BY <1>1 DEF Written

(* print_uart: the characters left are the rest of the string. *)
StrDoing(c, s, part) ==
  \E r \in Seq(Nat) : /\ c = Str(r)
                      /\ Len(r) + Len(part) = Len(s)
                      /\ \A m \in 1 .. Len(r) : r[m] = s[Len(part) + m]
                      /\ Written(part, s)

(* print_uart_dec: the loop is at the place j, with the value that is left *)
(* below the next higher place; digits has been brought down once a digit  *)
(* was printed.                                                            *)
DecDoing(c, v, d, part) ==
  \E j \in 0 .. 9 :
    /\ c = [k |-> "dec", val |-> v % (10 * Pow10[j + 1]),
            digits |-> IF Width(v, d) > j + 1 THEN j + 1 ELSE d,
            i |-> j, pow |-> Pow10[j + 1]]
    /\ Len(part) = IF Width(v, d) > j + 1 THEN Width(v, d) - (j + 1) ELSE 0
    /\ Written(part, Numeral(v, d))

(* print_uart_addr and its kin: n digits are left. *)
HexDoing(c, bs, part) ==
  \E n \in 0 .. 2 * Len(bs) : /\ c = [k |-> "hex", bytes |-> bs, left |-> n]
                              /\ Len(part) = 2 * Len(bs) - n
                              /\ Written(part, HexNumeral(bs))

Number == {v \in Nat : v < 10 * Pow10[10]}
Printable == {Str(s) : s \in Seq(Nat)}
              \cup {Dec(v, d) : v \in Number, d \in 0 .. 10}
              \cup {Hex(bs) : bs \in Seq(0 .. 255)}

Text(a) == CASE a.k = "str" -> a.s
             [] a.k = "dec" -> Numeral(a.val, a.digits)
             [] a.k = "hex" -> HexNumeral(a.bytes)
Doing(c, a, part) == CASE a.k = "str" -> StrDoing(c, a.s, part)
                       [] a.k = "dec" -> DecDoing(c, a.val, a.digits, part)
                       [] a.k = "hex" -> HexDoing(c, a.bytes, part)

LEMMA ByKind ==
  /\ \A s : Str(s).k = "str" /\ Text(Str(s)) = s
            /\ \A c, part : Doing(c, Str(s), part) = StrDoing(c, s, part)
  /\ \A v, d : Dec(v, d).k = "dec" /\ Text(Dec(v, d)) = Numeral(v, d)
            /\ \A c, part : Doing(c, Dec(v, d), part) = DecDoing(c, v, d, part)
  /\ \A bs : Hex(bs).k = "hex" /\ Text(Hex(bs)) = HexNumeral(bs)
            /\ \A c, part : Doing(c, Hex(bs), part) = HexDoing(c, bs, part)
BY DEF Text, Doing, Str, Dec, Hex

LEMMA HexDigits ==
  ASSUME NEW n \in 0 .. 15
  PROVE  bin_to_hex_table[n] \in Plain /\ (n < 10 => bin_to_hex_table[n] = 48 + n)
BY DEF bin_to_hex_table, Plain, Backspace

LEMMA HexNumeralIs ==
  ASSUME NEW bs \in Seq(0 .. 255)
  PROVE  /\ HexNumeral(bs) \in Seq(Plain)
         /\ Len(HexNumeral(bs)) = 2 * Len(bs)
         /\ \A j \in 1 .. 2 * Len(bs) :
              HexNumeral(bs)[2 * Len(bs) - j + 1] = bin_to_hex(bs[(j + 1) \div 2], j % 2 = 1)
<1> DEFINE n == Len(bs)
           at(m) == bs[n - ((m - 1) \div 2)]
           h(m) == bin_to_hex_table[IF m % 2 = 1 THEN at(m) \div 16 ELSE at(m) % 16]
<1>1. n \in Nat /\ 2 * n \in Nat
  BY LenProperties
<1>2. HexNumeral(bs) = [m \in 1 .. 2 * n |-> h(m)]
  BY DEF HexNumeral
<1>3. ASSUME NEW m \in 1 .. 2 * n
      PROVE  n - ((m - 1) \div 2) \in 1 .. n
  BY <1>1
<1>4. ASSUME NEW b \in 0 .. 255
      PROVE  b \div 16 \in 0 .. 15 /\ b % 16 \in 0 .. 15 /\ (b \div 16) % 16 = b \div 16
  OBVIOUS
<1>5. ASSUME NEW m \in 1 .. 2 * n PROVE h(m) \in Plain
  <2>1. at(m) \in 0 .. 255
    BY <1>3, ElementOfSeq
  <2> HIDE DEF at
  <2>2. at(m) \div 16 \in 0 .. 15 /\ at(m) % 16 \in 0 .. 15
    BY <2>1, <1>4
  <2> QED BY <2>2, HexDigits
<1>6. HexNumeral(bs) \in Seq(Plain) /\ Len(HexNumeral(bs)) = 2 * n
  <2> HIDE DEF h, n
  <2> QED BY <1>1, <1>2, <1>5
<1>7. ASSUME NEW j \in 1 .. 2 * n
      PROVE  HexNumeral(bs)[2 * n - j + 1] = bin_to_hex(bs[(j + 1) \div 2], j % 2 = 1)
  <2> DEFINE m == 2 * n - j + 1
             b == bs[(j + 1) \div 2]
  <2>1. (j + 1) \div 2 \in 1 .. n
    BY <1>1
  <2>2. b \in 0 .. 255
    BY <2>1, ElementOfSeq
  <2> HIDE DEF n, b
  <2>3. m \in 1 .. 2 * n /\ (m % 2 = 1 <=> j % 2 = 0)
    BY <1>1
  <2>4. n - ((m - 1) \div 2) = (j + 1) \div 2 /\ (j % 2 = 0 \/ j % 2 = 1)
    BY <1>1
  <2>5. at(m) = b
    BY <2>4 DEF b
  <2>6. HexNumeral(bs)[m] = h(m)
    <3> HIDE DEF h, m
    <3> QED BY <1>2, <2>3
  <2> HIDE DEF m, at
  <2>7. (b \div 16) % 16 = b \div 16
    BY <2>2, <1>4
  <2>8. CASE j % 2 = 1
    BY <2>3, <2>5, <2>6, <2>8 DEF bin_to_hex, b, m
  <2>9. CASE j % 2 = 0
    BY <2>3, <2>5, <2>6, <2>7, <2>9 DEF bin_to_hex, b, m
  <2> QED BY <2>4, <2>8, <2>9
<1> QED BY <1>6, <1>7

LEMMA Begins ==
  ASSUME NEW a \in Printable
  PROVE  Text(a) \in Seq(Nat) /\ Doing(a, a, <<>>)
<1>0. Plain \subseteq Nat /\ Len(<<>>) = 0
  BY DEF Plain
<1>1. ASSUME NEW s \in Seq(Nat), a = Str(s) PROVE Text(a) \in Seq(Nat) /\ Doing(a, a, <<>>)
  <2>1. Len(s) \in Nat
    BY LenProperties
  <2>2. StrDoing(Str(s), s, <<>>)
    BY <1>0, <2>1, NoneYet DEF StrDoing
  <2> QED BY <1>1, <2>2, ByKind
<1>2. ASSUME NEW v \in Number, NEW d \in 0 .. 10, a = Dec(v, d)
      PROVE  Text(a) \in Seq(Nat) /\ Doing(a, a, <<>>)
  <2>1. v \in Nat
    BY DEF Number
  <2>2. Width(v, d) \in 0 .. 10 /\ Numeral(v, d) \in Seq(Nat)
    BY <2>1, <1>0, NumeralIs, SeqMonotonic
  <2>3. v % (10 * Pow10[10]) = v
    <3>1. Pow10[10] \in Nat \ {0}
      BY Powers
    <3>2. 10 * Pow10[10] \in Nat \ {0} /\ v < 10 * Pow10[10] /\ v \in Nat
      BY <3>1 DEF Number
    <3> DEFINE m == 10 * Pow10[10]
    <3> HIDE DEF m
    <3>3. v % m = v
      BY <3>2 DEF m
    <3> QED BY <3>3 DEF m
  <2>4. DecDoing(Dec(v, d), v, d, <<>>)
    <3>1. Dec(v, d) = [k |-> "dec", val |-> v, digits |-> d, i |-> 9, pow |-> Pow10[9 + 1]]
      BY TopPower, SMT DEF Dec
    <3>2. ~(Width(v, d) > 9 + 1) /\ 9 + 1 = 10 /\ 9 \in 0 .. 9
      BY <2>2
    <3> QED BY <1>0, <2>2, <2>3, <3>1, <3>2, NoneYet DEF DecDoing
  <2> QED BY <1>2, <2>2, <2>4, ByKind
<1>3. ASSUME NEW bs \in Seq(0 .. 255), a = Hex(bs)
      PROVE  Text(a) \in Seq(Nat) /\ Doing(a, a, <<>>)
  <2>1. HexNumeral(bs) \in Seq(Nat) /\ Len(bs) \in Nat
    BY <1>0, HexNumeralIs, SeqMonotonic, LenProperties
  <2>2. HexDoing(Hex(bs), bs, <<>>)
    BY <1>0, <2>1, NoneYet DEF HexDoing, Hex
  <2> QED BY <1>3, <2>1, <2>2, ByKind
<1> QED BY <1>1, <1>2, <1>3 DEF Printable

(* What is left below ten times a place, divided by the place, is the      *)
(* number's digit there; without it, what is left below the place.         *)
LEMMA Places ==
  ASSUME NEW v \in Nat, NEW p \in Nat \ {0}
  PROVE  /\ v % (10 * p) \in Nat
         /\ (v % (10 * p)) \div p = (v \div p) % 10
         /\ (v % (10 * p)) - ((v % (10 * p)) \div p) * p = v % p
<1> DEFINE q == v \div p
           r == v % p
           h == q \div 10
           u == q % 10
<1>1. v = p * q + r /\ q \in Nat /\ r \in 0 .. p - 1
  BY Quotients
<1> HIDE DEF q, r
<1>2. q = 10 * h + u /\ h \in Nat /\ u \in 0 .. 9
  BY <1>1, Quotients
<1> HIDE DEF h, u
<1>3. p * u + r \in 0 .. 10 * p - 1 /\ 10 * p \in Nat \ {0} /\ p * u \in Nat
  <2>1. p * u \in Nat /\ p * u <= p * 9
    BY <1>2
  <2> QED BY <1>1, <2>1
<1>4. v = (10 * p) * h + (p * u + r)
  <2>1. p * (10 * h + u) = (10 * p) * h + p * u
    BY <1>2
  <2>2. p * q = (10 * p) * h + p * u
    BY <1>2, <2>1
  <2>3. (10 * p) * h \in Nat
    BY <1>2, <1>3
  <2> DEFINE a == (10 * p) * h
             b == p * u
             c == p * q
  <2>4. v = c + r /\ c = a + b /\ a \in Nat /\ b \in Nat /\ r \in Nat
    BY <1>1, <1>3, <2>2, <2>3
  <2> HIDE DEF a, b, c
  <2>5. v = a + (b + r)
    BY <2>4
  <2> QED BY <2>5 DEF a, b
<1>5. v % (10 * p) = p * u + r
  <2> DEFINE n == 10 * p
             e == p * u + r
  <2>1. n \in Nat \ {0} /\ e \in 0 .. n - 1 /\ v = n * h + e
    BY <1>3, <1>4
  <2> HIDE DEF n, e
  <2>2. (n * h + e) % n = e
    BY <1>2, <2>1, Quotient
  <2> QED BY <2>1, <2>2 DEF n, e
<1>6. (p * u + r) \div p = u
  BY <1>1, <1>2, Quotient
<1>7. (p * u + r) - u * p = r
  BY <1>1, <1>2, <1>3
<1> QED BY <1>3, <1>5, <1>6, <1>7 DEF u, q, r

(* A digit is printed at the place j exactly if the numeral has one there. *)
LEMMA PrintsHere ==
  ASSUME NEW v \in Number, NEW d \in 0 .. 10, NEW j \in 0 .. 9
  PROVE  LET e == IF Width(v, d) > j + 1 THEN j + 1 ELSE d
         IN  (v \div Pow10[j + 1]) % 10 # 0 \/ j < e  <=>  Width(v, d) >= j + 1
<1> DEFINE w == Width(v, d)
           p == Pow10[j + 1]
<1>1. w \in 0 .. 10 /\ Digits(v) \in 0 .. 10 /\ v \in Nat
  BY NumeralIs, DigitsRange DEF Number
<1>2. p \in Nat \ {0} /\ j + 1 \in 1 .. 10
  BY Powers
<1>3. CASE w > j + 1
  BY <1>1, <1>2, <1>3
<1>4. CASE w < j + 1
  <2>1. Digits(v) < j + 1 /\ d < j + 1
    BY <1>1, <1>4 DEF Width
  <2>2. v < p
    BY <1>1, <1>2, <2>1, AtLeast
  <2>3. v \div p = 0
    <3> HIDE DEF p
    <3> QED BY <1>1, <1>2, <2>2
  <2>4. (v \div p) % 10 = 0
    BY <2>3
  <2> QED BY <1>1, <1>4, <2>1, <2>4
<1>5. CASE w = j + 1
  <2>1. CASE d = j + 1
    BY <1>1, <1>5, <2>1
  <2>2. CASE Digits(v) = j + 1
    <3>1. v >= p
      BY <1>1, <1>2, <2>2, AtLeast
    <3>2. v < 10 * p
      <4>1. CASE j = 9
        BY <4>1 DEF Number
      <4>2. CASE j < 9
        <5>1. j + 1 \in 1 .. 9 /\ (j + 1) + 1 \in 1 .. 10 /\ ~(Digits(v) >= (j + 1) + 1)
          BY <1>1, <2>2, <4>2
        <5>2. Pow10[(j + 1) + 1] = 10 * p /\ Pow10[(j + 1) + 1] \in Nat
          BY <5>1, Powers
        <5> QED BY <1>1, <5>1, <5>2, AtLeast
      <4> QED BY <4>1, <4>2
    <3>3. v \div p \in 1 .. 9
      <4> HIDE DEF p
      <4>1. v = p * (v \div p) + (v % p) /\ v \div p \in Nat /\ v % p \in 0 .. p - 1
        BY <1>1, <1>2, Quotients
      <4> DEFINE q == v \div p
      <4> HIDE DEF q
      <4>2. q # 0
        BY <1>2, <3>1, <4>1 DEF q
      <4>3. CASE q >= 10
        <5>1. p * q >= p * 10
          BY <1>2, <4>1, <4>3, Times DEF q
        <5> QED BY <1>1, <1>2, <3>2, <4>1, <5>1 DEF q
      <4> QED BY <4>1, <4>2, <4>3 DEF q
    <3>4. (v \div p) % 10 # 0
      <4> DEFINE q == v \div p
      <4>1. q \in 1 .. 9
        BY <3>3
      <4> HIDE DEF q
      <4>2. q % 10 # 0
        BY <4>1
      <4> QED BY <4>2 DEF q
    <3> QED BY <1>5, <3>4
  <2> QED BY <1>5, <2>1, <2>2 DEF Width
<1> QED BY <1>1, <1>3, <1>4, <1>5

-----------------------------------------------------------------------------
(* A round of a print function: it writes the next character of the text   *)
(* or none, and goes on, or returns with the text written.                 *)

Wrote(text, part, p) ==
  \/ p = part /\ UNCHANGED <<lsb, thr, out, num_chars>>
  \/ \E m \in 1 .. Len(text) : /\ p = Append(part, text[m])
                               /\ write_serial(text[m])
                               /\ out' = Append(out, text[m])
                               /\ num_chars' = num_chars + 1
Goes(a, p) == \/ todo' = Tail(todo) /\ p = Text(a)
              \/ \E c : todo' = <<c>> \o Tail(todo) /\ Doing(c, a, p)
Round(a, part) == \E p : Wrote(Text(a), part, p) /\ Goes(a, p)

LEMMA ReplacedFields ==
  /\ \A r : [Str(r) EXCEPT !.s = Tail(@)] = Str(Tail(r))
  /\ \A bs, n : LET p == [k |-> "hex", bytes |-> bs, left |-> n]
                IN  [p EXCEPT !.left = @ - 1] = [k |-> "hex", bytes |-> bs, left |-> n - 1]
<1>1. ASSUME NEW r PROVE [Str(r) EXCEPT !.s = Tail(@)] = Str(Tail(r))
  <2> DEFINE t == Tail(r)
  <2>1. Str(r).s = r
    BY DEF Str
  <2> HIDE DEF t
  <2>2. [Str(r) EXCEPT !.s = t] = Str(t)
    BY DEF Str
  <2> QED BY <2>1, <2>2 DEF t
<1>2. ASSUME NEW bs, NEW n
      PROVE  LET p == [k |-> "hex", bytes |-> bs, left |-> n]
             IN  [p EXCEPT !.left = @ - 1] = [k |-> "hex", bytes |-> bs, left |-> n - 1]
  OBVIOUS
<1> QED BY <1>1, <1>2, Zenon

LEMMA StrRound ==
  ASSUME NEW S, todo \in Seq(S), todo # <<>>, NEW s \in Seq(Nat), NEW part,
         StrDoing(Head(todo), s, part), print_uart
  PROVE  Round(Str(s), part)
<1>1. PICK r \in Seq(Nat) : /\ Head(todo) = Str(r) /\ Len(r) + Len(part) = Len(s)
                            /\ \A m \in 1 .. Len(r) : r[m] = s[Len(part) + m]
                            /\ Written(part, s)
  BY DEF StrDoing
<1>2. Head(todo).s = r /\ Text(Str(s)) = s /\ \A c, p : Doing(c, Str(s), p) = StrDoing(c, s, p)
  BY <1>1, ByKind DEF Str
<1>3. Len(r) \in Nat /\ Len(part) \in Nat /\ Len(s) \in Nat
  BY <1>1, LenProperties DEF Written
<1>4. CASE r = <<>>
  <2>1. Skip(<<>>)
    BY <1>2, <1>4 DEF print_uart
  <2>2. todo' = Tail(todo) /\ UNCHANGED <<lsb, thr, out, num_chars>>
    BY <2>1, HeadTailProperties, ConcatEmptySeq DEF Skip
  <2>3. part = s
    BY <1>1, <1>3, <1>4, Complete
  <2> QED BY <1>2, <2>2, <2>3 DEF Round, Wrote, Goes
<1>5. CASE r # <<>>
  <2>1. /\ Head(r) = r[1] /\ Tail(r) \in Seq(Nat) /\ Len(Tail(r)) = Len(r) - 1
        /\ \A m \in 1 .. Len(Tail(r)) : Tail(r)[m] = r[m + 1]
        /\ Len(r) \in Nat \ {0}
    BY <1>5, HeadTailProperties, EmptySeq
  <2> DEFINE e == s[Len(part) + 1]
             p == Append(part, e)
  <2>2. Head(r) = e
    BY <1>1, <2>1
  <2>3. [Str(r) EXCEPT !.s = Tail(@)] = Str(Tail(r))
    BY ReplacedFields
  <2>4. Put(e, <<Str(Tail(r))>>)
    BY <1>1, <1>2, <1>5, <2>2, <2>3 DEF print_uart
  <2>5. /\ Len(part) + 1 \in 1 .. Len(s) /\ Len(p) = Len(part) + 1 /\ Written(p, s)
    <3>1. Len(part) < Len(s)
      BY <1>1, <1>3, <2>1
    <3> QED BY <1>1, <3>1, Extended
  <2>6. StrDoing(Str(Tail(r)), s, p)
    <3> DEFINE q == Tail(r)
    <3>1. /\ q \in Seq(Nat) /\ Len(q) = Len(r) - 1
          /\ \A m \in 1 .. Len(q) : q[m] = r[m + 1]
      BY <2>1
    <3>0. Len(r) + Len(part) = Len(s) /\ Len(p) = Len(part) + 1 /\ p \in Seq(Nat)
      BY <1>1, <2>5 DEF Written
    <3> HIDE DEF q, p
    <3>2. Len(q) + Len(p) = Len(s)
      <4>1. Len(q) = Len(r) - 1
        BY <3>1
      <4>2. Len(p) = Len(part) + 1 /\ Len(r) + Len(part) = Len(s)
        BY <3>0
      <4>3. (Len(r) - 1) + (Len(part) + 1) = Len(r) + Len(part)
        BY <1>3
      <4> QED BY <4>1, <4>2, <4>3
    <3>3. ASSUME NEW m \in 1 .. Len(q) PROVE q[m] = s[Len(p) + m]
      <4>1. m + 1 \in 1 .. Len(r) /\ Len(part) + (m + 1) = Len(p) + m
        BY <1>3, <2>1, <2>5, <3>1
      <4>2. r[m + 1] = s[Len(part) + (m + 1)]
        BY <1>1, <4>1
      <4> QED BY <3>1, <4>1, <4>2
    <3>4. StrDoing(Str(q), s, p)
      BY <2>5, <3>1, <3>2, <3>3 DEF StrDoing
    <3> QED BY <3>4 DEF q
  <2>7. Wrote(s, part, p)
    BY <2>4, <2>5 DEF Put, Wrote
  <2>8. Goes(Str(s), p)
    BY <1>2, <2>4, <2>6 DEF Put, Goes
  <2> QED BY <1>2, <2>7, <2>8 DEF Round
<1> QED BY <1>4, <1>5

LEMMA HexRound ==
  ASSUME NEW S, todo \in Seq(S), todo # <<>>, NEW bs \in Seq(0 .. 255), NEW part,
         HexDoing(Head(todo), bs, part), print_uart_addr
  PROVE  Round(Hex(bs), part)
<1> DEFINE text == HexNumeral(bs)
<1>1. PICK n \in 0 .. 2 * Len(bs) :
        /\ Head(todo) = [k |-> "hex", bytes |-> bs, left |-> n]
        /\ Len(part) = 2 * Len(bs) - n
        /\ Written(part, text)
  BY DEF HexDoing
<1>2. Text(Hex(bs)) = text /\ \A c, p : Doing(c, Hex(bs), p) = HexDoing(c, bs, p)
  BY ByKind
<1>3. /\ Len(bs) \in Nat /\ text \in Seq(Nat) /\ Len(text) = 2 * Len(bs)
      /\ \A m \in 1 .. 2 * Len(bs) :
           text[2 * Len(bs) - m + 1] = bin_to_hex(bs[(m + 1) \div 2], m % 2 = 1)
  <2>1. Plain \subseteq Nat
    BY DEF Plain
  <2> QED BY <2>1, HexNumeralIs, SeqMonotonic, LenProperties
<1> HIDE DEF text
<1>4. Head(todo).left = n /\ Head(todo).bytes = bs
  BY <1>1
<1>5. CASE n = 0
  <2>1. Skip(<<>>)
    BY <1>4, <1>5 DEF print_uart_addr
  <2>2. todo' = Tail(todo) /\ UNCHANGED <<lsb, thr, out, num_chars>>
    BY <2>1, HeadTailProperties, ConcatEmptySeq DEF Skip
  <2>3. part = text
    <3>1. Len(part) = Len(text)
      BY <1>1, <1>3, <1>5
    <3> QED BY <1>1, <1>3, <3>1, Complete
  <2> QED BY <1>2, <2>2, <2>3 DEF Round, Wrote, Goes
<1>6. CASE n # 0
  <2> DEFINE e == text[Len(part) + 1]
             p == Append(part, e)
             c == [k |-> "hex", bytes |-> bs, left |-> n - 1]
  <2>1. e = bin_to_hex(bs[(n + 1) \div 2], n % 2 = 1)
    BY <1>1, <1>3, <1>6
  <2>2. Put(e, <<c>>)
    <3>1. [Head(todo) EXCEPT !.left = @ - 1] = c
      BY <1>1, ReplacedFields, Zenon
    <3> QED BY <1>4, <1>6, <2>1, <3>1 DEF print_uart_addr
  <2>3. /\ Len(part) + 1 \in 1 .. Len(text) /\ Len(p) = Len(part) + 1 /\ Written(p, text)
    <3>1. Len(part) < Len(text)
      BY <1>1, <1>3, <1>6
    <3> QED BY <1>1, <1>3, <3>1, Extended
  <2> HIDE DEF e
  <2>4. HexDoing(c, bs, p)
    <3> HIDE DEF p
    <3>1. n - 1 \in 0 .. 2 * Len(bs) /\ Len(p) = 2 * Len(bs) - (n - 1)
      BY <1>1, <1>3, <1>6, <2>3
    <3> QED BY <2>3, <3>1 DEF HexDoing, text
  <2> HIDE DEF c
  <2>5. Wrote(text, part, p)
    BY <2>2, <2>3 DEF Put, Wrote, e
  <2>6. Goes(Hex(bs), p)
    <3> HIDE DEF p
    <3> QED BY <1>2, <2>2, <2>4 DEF Put, Goes
  <2> QED BY <1>2, <2>5, <2>6 DEF Round
<1> QED BY <1>5, <1>6

LEMMA DecRounds ==
  ASSUME NEW S, todo \in Seq(S), todo # <<>>, NEW v \in Number, NEW d \in 0 .. 10, NEW part,
         DecDoing(Head(todo), v, d, part), print_uart_dec
  PROVE  Round(Dec(v, d), part)
<1> DEFINE text == Numeral(v, d)
           w == Width(v, d)
<1>1. PICK j \in 0 .. 9 :
        /\ Head(todo) = [k |-> "dec", val |-> v % (10 * Pow10[j + 1]),
                         digits |-> IF w > j + 1 THEN j + 1 ELSE d,
                         i |-> j, pow |-> Pow10[j + 1]]
        /\ Len(part) = IF w > j + 1 THEN w - (j + 1) ELSE 0
        /\ Written(part, text)
  BY DEF DecDoing
<1>2. /\ v \in Nat /\ w \in 0 .. 10 /\ text \in Seq(Nat) /\ Len(text) = w
      /\ \A m \in 1 .. w : text[m] = 48 + ((v \div Pow10[w - m + 1]) % 10)
  <2>1. Plain \subseteq Nat
    BY DEF Plain
  <2> QED BY <2>1, NumeralIs, SeqMonotonic DEF Number
<1>3. Text(Dec(v, d)) = text /\ \A c, p : Doing(c, Dec(v, d), p) = DecDoing(c, v, d, p)
  BY ByKind
<1> DEFINE pow == Pow10[j + 1]
           x == v % (10 * pow)
           u == (v \div pow) % 10
           e == IF w > j + 1 THEN j + 1 ELSE d
           next(f) == [k |-> "dec", val |-> v % pow, digits |-> f, i |-> j - 1,
                       pow |-> Pow10[j]]
           rest(f) == IF j = 0 THEN <<>> ELSE <<next(f)>>
<1>4. pow \in Nat \ {0} /\ (j # 0 => pow = 10 * Pow10[j] /\ Pow10[j] \in Nat \ {0})
  <2>1. j + 1 \in 1 .. 10 /\ (j # 0 => j \in 1 .. 9 /\ j \in 1 .. 10)
    OBVIOUS
  <2>2. pow \in Nat \ {0}
    BY <2>1, Powers, Zenon
  <2>3. CASE j # 0
    <3>1. Pow10[j + 1] = 10 * Pow10[j] /\ Pow10[j] \in Nat \ {0}
      BY <2>1, <2>3, Powers, Zenon
    <3> QED BY <2>2, <3>1
  <2> QED BY <2>2, <2>3
<1>5. x \in Nat /\ x \div pow = u /\ x - (x \div pow) * pow = v % pow /\ u \in 0 .. 9
  <2> HIDE DEF pow
  <2>1. v \div pow \in Nat
    BY <1>2, <1>4, Quotients
  <2>2. u \in 0 .. 9
    <3> DEFINE y == v \div pow
    <3> HIDE DEF y
    <3>1. y % 10 \in 0 .. 9
      BY <2>1 DEF y
    <3> QED BY <3>1 DEF y
  <2> QED BY <1>2, <1>4, <2>2, Places
<1>6. /\ Head(todo).val = x /\ Head(todo).digits = e /\ Head(todo).i = j
      /\ Head(todo).pow = pow
  BY <1>1
<1>7. j # 0 => pow \div 10 = Pow10[j]
  <2> DEFINE r == Pow10[j]
  <2>1. j # 0 => r \in Nat /\ pow = 10 * r
    BY <1>4
  <2> HIDE DEF r, pow
  <2>2. j # 0 => pow \div 10 = r
    BY <2>1
  <2> QED BY <2>2 DEF r
<1>8. IF u # 0 \/ j < e THEN Put(bin_to_hex_table[u % 16], rest(j)) ELSE Skip(rest(e))
  <2>1. DecRound(Head(todo).i)
    BY DEF print_uart_dec
  <2>2. \A f : rest(f) = IF j = 0 THEN <<>> ELSE
                         <<[k |-> "dec", val |-> x - (x \div pow) * pow, digits |-> f,
                            i |-> j - 1, pow |-> pow \div 10]>>
    BY <1>5, <1>7
  <2> HIDE DEF pow, x, u, e, rest
  <2>3. IF x \div pow # 0 \/ j < e
        THEN Put(bin_to_hex_table[(x \div pow) % 16], rest(j)) ELSE Skip(rest(e))
    BY <1>6, <2>1, <2>2 DEF DecRound
  <2> QED BY <1>5, <2>3
<1>9. (u # 0 \/ j < e) <=> w >= j + 1
  BY PrintsHere
<1>10. ASSUME NEW p, Written(p, text), Len(p) = IF w > j THEN w - j ELSE 0, NEW f,
              f = IF w > j THEN j ELSE d, todo' = rest(f) \o Tail(todo)
       PROVE  Goes(Dec(v, d), p)
  <2>1. CASE j = 0
    <3>1. todo' = Tail(todo)
      BY <1>10, <2>1, HeadTailProperties, ConcatEmptySeq
    <3>2. p = text
      <4>1. Len(p) = Len(text)
        BY <1>2, <1>10, <2>1
      <4> QED BY <1>2, <1>10, <4>1, Complete
    <3> QED BY <1>3, <3>1, <3>2 DEF Goes
  <2>2. CASE j # 0
    <3>1. todo' = <<next(f)>> \o Tail(todo)
      BY <1>10, <2>2
    <3>2. j - 1 \in 0 .. 9 /\ (j - 1) + 1 = j
      BY <2>2
    <3>3. v % pow = v % (10 * Pow10[j])
      BY <1>4, <2>2
    <3>4. DecDoing(next(f), v, d, p)
      <4>1. next(f) = [k |-> "dec", val |-> v % (10 * Pow10[(j - 1) + 1]),
                       digits |-> IF w > (j - 1) + 1 THEN (j - 1) + 1 ELSE d,
                       i |-> j - 1, pow |-> Pow10[(j - 1) + 1]]
        BY <1>10, <3>2, <3>3
      <4>2. Len(p) = IF w > (j - 1) + 1 THEN w - ((j - 1) + 1) ELSE 0
        BY <1>10, <3>2
      <4> HIDE DEF next
      <4> QED BY <1>10, <3>2, <4>1, <4>2, Zenon DEF DecDoing
    <3> HIDE DEF next
    <3> QED BY <1>3, <3>1, <3>4 DEF Goes
  <2> QED BY <2>1, <2>2
<1>11. CASE w >= j + 1
  <2> DEFINE c == text[Len(part) + 1]
             p == Append(part, c)
  <2>1. Len(part) = w - (j + 1) /\ Len(part) + 1 = w - j /\ w - j \in 1 .. w
        /\ w - (w - j) + 1 = j + 1
    <3>1. w \in 0 .. 10 /\ Len(part) = IF w > j + 1 THEN w - (j + 1) ELSE 0
      BY <1>1, <1>2
    <3> HIDE DEF w
    <3> QED BY <1>11, <3>1
  <2>2. c = 48 + u
    BY <1>2, <2>1
  <2>3. bin_to_hex_table[u % 16] = c
    <3> HIDE DEF u, c
    <3>1. u % 16 = u /\ u \in 0 .. 15 /\ u < 10
      BY <1>5
    <3> QED BY <2>2, <3>1, HexDigits
  <2>4. Put(c, rest(j))
    <3> HIDE DEF rest, c, u, e
    <3> QED BY <1>8, <1>9, <1>11, <2>3
  <2>5. Len(part) + 1 \in 1 .. Len(text) /\ Len(p) = Len(part) + 1 /\ Written(p, text)
    <3>1. Len(part) < Len(text)
      BY <1>2, <2>1
    <3> QED BY <1>1, <1>2, <3>1, Extended
  <2> HIDE DEF rest, c
  <2>6. Wrote(text, part, p)
    BY <2>4, <2>5 DEF Put, Wrote, c
  <2>7. Goes(Dec(v, d), p)
    <3> HIDE DEF p
    <3>1. Len(p) = (IF w > j THEN w - j ELSE 0) /\ j = (IF w > j THEN j ELSE d)
      <4>1. w \in 0 .. 10 /\ Len(p) = w - j
        BY <1>2, <2>1, <2>5
      <4> HIDE DEF w
      <4> QED BY <1>11, <4>1
    <3> QED BY <1>10, <2>4, <2>5, <3>1 DEF Put
  <2> QED BY <1>3, <2>6, <2>7 DEF Round
<1>12. CASE w < j + 1
  <2>1. Skip(rest(e)) /\ e = d
    <3>1. e = d /\ ~(w >= j + 1)
      BY <1>2, <1>12
    <3> HIDE DEF rest, u, e
    <3> QED BY <1>8, <1>9, <3>1
  <2>2. Len(part) = (IF w > j THEN w - j ELSE 0) /\ e = (IF w > j THEN j ELSE d)
    BY <1>1, <1>2, <1>12, <2>1
  <2> HIDE DEF rest, e
  <2>3. Goes(Dec(v, d), part)
    BY <1>1, <1>10, <2>1, <2>2 DEF Skip
  <2> QED BY <1>3, <2>1, <2>3 DEF Round, Wrote, Skip
<1> QED BY <1>2, <1>11, <1>12

-----------------------------------------------------------------------------
(* A list A of calls that print, made one after the other; P[k] is the     *)
(* text of those before the k-th.                                          *)
IsScript(A, P) == /\ A \in Seq(Printable)
                  /\ \A k \in 1 .. Len(A) + 1 : P[k] \in Seq(Nat)
                  /\ \A k \in 1 .. Len(A) : P[k + 1] = P[k] \o Text(A[k])

(* The k-th call is being made and part of its text written. *)
At(A, P, t, o, k, part) ==
  /\ k \in 1 .. Len(A) + 1 /\ o = P[k] \o part
  /\ IF k = Len(A) + 1
     THEN t = <<>> /\ part = <<>>
     ELSE \E c : t = <<c>> \o SubSeq(A, k + 1, Len(A)) /\ Doing(c, A[k], part)

LEMMA Pushed ==
  ASSUME NEW S, NEW s \in Seq(S), NEW c
  PROVE  /\ <<c>> \o s # <<>> /\ <<c>> \o s \in Seq(S \cup {c})
         /\ Head(<<c>> \o s) = c /\ Tail(<<c>> \o s) = s
<1> DEFINE T == S \cup {c}
           t == <<c>> \o s
<1>1. s \in Seq(T) /\ <<c>> \in Seq(T) /\ Len(s) \in Nat /\ Len(<<c>>) = 1 /\ <<c>>[1] = c
  <2>1. S \subseteq T /\ c \in T
    OBVIOUS
  <2>2. s \in Seq(T)
    BY <2>1, SeqMonotonic
  <2> QED BY <2>1, <2>2, LenProperties
<1>2. /\ t \in Seq(T) /\ Len(t) = 1 + Len(s)
      /\ \A i \in 1 .. 1 + Len(s) : t[i] = IF i <= 1 THEN <<c>>[i] ELSE s[i - 1]
  <2> HIDE DEF T
  <2> QED BY <1>1, ConcatProperties
<1> HIDE DEF t, T
<1>3. t # <<>> /\ t[1] = c
  BY <1>1, <1>2
<1>4. Head(t) = c
  BY <1>2, <1>3
<1>5. /\ Tail(t) \in Seq(T) /\ Len(Tail(t)) = Len(s)
      /\ \A i \in 1 .. Len(Tail(t)) : Tail(t)[i] = t[i + 1]
  <2>1. Len(Tail(t)) = Len(t) - 1
    BY <1>2, <1>3, HeadTailProperties
  <2> QED BY <1>1, <1>2, <1>3, <2>1, HeadTailProperties
<1>6. ASSUME NEW i \in 1 .. Len(s) PROVE t[i + 1] = s[i]
  <2>1. i + 1 \in 1 .. 1 + Len(s) /\ ~(i + 1 <= 1) /\ (i + 1) - 1 = i
    BY <1>1
  <2> QED BY <1>2, <2>1
<1>7. Tail(t) = s
  <2> DEFINE u == Tail(t)
  <2>1. u \in Seq(T) /\ Len(u) = Len(s) /\ \A i \in 1 .. Len(s) : u[i] = s[i]
    BY <1>5, <1>6
  <2> HIDE DEF u
  <2>2. u = s
    BY <1>1, <2>1, SeqEqual
  <2> QED BY <2>2 DEF u
<1> QED BY <1>2, <1>3, <1>4, <1>7 DEF t, T

LEMMA CallBegins ==
  ASSUME NEW A, NEW P, IsScript(A, P), NEW k \in 1 .. Len(A) + 1
  PROVE  At(A, P, SubSeq(A, k, Len(A)), P[k], k, <<>>)
<1>1. A \in Seq(Printable) /\ Len(A) \in Nat /\ P[k] \in Seq(Nat)
  BY LenProperties DEF IsScript
<1>2. P[k] = P[k] \o <<>>
  BY <1>1, ConcatEmptySeq
<1>3. CASE k = Len(A) + 1
  <2>1. k \in Int /\ Len(A) \in Int /\ Len(A) < k
    BY <1>1, <1>3
  <2>2. SubSeq(A, k, Len(A)) = <<>>
    BY <2>1, SubSeqEmpty
  <2> QED BY <1>2, <1>3, <2>2 DEF At
<1>4. CASE k # Len(A) + 1
  <2>1. k \in 1 .. Len(A) /\ Len(A) \in k .. Len(A)
    BY <1>1, <1>4
  <2>2. SubSeq(A, k, Len(A)) = <<A[k]>> \o SubSeq(A, k + 1, Len(A))
    BY <1>1, <2>1, SubSeqRecursiveFirst
  <2>3. A[k] \in Printable
    BY <1>1, <2>1, ElementOfSeq
  <2>4. Doing(A[k], A[k], <<>>)
    BY <2>3, Begins
  <2> QED BY <1>2, <1>4, <2>2, <2>4 DEF At
<1> QED BY <1>3, <1>4

LEMMA CallRound ==
  ASSUME NEW S, todo \in Seq(S), todo # <<>>, NEW a \in Printable, NEW part,
         Doing(Head(todo), a, part),
         print_uart \/ BackUp \/ print_uart_dec \/ print_uart_addr
  PROVE  Round(a, part)
<1> DEFINE c == Head(todo)
<1>1. /\ print_uart => c.k = "str"
      /\ BackUp => c.k = "erase"
      /\ print_uart_dec => c.k = "dec"
      /\ print_uart_addr => c.k = "hex"
  BY DEF print_uart, BackUp, print_uart_dec, print_uart_addr
<1>2. ASSUME NEW s \in Seq(Nat), a = Str(s) PROVE Round(a, part)
  <2>1. StrDoing(c, s, part)
    BY <1>2, ByKind
  <2>2. c.k = "str"
    BY <2>1 DEF StrDoing, Str
  <2> QED BY <1>1, <1>2, <2>1, <2>2, StrRound
<1>3. ASSUME NEW v \in Number, NEW d \in 0 .. 10, a = Dec(v, d) PROVE Round(a, part)
  <2>1. DecDoing(c, v, d, part)
    BY <1>3, ByKind
  <2>2. c.k = "dec"
    BY <2>1 DEF DecDoing
  <2> QED BY <1>1, <1>3, <2>1, <2>2, DecRounds
<1>4. ASSUME NEW bs \in Seq(0 .. 255), a = Hex(bs) PROVE Round(a, part)
  <2>1. HexDoing(c, bs, part)
    BY <1>4, ByKind
  <2>2. c.k = "hex"
    BY <2>1 DEF HexDoing
  <2> QED BY <1>1, <1>4, <2>1, <2>2, HexRound
<1> QED BY <1>2, <1>3, <1>4 DEF Printable

LEMMA DoingWritten ==
  ASSUME NEW a \in Printable, NEW c, NEW part, Doing(c, a, part)
  PROVE  Written(part, Text(a)) /\ part \in Seq(Nat)
<1>1. ASSUME NEW s \in Seq(Nat), a = Str(s) PROVE Written(part, Text(a))
  <2>1. StrDoing(c, s, part) /\ Text(a) = s
    BY <1>1, ByKind
  <2> QED BY <2>1 DEF StrDoing
<1>2. ASSUME NEW v \in Number, NEW d \in 0 .. 10, a = Dec(v, d) PROVE Written(part, Text(a))
  <2>1. DecDoing(c, v, d, part) /\ Text(a) = Numeral(v, d)
    BY <1>2, ByKind
  <2> QED BY <2>1 DEF DecDoing
<1>3. ASSUME NEW bs \in Seq(0 .. 255), a = Hex(bs) PROVE Written(part, Text(a))
  <2>1. HexDoing(c, bs, part) /\ Text(a) = HexNumeral(bs)
    BY <1>3, ByKind
  <2> QED BY <2>1 DEF HexDoing
<1>4. Written(part, Text(a))
  BY <1>1, <1>2, <1>3 DEF Printable
<1> QED BY <1>4 DEF Written

LEMMA AtWritten ==
  ASSUME NEW A, NEW P, IsScript(A, P), NEW t, NEW o, NEW k \in 1 .. Len(A), NEW part,
         At(A, P, t, o, k, part)
  PROVE  Written(part, Text(A[k]))
<1>1. A \in Seq(Printable) /\ k # Len(A) + 1
  BY LenProperties DEF IsScript
<1>2. PICK c : Doing(c, A[k], part)
  BY <1>1 DEF At
<1>3. A[k] \in Printable
  BY <1>1, ElementOfSeq
<1> QED BY <1>2, <1>3, DoingWritten

(* When nothing is left to be done, every call has been made. *)
LEMMA Finished ==
  ASSUME NEW A, NEW P, IsScript(A, P), NEW t, t = <<>>, NEW o, NEW k, NEW part,
         At(A, P, t, o, k, part)
  PROVE  k = Len(A) + 1 /\ part = <<>>
<1>1. CASE k # Len(A) + 1
  <2>1. PICK c : <<>> = <<c>> \o SubSeq(A, k + 1, Len(A))
    BY <1>1 DEF At
  <2>2. A \in Seq(Printable) /\ Len(A) \in Nat /\ k \in 1 .. Len(A) + 1
    BY LenProperties DEF IsScript, At
  <2>3. SubSeq(A, k + 1, Len(A)) \in Seq(Printable)
    <3>1. \A i \in k + 1 .. Len(A) : A[i] \in Printable
      BY <2>2, ElementOfSeq
    <3>2. k + 1 \in Int /\ Len(A) \in Int
      BY <2>2
    <3> QED BY <3>1, <3>2, SubSeqProperties
  <2> QED BY <2>1, <2>3, Pushed
<1> QED BY <1>1 DEF At

(* A step of the driver is a round of the k-th call. *)
LEMMA ScriptStep ==
  ASSUME NEW A, NEW P, IsScript(A, P), NEW k, NEW part,
         At(A, P, todo, out, k, part), todo # <<>>,
         print_uart \/ BackUp \/ print_uart_dec \/ print_uart_addr
  PROVE  /\ k \in 1 .. Len(A)
         /\ \E p : /\ Wrote(Text(A[k]), part, p)
                   /\ \/ p = Text(A[k]) /\ At(A, P, todo', out', k + 1, <<>>)
                      \/ Written(p, Text(A[k])) /\ At(A, P, todo', out', k, p)
<1>1. A \in Seq(Printable) /\ Len(A) \in Nat /\ k \in 1 .. Len(A)
  BY LenProperties DEF IsScript, At
<1>2. PICK c : todo = <<c>> \o SubSeq(A, k + 1, Len(A)) /\ Doing(c, A[k], part)
  BY <1>1 DEF At
<1>3. SubSeq(A, k + 1, Len(A)) \in Seq(Printable)
  <2>1. \A i \in k + 1 .. Len(A) : A[i] \in Printable
    BY <1>1, ElementOfSeq
  <2>2. k + 1 \in Int /\ Len(A) \in Int
    BY <1>1
  <2> QED BY <2>1, <2>2, SubSeqProperties
<1>4. /\ todo \in Seq(Printable \cup {c}) /\ Head(todo) = c
      /\ Tail(todo) = SubSeq(A, k + 1, Len(A))
  BY <1>2, <1>3, Pushed
<1>5. A[k] \in Printable /\ Text(A[k]) \in Seq(Nat) /\ P[k] \in Seq(Nat)
  BY <1>1, ElementOfSeq, Begins DEF IsScript
<1>6. Round(A[k], part)
  BY <1>2, <1>4, <1>5, CallRound
<1>7. PICK p : Wrote(Text(A[k]), part, p) /\ Goes(A[k], p)
  BY <1>6 DEF Round
<1>8. part \in Seq(Nat) /\ out = P[k] \o part
  BY <1>2, <1>5, DoingWritten DEF At
<1>9. out' = P[k] \o p
  <2>1. CASE p = part /\ UNCHANGED <<lsb, thr, out, num_chars>>
    BY <1>8, <2>1
  <2>2. ASSUME NEW m \in 1 .. Len(Text(A[k])), p = Append(part, Text(A[k])[m]),
               out' = Append(out, Text(A[k])[m])
        PROVE  out' = P[k] \o p
    <3> DEFINE x == Text(A[k])[m]
    <3>1. x \in Nat
      BY <1>5, ElementOfSeq
    <3>2. p = Append(part, x) /\ out' = Append(out, x)
      BY <2>2
    <3> HIDE DEF x
    <3>3. P[k] \o Append(part, x) = Append(P[k] \o part, x)
      <4> DEFINE a == P[k]
      <4>1. a \in Seq(Nat) /\ part \in Seq(Nat)
        BY <1>5, <1>8
      <4> HIDE DEF a
      <4>2. a \o Append(part, x) = Append(a \o part, x)
        BY <3>1, <4>1, AtEnd
      <4> QED BY <4>2 DEF a
    <3> QED BY <1>8, <3>2, <3>3
  <2> QED BY <1>7, <2>1, <2>2 DEF Wrote
<1>10. CASE todo' = Tail(todo) /\ p = Text(A[k])
  <2>1. out' = P[k + 1] /\ k + 1 \in 1 .. Len(A) + 1
    <3>1. P[k + 1] = P[k] \o Text(A[k])
      BY <1>1 DEF IsScript
    <3> QED BY <1>1, <1>9, <1>10, <3>1
  <2>2. At(A, P, todo', out', k + 1, <<>>)
    BY <1>4, <1>10, <2>1, CallBegins
  <2> QED BY <1>1, <1>7, <1>10, <2>2
<1>11. ASSUME NEW e, todo' = <<e>> \o Tail(todo), Doing(e, A[k], p)
       PROVE  Written(p, Text(A[k])) /\ At(A, P, todo', out', k, p)
  <2>1. Written(p, Text(A[k]))
    BY <1>5, <1>11, DoingWritten
  <2>2. At(A, P, todo', out', k, p)
    BY <1>1, <1>4, <1>9, <1>11 DEF At
  <2> QED BY <2>1, <2>2
<1> QED BY <1>1, <1>7, <1>10, <1>11 DEF Goes

(* The lists the driver goes through: a number on a line of its own, the   *)
(* end of a line, and the progress line of block b of n.                   *)
L == <<Letter>>
Prog(b, n) == L \o Numeral(b, 1) \o L \o Numeral(n, 1) \o L
                \o Numeral((b * 100) \div n, 1) \o L

PrintCalls(a) == <<a, Str(CrLf)>>
PrintTexts(a) == <<<<>>, Text(a), Text(a) \o CrLf>>
EndCalls == <<Str(CrLf)>>
EndTexts(o) == <<o, o \o CrLf>>
LineCalls(b, n) == <<Str(L), Dec(b, 1), Str(L), Dec(n, 1), Str(L), Dec((b * 100) \div n, 1), Str(L)>>
LineTexts(b, n) ==
  <<<<>>, L, L \o Numeral(b, 1), L \o Numeral(b, 1) \o L,
    L \o Numeral(b, 1) \o L \o Numeral(n, 1),
    L \o Numeral(b, 1) \o L \o Numeral(n, 1) \o L,
    L \o Numeral(b, 1) \o L \o Numeral(n, 1) \o L \o Numeral((b * 100) \div n, 1),
    Prog(b, n)>>

LEMMA LineEnds == /\ CrLf \in Seq(Nat) /\ Len(CrLf) = 2 /\ CrLf[1] = 13 /\ CrLf[2] = 10
                  /\ Str(CrLf) \in Printable /\ Text(Str(CrLf)) = CrLf
<1>1. CrLf \in Seq(Nat) /\ Len(CrLf) = 2 /\ CrLf[1] = 13 /\ CrLf[2] = 10
  BY DEF CrLf
<1> QED BY <1>1, ByKind DEF Printable

LEMMA PrintScript ==
  ASSUME NEW a \in Printable PROVE IsScript(PrintCalls(a), PrintTexts(a))
<1> DEFINE t == Text(a)
           s == Str(CrLf)
           z == t \o CrLf
           A == <<a, s>>
           P == <<<<>>, t, z>>
<1>1. t \in Seq(Nat) /\ s \in Printable /\ Text(s) = CrLf /\ <<>> \in Seq(Nat) /\ <<>> \o t = t
  BY Begins, LineEnds, ConcatEmptySeq, EmptySeq
<1>2. z \in Seq(Nat)
  BY <1>1, LineEnds, ConcatProperties
<1>3. t \o Text(s) = z
  BY <1>1
<1> HIDE DEF t, s, z
<1>4. A \in Seq(Printable) /\ Len(A) = 2 /\ A[1] = a /\ A[2] = s
  BY <1>1
<1>5. P[1] = <<>> /\ P[2] = t /\ P[3] = z
  OBVIOUS
<1> HIDE DEF A, P
<1>6. \A k \in 1 .. 3 : P[k] \in Seq(Nat)
  <2>1. 1 .. 3 = {1, 2, 3}
    OBVIOUS
  <2>2. P[1] \in Seq(Nat) /\ P[2] \in Seq(Nat) /\ P[3] \in Seq(Nat)
    BY <1>1, <1>2, <1>5, Zenon
  <2> QED BY <2>1, <2>2, Zenon
<1>7. P[1 + 1] = P[1] \o Text(A[1]) /\ P[2 + 1] = P[2] \o Text(A[2])
  BY <1>1, <1>3, <1>4, <1>5 DEF t
<1>8. \A k \in 1 .. 2 : P[k + 1] = P[k] \o Text(A[k])
  <2>1. 1 .. 2 = {1, 2}
    OBVIOUS
  <2> QED BY <1>7, <2>1, Zenon
<1>9. IsScript(A, P)
  BY <1>4, <1>6, <1>8 DEF IsScript
<1> QED BY <1>9 DEF A, P, t, s, z, PrintCalls, PrintTexts

LEMMA EndScript ==
  ASSUME NEW o \in Seq(Nat) PROVE IsScript(EndCalls, EndTexts(o))
<1> DEFINE s == Str(CrLf)
           z == o \o CrLf
           A == <<s>>
           P == <<o, z>>
<1>1. s \in Printable /\ Text(s) = CrLf /\ z \in Seq(Nat) /\ o \o Text(s) = z
  BY LineEnds, ConcatProperties
<1> HIDE DEF s, z
<1>2. A \in Seq(Printable) /\ Len(A) = 1 /\ A[1] = s /\ P[1] = o /\ P[2] = z
  BY <1>1
<1> HIDE DEF A, P
<1>3. \A k \in 1 .. 2 : P[k] \in Seq(Nat)
  BY <1>1, <1>2
<1>4. P[1 + 1] = P[1] \o Text(A[1])
  <2>1. 1 + 1 = 2
    OBVIOUS
  <2> QED BY <1>1, <1>2, <2>1, Zenon
<1>5. \A k \in 1 .. 1 : P[k + 1] = P[k] \o Text(A[k])
  <2>1. 1 .. 1 = {1}
    OBVIOUS
  <2> QED BY <1>4, <2>1, Zenon
<1>6. IsScript(A, P)
  BY <1>2, <1>3, <1>5 DEF IsScript
<1> QED BY <1>6 DEF A, P, s, z, EndCalls, EndTexts

(* Blocks b of a copy of n. *)
Percentage(b, n) == (b * 100) \div n

LEMMA PlainLetter == L \in Seq(Plain) /\ Len(L) = 1 /\ Plain \subseteq Nat
                     /\ Str(L) \in Printable /\ Text(Str(L)) = L
<1>1. L \in Seq(Plain) /\ Len(L) = 1 /\ Plain \subseteq Nat
  BY DEF L, Letter, Plain, Backspace
<1>2. L \in Seq(Nat)
  BY <1>1, SeqMonotonic
<1> QED BY <1>1, <1>2, ByKind DEF Printable

LEMMA PlainNumeral ==
  ASSUME NEW v \in Number
  PROVE  /\ Numeral(v, 1) \in Seq(Plain) /\ Len(Numeral(v, 1)) = Width(v, 1)
         /\ Width(v, 1) \in 0 .. 10
         /\ Dec(v, 1) \in Printable /\ Text(Dec(v, 1)) = Numeral(v, 1)
<1>1. v \in Nat /\ 1 \in 0 .. 10
  BY DEF Number
<1>2. Dec(v, 1) \in Printable
  BY <1>1 DEF Printable
<1> QED BY <1>1, <1>2, NumeralIs, ByKind

LEMMA LineScript ==
  ASSUME NEW b \in Number, NEW n \in Number, Percentage(b, n) \in Number
  PROVE  /\ IsScript(LineCalls(b, n), LineTexts(b, n))
         /\ Len(LineCalls(b, n)) = 7
         /\ LineTexts(b, n)[1] = <<>> /\ LineTexts(b, n)[8] = Prog(b, n)
         /\ Prog(b, n) \in Seq(Nat)
         /\ Len(Prog(b, n)) = 4 + Width(b, 1) + Width(n, 1) + Width(Percentage(b, n), 1)
         /\ \A k \in 1 .. 7 : Text(LineCalls(b, n)[k]) \in Seq(Plain)
<1> DEFINE q == (b * 100) \div n
           s == Str(L)
           x == Dec(b, 1)
           y == Dec(n, 1)
           z == Dec(q, 1)
           tb == Numeral(b, 1)
           tn == Numeral(n, 1)
           tq == Numeral(q, 1)
           p3 == L \o tb
           p4 == p3 \o L
           p5 == p4 \o tn
           p6 == p5 \o L
           p7 == p6 \o tq
           p8 == p7 \o L
<1>1. q \in Number
  BY DEF Percentage
<1>2. /\ s \in Printable /\ x \in Printable /\ y \in Printable /\ z \in Printable
      /\ Text(s) = L /\ Text(x) = tb /\ Text(y) = tn /\ Text(z) = tq
  BY <1>1, PlainLetter, PlainNumeral
<1>3. /\ L \in Seq(Plain) /\ tb \in Seq(Plain) /\ tn \in Seq(Plain) /\ tq \in Seq(Plain)
      /\ Len(L) = 1 /\ Len(tb) = Width(b, 1) /\ Len(tn) = Width(n, 1) /\ Len(tq) = Width(q, 1)
      /\ Width(b, 1) \in Nat /\ Width(n, 1) \in Nat /\ Width(q, 1) \in Nat
  BY <1>1, PlainLetter, PlainNumeral
<1> HIDE DEF q, s, x, y, z, tb, tn, tq
<1>4. p3 \in Seq(Plain) /\ Len(p3) = Len(L) + Len(tb)
  BY <1>3, ConcatProperties, Zenon
<1> HIDE DEF p3
<1>5. p4 \in Seq(Plain) /\ Len(p4) = Len(p3) + Len(L)
  BY <1>3, <1>4, ConcatProperties, Zenon
<1> HIDE DEF p4
<1>6. p5 \in Seq(Plain) /\ Len(p5) = Len(p4) + Len(tn)
  BY <1>3, <1>5, ConcatProperties, Zenon
<1> HIDE DEF p5
<1>7. p6 \in Seq(Plain) /\ Len(p6) = Len(p5) + Len(L)
  BY <1>3, <1>6, ConcatProperties, Zenon
<1> HIDE DEF p6
<1>8. p7 \in Seq(Plain) /\ Len(p7) = Len(p6) + Len(tq)
  BY <1>3, <1>7, ConcatProperties, Zenon
<1> HIDE DEF p7
<1>9. p8 \in Seq(Plain) /\ Len(p8) = Len(p7) + Len(L)
  BY <1>3, <1>8, ConcatProperties, Zenon
<1> HIDE DEF p8
<1>10. /\ L \in Seq(Nat) /\ p3 \in Seq(Nat) /\ p4 \in Seq(Nat) /\ p5 \in Seq(Nat)
       /\ p6 \in Seq(Nat) /\ p7 \in Seq(Nat) /\ p8 \in Seq(Nat) /\ <<>> \in Seq(Nat)
  BY <1>3, <1>4, <1>5, <1>6, <1>7, <1>8, <1>9, PlainLetter, SeqMonotonic, EmptySeq
<1>11. Len(p8) = 4 + Width(b, 1) + Width(n, 1) + Width(q, 1)
  <2> DEFINE i == Width(b, 1)
             j == Width(n, 1)
             k == Width(q, 1)
  <2>1. i \in Nat /\ j \in Nat /\ k \in Nat /\ Len(L) = 1 /\ Len(tb) = i /\ Len(tn) = j /\ Len(tq) = k
    BY <1>3
  <2> HIDE DEF i, j, k
  <2>2. Len(p3) = 1 + i
    BY <1>4, <2>1
  <2>3. Len(p4) = 2 + i
    BY <1>5, <2>1, <2>2
  <2>4. Len(p5) = 2 + i + j
    BY <1>6, <2>1, <2>3
  <2>5. Len(p6) = 3 + i + j
    BY <1>7, <2>1, <2>4
  <2>6. Len(p7) = 3 + i + j + k
    BY <1>8, <2>1, <2>5
  <2>7. Len(p8) = 4 + i + j + k
    BY <1>9, <2>1, <2>6
  <2> QED BY <2>7 DEF i, j, k
<1>12. L = <<>> \o L
  BY <1>10, ConcatEmptySeq
<1>13. /\ L = <<>> \o Text(s) /\ p3 = L \o Text(x) /\ p4 = p3 \o Text(s) /\ p5 = p4 \o Text(y)
       /\ p6 = p5 \o Text(s) /\ p7 = p6 \o Text(z) /\ p8 = p7 \o Text(s)
  BY <1>2, <1>12, Zenon DEF p3, p4, p5, p6, p7, p8
<1>14. IsScript(<<s, x, s, y, s, z, s>>, <<<<>>, L, p3, p4, p5, p6, p7, p8>>)
  <2> DEFINE A == <<s, x, s, y, s, z, s>>
             P == <<<<>>, L, p3, p4, p5, p6, p7, p8>>
  <2>1. /\ A \in Seq(Printable) /\ Len(A) = 7
        /\ A[1] = s /\ A[2] = x /\ A[3] = s /\ A[4] = y /\ A[5] = s /\ A[6] = z /\ A[7] = s
    BY <1>2
  <2>2. /\ P[1] = <<>> /\ P[2] = L /\ P[3] = p3 /\ P[4] = p4
        /\ P[5] = p5 /\ P[6] = p6 /\ P[7] = p7 /\ P[8] = p8
    OBVIOUS
  <2> HIDE DEF A, P
  <2>3. 1 .. 7 = {1, 2, 3, 4, 5, 6, 7} /\ 1 .. 7 + 1 = {1, 2, 3, 4, 5, 6, 7, 8}
        /\ 1 + 1 = 2 /\ 2 + 1 = 3 /\ 3 + 1 = 4 /\ 4 + 1 = 5 /\ 5 + 1 = 6 /\ 6 + 1 = 7 /\ 7 + 1 = 8
    OBVIOUS
  <2>4. \A k \in 1 .. 7 + 1 : P[k] \in Seq(Nat)
    BY <1>10, <2>2, <2>3, Zenon
  <2>5. \A k \in 1 .. 7 : P[k + 1] = P[k] \o Text(A[k])
    <3>1. /\ P[1 + 1] = P[1] \o Text(A[1]) /\ P[2 + 1] = P[2] \o Text(A[2])
          /\ P[3 + 1] = P[3] \o Text(A[3]) /\ P[4 + 1] = P[4] \o Text(A[4])
          /\ P[5 + 1] = P[5] \o Text(A[5]) /\ P[6 + 1] = P[6] \o Text(A[6])
          /\ P[7 + 1] = P[7] \o Text(A[7])
      BY <1>13, <2>1, <2>2, <2>3
    <3> QED BY <2>3, <3>1, Zenon
  <2>6. IsScript(A, P)
    BY <2>1, <2>4, <2>5, Zenon DEF IsScript
  <2> QED BY <2>6 DEF A, P
<1>15. LineCalls(b, n) = <<s, x, s, y, s, z, s>>
  BY DEF LineCalls, s, x, y, z, q
<1>16. Prog(b, n) = p8 /\ LineTexts(b, n) = <<<<>>, L, p3, p4, p5, p6, p7, p8>>
  BY Zenon DEF LineTexts, Prog, p3, p4, p5, p6, p7, p8, tb, tn, tq, q
<1>17. \A k \in 1 .. 7 : Text(<<s, x, s, y, s, z, s>>[k]) \in Seq(Plain)
  <2> DEFINE A == <<s, x, s, y, s, z, s>>
  <2>1. A[1] = s /\ A[2] = x /\ A[3] = s /\ A[4] = y /\ A[5] = s /\ A[6] = z /\ A[7] = s
    OBVIOUS
  <2>2. 1 .. 7 = {1, 2, 3, 4, 5, 6, 7}
    OBVIOUS
  <2> HIDE DEF A
  <2>3. \A k \in 1 .. 7 : Text(A[k]) \in Seq(Plain)
    BY <1>2, <1>3, <2>1, <2>2, Zenon
  <2> QED BY <2>3 DEF A
<1>18. Len(<<s, x, s, y, s, z, s>>) = 7
       /\ <<<<>>, L, p3, p4, p5, p6, p7, p8>>[1] = <<>>
       /\ <<<<>>, L, p3, p4, p5, p6, p7, p8>>[8] = p8
  OBVIOUS
<1>19. Width(Percentage(b, n), 1) = Width(q, 1)
  BY DEF Percentage, q
<1> QED BY <1>10, <1>14, <1>15, <1>16, <1>17, <1>18, <1>19, <1>11, Zenon

(* A greater number has no fewer digits, and a later block no shorter line. *)
LEMMA WiderThan ==
  ASSUME NEW u \in Nat, NEW v \in Nat, u <= v PROVE Width(u, 1) <= Width(v, 1)
<1> DEFINE n == Digits(u)
<1>1. n \in 0 .. 10 /\ Digits(v) \in 0 .. 10
  BY DigitsRange, Zenon
<1>2. Digits(v) >= n
  <2>1. CASE n = 0
    BY <1>1, <2>1
  <2>2. CASE n # 0
    <3>1. n \in 1 .. 10 /\ n >= n
      BY <1>1, <2>2
    <3>2. u >= Pow10[n] /\ Pow10[n] \in Nat
      BY <3>1, AtLeast, Powers
    <3>3. v >= Pow10[n]
      BY <3>2
    <3> QED BY <3>1, <3>3, AtLeast
  <2> QED BY <2>1, <2>2
<1> QED BY <1>1, <1>2 DEF Width

LEMMA QuotientMonotonic ==
  ASSUME NEW n \in Nat \ {0}, NEW a \in Nat, NEW c \in Nat, a <= c
  PROVE  a \div n <= c \div n
<1> DEFINE q == a \div n
           r == c \div n
<1>1. a = n * q + (a % n) /\ q \in Nat /\ a % n \in 0 .. n - 1
  BY Quotients
<1>2. c = n * r + (c % n) /\ r \in Nat /\ c % n \in 0 .. n - 1
  BY Quotients
<1> HIDE DEF q, r
<1>3. CASE q > r
  <2>1. r + 1 <= q /\ r + 1 \in Nat
    BY <1>1, <1>2, <1>3
  <2>2. n * (r + 1) <= n * q /\ n * q \in Nat /\ n * r \in Nat
    BY <1>1, <1>2, <2>1, Times
  <2>3. n * (r + 1) = n * r + n
    BY <1>2
  <2> QED BY <1>1, <1>2, <2>2, <2>3
<1> QED BY <1>1, <1>2, <1>3 DEF q, r

-----------------------------------------------------------------------------
(* The terminal, as it will be once it has taken the byte that waits in    *)
(* the UART's holding register.                                            *)
NewCol(c, n) == CASE c = Backspace -> n - 1 [] c = 13 -> 0 [] c = 10 -> n [] OTHER -> n + 1
NewRow(c, r, n) == CASE c = Backspace -> r [] c = 13 -> r [] c = 10 -> <<>>
                     [] OTHER -> IF n < Len(r) THEN [r EXCEPT ![n + 1] = c] ELSE Append(r, c)
VCol == IF thr = <<>> THEN col ELSE NewCol(Head(thr), col)
VRow == IF thr = <<>> THEN row ELSE NewRow(Head(thr), row, col)

LEMMA Taken == ASSUME Receive PROVE VCol' = VCol /\ VRow' = VRow /\ thr' = <<>>
<1>1. thr # <<>> /\ thr' = <<>>
  BY DEF Receive
<1>2. col' = NewCol(Head(thr), col) /\ row' = NewRow(Head(thr), row, col)
  BY DEF Receive, NewCol, NewRow, Backspace
<1> QED BY <1>1, <1>2 DEF VCol, VRow

LEMMA Sent ==
  ASSUME NEW c, write_serial(c), dlab = FALSE, UNCHANGED term
  PROVE  VCol' = NewCol(c, VCol) /\ VRow' = NewRow(c, VRow, VCol)
<1>1. thr = <<>> /\ thr' = <<c>> /\ row' = row /\ col' = col
  BY DEF write_serial, is_transmit_empty, WriteBase, term
<1>2. thr' # <<>> /\ Head(thr') = c
  BY <1>1
<1> QED BY <1>1, <1>2 DEF VCol, VRow

LEMMA Still == ASSUME UNCHANGED <<thr, row, col>> PROVE VCol' = VCol /\ VRow' = VRow
BY DEF VCol, VRow

LEMMA Cursor ==
  /\ \A c \in Plain : \A n : NewCol(c, n) = n + 1
  /\ \A n : NewCol(Backspace, n) = n - 1 /\ NewCol(13, n) = 0 /\ NewCol(10, n) = n
  /\ \A c \in Plain : \A r, n :
       NewRow(c, r, n) = IF n < Len(r) THEN [r EXCEPT ![n + 1] = c] ELSE Append(r, c)
  /\ \A r, n : NewRow(Backspace, r, n) = r /\ NewRow(13, r, n) = r /\ NewRow(10, r, n) = <<>>
BY DEF NewCol, NewRow, Plain, Backspace

(* A character leaves a line a line. *)
LEMMA OnScreen ==
  ASSUME NEW c \in Nat, c # Backspace, NEW r \in Seq(Nat), NEW n \in Nat
  PROVE  NewCol(c, n) \in Nat /\ NewRow(c, r, n) \in Seq(Nat)
<1>1. CASE c = 13
  BY <1>1, Cursor
<1>2. CASE c = 10
  <2>1. <<>> \in Seq(Nat)
    OBVIOUS
  <2> QED BY <1>2, <2>1, Cursor
<1>3. CASE c \in Plain
  <2>1. NewCol(c, n) = n + 1
    BY <1>3, Cursor
  <2>2. CASE n < Len(r)
    <3>1. NewRow(c, r, n) = [r EXCEPT ![n + 1] = c]
      BY <1>3, <2>2, Cursor
    <3>2. n + 1 \in 1 .. Len(r)
      BY <2>2, LenProperties
    <3>3. [r EXCEPT ![n + 1] = c] \in Seq(Nat)
      BY <3>2, ExceptSeq
    <3> QED BY <2>1, <3>1, <3>3
  <2>3. CASE ~(n < Len(r))
    <3>1. NewRow(c, r, n) = Append(r, c)
      BY <1>3, <2>3, Cursor
    <3> QED BY <2>1, <3>1, AppendProperties
  <2> QED BY <2>2, <2>3
<1> QED BY <1>1, <1>2, <1>3 DEF Plain

(* The line r shows the text o written over the line old. *)
Over(r, o, old) == /\ r \in Seq(Nat) /\ Len(r) = IF Len(o) > Len(old) THEN Len(o) ELSE Len(old)
                   /\ \A m \in 1 .. Len(r) : r[m] = IF m <= Len(o) THEN o[m] ELSE old[m]

LEMMA OverStep ==
  ASSUME NEW r, NEW o \in Seq(Nat), NEW old \in Seq(Nat), Over(r, o, old), NEW c \in Plain
  PROVE  Over(NewRow(c, r, Len(o)), Append(o, c), old)
<1> DEFINE n == Len(o)
           p == Append(o, c)
           s == NewRow(c, r, n)
<1>1. c \in Nat /\ n \in Nat /\ Len(old) \in Nat /\ r \in Seq(Nat) /\ Len(r) \in Nat
  BY LenProperties DEF Plain, Over
<1>2. Len(r) = IF n > Len(old) THEN n ELSE Len(old)
  BY DEF Over
<1>3. \A m \in 1 .. Len(r) : r[m] = IF m <= n THEN o[m] ELSE old[m]
  BY DEF Over
<1>4. p \in Seq(Nat) /\ Len(p) = n + 1 /\ p[n + 1] = c /\ \A m \in 1 .. n : p[m] = o[m]
  BY <1>1, AppendProperties
<1> HIDE DEF p
<1>5. CASE n < Len(r)
  <2>1. s = [r EXCEPT ![n + 1] = c]
    BY <1>5, Cursor
  <2>2. /\ s \in Seq(Nat) /\ Len(s) = Len(r) /\ s[n + 1] = c
        /\ \A m \in 1 .. Len(r) : m # n + 1 => s[m] = r[m]
    <3>1. n + 1 \in 1 .. Len(r)
      BY <1>1, <1>5
    <3> HIDE DEF s, n
    <3> QED BY <1>1, <2>1, <3>1, ExceptSeq
  <2> HIDE DEF s
  <2>3. Len(s) = IF n + 1 > Len(old) THEN n + 1 ELSE Len(old)
    BY <1>1, <1>2, <1>5, <2>2
  <2>4. ASSUME NEW m \in 1 .. Len(r) PROVE s[m] = IF m <= n + 1 THEN p[m] ELSE old[m]
    <3>1. CASE m <= n
      <4>1. m \in 1 .. n /\ m # n + 1 /\ m <= n + 1
        BY <1>1, <3>1
      <4> QED BY <1>3, <1>4, <2>2, <3>1, <4>1
    <3>2. CASE m = n + 1
      BY <1>1, <1>4, <2>2, <3>2
    <3>3. CASE m > n + 1
      <4>1. ~(m <= n) /\ m # n + 1 /\ ~(m <= n + 1)
        BY <1>1, <3>3
      <4> QED BY <1>3, <2>2, <4>1
    <3>4. m <= n \/ m = n + 1 \/ m > n + 1
      BY <1>1
    <3> QED BY <3>1, <3>2, <3>3, <3>4
  <2>5. Over(s, p, old)
    BY <1>4, <2>2, <2>3, <2>4 DEF Over
  <2> QED BY <2>5 DEF s, p
<1>6. CASE ~(n < Len(r))
  <2>1. s = Append(r, c) /\ Len(r) = n
    <3>1. s = Append(r, c)
      BY <1>6, Cursor
    <3> HIDE DEF n
    <3>2. Len(r) = n
      BY <1>1, <1>2, <1>6
    <3> QED BY <3>1, <3>2
  <2>2. /\ s \in Seq(Nat) /\ Len(s) = n + 1 /\ s[n + 1] = c
        /\ \A m \in 1 .. n : s[m] = r[m]
    <3>1. /\ Append(r, c) \in Seq(Nat) /\ Len(Append(r, c)) = Len(r) + 1
          /\ Append(r, c)[Len(r) + 1] = c
          /\ \A m \in 1 .. Len(r) : Append(r, c)[m] = r[m]
      BY <1>1, AppendProperties
    <3> HIDE DEF s, n
    <3> QED BY <2>1, <3>1
  <2> HIDE DEF s
  <2>3. n + 1 = IF n + 1 > Len(old) THEN n + 1 ELSE Len(old)
    BY <1>1, <1>2, <1>6
  <2>4. ASSUME NEW m \in 1 .. n + 1 PROVE s[m] = IF m <= n + 1 THEN p[m] ELSE old[m]
    <3>1. CASE m = n + 1
      BY <1>1, <1>4, <2>2, <3>1
    <3>2. CASE m # n + 1
      <4>1. m \in 1 .. n /\ m <= n /\ m <= n + 1
        BY <1>1, <3>2
      <4> QED BY <1>3, <1>4, <2>1, <2>2, <4>1
    <3> QED BY <3>1, <3>2
  <2>5. Over(s, p, old)
    BY <1>4, <2>2, <2>3, <2>4 DEF Over
  <2> QED BY <2>5 DEF s, p
<1> QED BY <1>5, <1>6

LEMMA OverNone == ASSUME NEW old \in Seq(Nat) PROVE Over(old, <<>>, old)
<1>1. Len(<<>>) = 0 /\ Len(old) \in Nat
  BY LenProperties
<1> QED BY <1>1 DEF Over

LEMMA OverAll ==
  ASSUME NEW r, NEW o \in Seq(Nat), NEW old \in Seq(Nat), Over(r, o, old), Len(old) <= Len(o)
  PROVE  r = o
<1>1. Len(o) \in Nat /\ Len(old) \in Nat
  BY LenProperties
<1>2. r \in Seq(Nat) /\ Len(r) = Len(o)
  BY <1>1 DEF Over
<1>3. \A m \in 1 .. Len(o) : r[m] = o[m]
  BY <1>1, <1>2 DEF Over
<1> QED BY <1>2, <1>3, SeqEqual

-----------------------------------------------------------------------------
(* The line that is on the screen before block b of n is copied. *)
Shown(b, n) == IF b = 0 THEN <<>> ELSE Prog(((b - 1) \div Period) * Period, n)

LEMMA Updates ==
  ASSUME NEW p \in Nat \ {0}, NEW b \in Nat
  PROVE  /\ (b \div p) * p \in 0 .. b
         /\ b % p = 0 => (b \div p) * p = b
         /\ b % p # 0 => b # 0 /\ b \div p = (b - 1) \div p
<1> DEFINE q == b \div p
           e == b % p
<1>1. b = p * q + e /\ q \in Nat /\ e \in 0 .. p - 1
  BY Quotients
<1> HIDE DEF q, e
<1>2. p * q \in Nat /\ q * p = p * q
  BY <1>1
<1>3. q * p \in 0 .. b
  BY <1>1, <1>2
<1>4. e = 0 => q * p = b
  BY <1>1, <1>2
<1>5. ASSUME e # 0 PROVE b # 0 /\ q = (b - 1) \div p
  <2>1. b - 1 = p * q + (e - 1) /\ e - 1 \in 0 .. p - 1 /\ b # 0
    BY <1>1, <1>2, <1>5
  <2>2. (p * q + (e - 1)) \div p = q
    BY <1>1, <2>1, Quotient
  <2> QED BY <2>1, <2>2
<1> QED BY <1>3, <1>4, <1>5 DEF q, e

LEMMA CopyNumbers ==
  ASSUME NEW n \in Sizes, NEW b \in 0 .. n
  PROVE  /\ n \in Nat \ {0} /\ b \in Nat
         /\ b \in Number /\ n \in Number /\ Percentage(b, n) \in Number
         /\ ((b * 100) % Word) \div n = (b * 100) \div n
<1>1. /\ n \in Nat \ {0} /\ b \in Nat /\ n * 100 < Word /\ Word \in Nat
      /\ b * 100 \in Nat /\ b * 100 < Word
  BY SizesAssumption, ValuesAssumption
<1>2. \A v \in Nat : v < Word => v \in Number
  <2> DEFINE w == Word
  <2>1. w \in Nat /\ w \div 10 < Pow10[10] /\ Pow10[10] \in Nat
    BY ValuesAssumption, TopPower, SMT
  <2> HIDE DEF w
  <2> DEFINE t == Pow10[10]
  <2> HIDE DEF t
  <2>2. w < 10 * t
    BY <2>1 DEF t
  <2> QED BY <2>1, <2>2 DEF Number, w, t
<1>3. Percentage(b, n) \in Nat /\ Percentage(b, n) < Word
  <2> DEFINE x == b * 100
             q == x \div n
  <2>1. x \in Nat /\ x < Word
    BY <1>1
  <2> HIDE DEF x
  <2>2. x = n * q + (x % n) /\ q \in Nat /\ x % n \in 0 .. n - 1
    BY <1>1, <2>1, Quotients
  <2> HIDE DEF q
  <2>3. q <= x
    <3>1. q * 1 <= q * n /\ q * n = n * q /\ n * q \in Nat
      BY <1>1, <2>2, Times
    <3> QED BY <1>1, <2>2, <3>1
  <2>4. q < Word
    BY <1>1, <2>1, <2>2, <2>3
  <2> QED BY <2>2, <2>4 DEF Percentage, q, x
<1>4. (b * 100) % Word = b * 100
  <2> DEFINE x == b * 100
  <2>1. x \in Nat /\ x < Word /\ Word \in Nat \ {0}
    BY <1>1
  <2> HIDE DEF x
  <2>2. x % Word = x
    BY <2>1
  <2> QED BY <2>2 DEF x
<1>5. b < Word /\ n < Word
  BY <1>1
<1> QED BY <1>1, <1>2, <1>3, <1>4, <1>5

LEMMA ShownLine ==
  ASSUME NEW n \in Sizes, NEW b \in 0 .. n
  PROVE  Prog(b, n) \in Seq(Nat) /\ Shown(b, n) \in Seq(Nat) /\ Len(Shown(b, n)) <= Len(Prog(b, n))
<1>0. Period \in Nat \ {0}
  BY SizesAssumption
<1>1. n \in Nat \ {0} /\ b \in Nat /\ b \in Number /\ n \in Number /\ Percentage(b, n) \in Number
  BY CopyNumbers
<1>2. /\ Prog(b, n) \in Seq(Nat)
      /\ Len(Prog(b, n)) = 4 + Width(b, 1) + Width(n, 1) + Width(Percentage(b, n), 1)
  BY <1>1, LineScript
<1>3. CASE b = 0
  <2>1. Shown(b, n) = <<>> /\ <<>> \in Seq(Nat) /\ Len(<<>>) = 0 /\ Len(Prog(b, n)) \in Nat
    BY <1>2, <1>3, LenProperties DEF Shown
  <2> QED BY <1>2, <2>1
<1>4. CASE b # 0
  <2> DEFINE m == ((b - 1) \div Period) * Period
  <2>1. b - 1 \in Nat
    BY <1>1, <1>4
  <2>2. m \in 0 .. b - 1
    BY <1>0, <2>1, Updates
  <2> HIDE DEF m
  <2>3. m \in 0 .. n /\ m <= b /\ m \in Nat
    BY <1>1, <2>2
  <2>4. m \in Number /\ Percentage(m, n) \in Number
    BY <2>3, CopyNumbers
  <2>5. /\ Prog(m, n) \in Seq(Nat)
        /\ Len(Prog(m, n)) = 4 + Width(m, 1) + Width(n, 1) + Width(Percentage(m, n), 1)
    BY <1>1, <2>4, LineScript
  <2>6. Percentage(m, n) <= Percentage(b, n)
    <3>1. m * 100 \in Nat /\ b * 100 \in Nat /\ m * 100 <= b * 100
      BY <1>1, <2>3
    <3> QED BY <1>1, <3>1, QuotientMonotonic DEF Percentage
  <2>7. Percentage(m, n) \in Nat /\ Percentage(b, n) \in Nat
    BY <1>1, <2>4 DEF Number
  <2>8. Width(m, 1) <= Width(b, 1) /\ Width(Percentage(m, n), 1) <= Width(Percentage(b, n), 1)
    BY <1>1, <2>3, <2>6, <2>7, WiderThan
  <2>9. /\ Width(m, 1) \in Nat /\ Width(b, 1) \in Nat /\ Width(n, 1) \in Nat
        /\ Width(Percentage(m, n), 1) \in Nat /\ Width(Percentage(b, n), 1) \in Nat
    <3>1. \A v \in Number : Width(v, 1) \in Nat
      <4>1. ASSUME NEW v \in Number PROVE Width(v, 1) \in Nat
        BY PlainNumeral
      <4> QED BY <4>1
    <3> QED BY <1>1, <2>4, <3>1
  <2>10. Len(Prog(m, n)) <= Len(Prog(b, n))
    BY <1>2, <2>5, <2>8, <2>9
  <2>11. Shown(b, n) = Prog(m, n)
    BY <1>4 DEF Shown, m
  <2> QED BY <1>2, <2>5, <2>10, <2>11
<1> QED BY <1>3, <1>4

LEMMA ShownNext ==
  ASSUME NEW n \in Sizes, NEW b \in 0 .. n - 1
  PROVE  Shown(b + 1, n) = IF b % Period = 0 THEN Prog(b, n) ELSE Shown(b, n)
<1>1. Period \in Nat \ {0} /\ b \in Nat /\ n \in Nat
  BY SizesAssumption
<1>2. b + 1 # 0 /\ (b + 1) - 1 = b
  BY <1>1
<1>3. Shown(b + 1, n) = Prog((b \div Period) * Period, n)
  BY <1>2 DEF Shown
<1>4. CASE b % Period = 0
  BY <1>1, <1>3, <1>4, Updates
<1>5. CASE b % Period # 0
  <2>1. b # 0 /\ b \div Period = (b - 1) \div Period
    BY <1>1, <1>5, Updates
  <2> QED BY <1>3, <1>5, <2>1 DEF Shown
<1> QED BY <1>4, <1>5

-----------------------------------------------------------------------------
(* The driver's invariant.  What is on the screen, and where the cursor    *)
(* stands, is known from the call that is being made.                      *)
Blank == VCol = 0 /\ VRow = <<>>

(* The n-th and last call ends the line. *)
EndsLine(n, k, part) == /\ k = n /\ Len(part) = 1 => VCol = 0
                        /\ (k = n /\ Len(part) = 2) \/ k = n + 1 => Blank

OnLine == out \in Seq(Nat) /\ VCol \in Nat /\ VRow \in Seq(Nat)
ReadyInv == upc \in {"reset", "lsb", "msb", "lcr", "ready"} => Blank
PrintInv == upc = "print" =>
              /\ arg \in Printable /\ arg.k \in {"dec", "hex"}
              /\ \E k, part : /\ At(PrintCalls(arg), PrintTexts(arg), todo, out, k, part)
                              /\ EndsLine(2, k, part)
CopyInv == upc = "copy" =>
             /\ size \in Sizes /\ blk \in 0 .. size
             /\ VRow = Shown(blk, size) /\ VCol = Len(VRow) /\ num_chars = VCol
(* The old line is being backed over, or the new one written over it. *)
Erasing == \E n \in Nat : /\ todo = <<Erase(n)>> \o LineCalls(blk, size)
                          /\ VCol = n /\ VRow = Shown(blk, size)
Rewriting == /\ \E k, part : At(LineCalls(blk, size), LineTexts(blk, size), todo, out, k, part)
             /\ VCol = Len(out) /\ num_chars = Len(out)
             /\ Over(VRow, out, Shown(blk, size))
UpdateInv == upc = "update" =>
               /\ size \in Sizes /\ blk \in 0 .. size - 1 /\ blk % Period = 0
               /\ Erasing \/ Rewriting
EndInv == upc = "end" =>
            \E o, k, part : /\ o \in Seq(Nat) /\ At(EndCalls, EndTexts(o), todo, out, k, part)
                            /\ EndsLine(1, k, part)

ScreenInv == /\ DivisorInv /\ OnLine
             /\ ReadyInv /\ PrintInv /\ CopyInv /\ UpdateInv /\ EndInv

LEMMA ScreenStarts == IoInit => ScreenInv
<1> SUFFICES ASSUME IoInit PROVE ScreenInv
  OBVIOUS
<1>1. VCol = 0 /\ VRow = <<>> /\ out = <<>> /\ upc = "reset"
  BY DEF IoInit, UartInit, VCol, VRow
<1>2. <<>> \in Seq(Nat)
  OBVIOUS
<1>3. DivisorInv
  BY <1>1 DEF DivisorInv
<1> QED BY <1>1, <1>2, <1>3
        DEF ScreenInv, OnLine, ReadyInv, PrintInv, CopyInv, UpdateInv, EndInv, Blank

(* What is written keeps a line on the screen. *)
LEMMA Ending ==
  ASSUME DivisorInv, dlab = FALSE, OnLine, UNCHANGED term,
         NEW text \in Seq(Nat), \A m \in 1 .. Len(text) : text[m] # Backspace,
         NEW part, NEW p, Wrote(text, part, p)
  PROVE  OnLine'
<1>1. CASE p = part /\ UNCHANGED <<lsb, thr, out, num_chars>>
  BY <1>1, Still DEF OnLine, term
<1>2. ASSUME NEW m \in 1 .. Len(text), write_serial(text[m]), out' = Append(out, text[m])
      PROVE  OnLine'
  <2> DEFINE c == text[m]
  <2>1. c \in Nat /\ c # Backspace
    BY ElementOfSeq
  <2>2. VCol' = NewCol(c, VCol) /\ VRow' = NewRow(c, VRow, VCol)
    BY <1>2, Sent
  <2> HIDE DEF c
  <2>3. NewCol(c, VCol) \in Nat /\ NewRow(c, VRow, VCol) \in Seq(Nat)
    BY <2>1, OnScreen DEF OnLine
  <2>4. out' \in Seq(Nat)
    BY <1>2, <2>1, AppendProperties DEF OnLine, c
  <2> QED BY <2>2, <2>3, <2>4 DEF OnLine
<1> QED BY <1>1, <1>2 DEF Wrote

(* The two characters that end a line: the cursor goes to its beginning,   *)
(* then the next line is blank.                                            *)
LEMMA LineFeed ==
  ASSUME dlab = FALSE, UNCHANGED term, NEW n \in Nat, NEW part, NEW p,
         Written(part, CrLf), Written(p, CrLf), Wrote(CrLf, part, p), EndsLine(n, n, part)
  PROVE  EndsLine(n, n, p)' /\ (p = CrLf => EndsLine(n, n + 1, <<>>)')
<1>1. CrLf \in Seq(Nat) /\ Len(CrLf) = 2 /\ CrLf[1] = 13 /\ CrLf[2] = 10 /\ n # n + 1
  BY LineEnds
<1>2. /\ part \in Seq(Nat) /\ Len(part) \in Nat /\ p \in Seq(Nat) /\ Len(p) \in Nat
      /\ \A m \in 1 .. Len(p) : p[m] = CrLf[m]
  <2>1. part \in Seq(Nat) /\ p \in Seq(Nat) /\ \A m \in 1 .. Len(p) : p[m] = CrLf[m]
    BY DEF Written
  <2> QED BY <2>1, LenProperties
<1>3. (Len(p) = 1 => VCol' = 0) /\ (Len(p) = 2 => Blank')
  <2>1. CASE p = part /\ UNCHANGED <<lsb, thr, out, num_chars>>
    <3>1. VCol' = VCol /\ VRow' = VRow
      BY <2>1, Still DEF term
    <3> QED BY <2>1, <3>1 DEF EndsLine, Blank
  <2>2. ASSUME NEW m \in 1 .. Len(CrLf), p = Append(part, CrLf[m]), write_serial(CrLf[m])
        PROVE  (Len(p) = 1 => VCol' = 0) /\ (Len(p) = 2 => Blank')
    <3> DEFINE c == CrLf[m]
    <3>1. c \in Nat
      BY <1>1, ElementOfSeq
    <3>2. VCol' = NewCol(c, VCol) /\ VRow' = NewRow(c, VRow, VCol)
      BY <2>2, Sent
    <3>3. p = Append(part, c)
      BY <2>2
    <3> HIDE DEF c
    <3>4. Len(p) = Len(part) + 1 /\ p[Len(part) + 1] = c
      BY <1>2, <3>1, <3>3, AppendProperties
    <3>5. Len(part) + 1 \in 1 .. Len(p)
      BY <1>2, <3>4
    <3>6. c = CrLf[Len(part) + 1]
      BY <1>2, <3>4, <3>5
    <3>7. CASE Len(p) = 1
      <4>1. Len(part) + 1 = 1
        BY <3>4, <3>7
      <4>2. c = 13
        BY <1>1, <3>6, <4>1
      <4> QED BY <3>2, <3>7, <4>2, Cursor
    <3>8. CASE Len(p) = 2
      <4>1. Len(part) = 1 /\ Len(part) + 1 = 2
        <5>1. Len(part) \in Nat /\ Len(part) + 1 = 2
          BY <1>2, <3>4, <3>8, Zenon
        <5> DEFINE a == Len(part)
        <5> HIDE DEF a
        <5>2. a \in Nat /\ a + 1 = 2 => a = 1
          OBVIOUS
        <5> QED BY <5>1, <5>2 DEF a
      <4>2. c = 10 /\ VCol = 0
        BY <1>1, <3>6, <4>1 DEF EndsLine
      <4> QED BY <3>2, <3>8, <4>2, Cursor DEF Blank
    <3> QED BY <3>7, <3>8
  <2> QED BY <2>1, <2>2 DEF Wrote
<1>4. EndsLine(n, n, p)'
  BY <1>1, <1>3 DEF EndsLine
<1>5. p = CrLf => Blank'
  BY <1>1, <1>3
<1>6. Len(<<>>) = 0
  OBVIOUS
<1>7. p = CrLf => EndsLine(n, n + 1, <<>>)'
  BY <1>1, <1>5, <1>6 DEF EndsLine
<1> QED BY <1>4, <1>7

LEMMA PlainNumber ==
  ASSUME NEW a \in Printable, a.k \in {"dec", "hex"} PROVE Text(a) \in Seq(Plain)
<1>1. ASSUME NEW s \in Seq(Nat), a = Str(s) PROVE FALSE
  BY <1>1, ByKind
<1>2. ASSUME NEW v \in Number, NEW d \in 0 .. 10, a = Dec(v, d) PROVE Text(a) \in Seq(Plain)
  <2>1. v \in Nat
    BY DEF Number
  <2>2. Numeral(v, d) \in Seq(Plain)
    BY <2>1, NumeralIs
  <2> QED BY <1>2, <2>2, ByKind
<1>3. ASSUME NEW bs \in Seq(0 .. 255), a = Hex(bs) PROVE Text(a) \in Seq(Plain)
  BY <1>3, ByKind, HexNumeralIs
<1> QED BY <1>1, <1>2, <1>3 DEF Printable

LEMMA NoBackspace ==
  /\ \A text \in Seq(Plain) :
       text \in Seq(Nat) /\ \A m \in 1 .. Len(text) : text[m] \in Plain /\ text[m] # Backspace
  /\ \A m \in 1 .. Len(CrLf) : CrLf[m] # Backspace
<1>1. ASSUME NEW text \in Seq(Plain)
      PROVE  text \in Seq(Nat) /\ \A m \in 1 .. Len(text) : text[m] \in Plain /\ text[m] # Backspace
  <2>1. Plain \subseteq Nat /\ \A c \in Plain : c # Backspace
    BY DEF Plain
  <2>2. text \in Seq(Nat)
    BY <2>1, SeqMonotonic
  <2>3. \A m \in 1 .. Len(text) : text[m] \in Plain
    BY ElementOfSeq
  <2> QED BY <2>1, <2>2, <2>3
<1>2. \A m \in 1 .. Len(CrLf) : CrLf[m] # Backspace
  BY DEF CrLf, Backspace
<1> QED BY <1>1, <1>2

(* A character of a number on a line of its own, or of the line's end. *)
LEMMA PrintStep ==
  ASSUME ScreenInv, Printing, upc = "print" PROVE OnLine' /\ PrintInv'
<1> DEFINE A == PrintCalls(arg)
           P == PrintTexts(arg)
<1>1. /\ DivisorInv /\ OnLine /\ dlab = FALSE
      /\ arg \in Printable /\ arg.k \in {"dec", "hex"}
  BY DEF ScreenInv, DivisorInv, PrintInv
<1>2. PICK k, part : At(A, P, todo, out, k, part) /\ EndsLine(2, k, part)
  BY DEF ScreenInv, PrintInv
<1>3. /\ todo # <<>> /\ upc' = "print" /\ arg' = arg /\ UNCHANGED term
      /\ print_uart \/ BackUp \/ print_uart_dec \/ print_uart_addr
  BY DEF Printing
<1>4. IsScript(A, P)
  BY <1>1, PrintScript
<1>5. Len(A) = 2 /\ A[1] = arg /\ A[2] = Str(CrLf)
  BY DEF PrintCalls
<1>6. A' = A /\ P' = P
  BY <1>3 DEF PrintCalls, PrintTexts
<1> HIDE DEF A, P
<1>7. /\ k \in 1 .. Len(A)
      /\ \E p : /\ Wrote(Text(A[k]), part, p)
                /\ \/ p = Text(A[k]) /\ At(A, P, todo', out', k + 1, <<>>)
                   \/ Written(p, Text(A[k])) /\ At(A, P, todo', out', k, p)
  BY <1>2, <1>3, <1>4, ScriptStep
<1>8. PICK p : /\ Wrote(Text(A[k]), part, p)
               /\ \/ p = Text(A[k]) /\ At(A, P, todo', out', k + 1, <<>>)
                  \/ Written(p, Text(A[k])) /\ At(A, P, todo', out', k, p)
  BY <1>7
<1>9. ASSUME NEW i, NEW q, At(A, P, todo', out', i, q), EndsLine(2, i, q)' PROVE PrintInv'
  <2>1. \E j, r : At(A', P', todo', out', j, r) /\ EndsLine(2, j, r)'
    BY <1>6, <1>9
  <2> QED BY <1>1, <1>3, <2>1 DEF PrintInv, A, P
<1>10. CASE k = 1
  <2>1. Text(A[k]) \in Seq(Plain)
    BY <1>1, <1>5, <1>10, PlainNumber
  <2>2. OnLine'
    BY <1>1, <1>3, <1>8, <2>1, NoBackspace, Ending
  <2>3. EndsLine(2, 1, p)' /\ EndsLine(2, 2, <<>>)'
    BY DEF EndsLine
  <2> QED BY <1>8, <1>9, <1>10, <2>2, <2>3
<1>11. CASE k = 2
  <2>1. Text(A[k]) = CrLf /\ CrLf \in Seq(Nat)
    BY <1>5, <1>11, LineEnds
  <2>2. OnLine'
    BY <1>1, <1>3, <1>8, <2>1, NoBackspace, Ending
  <2>3. Written(p, CrLf)
    BY <1>8, <2>1 DEF Written
  <2>4. Written(part, CrLf)
    BY <1>2, <1>4, <1>7, <2>1, AtWritten
  <2>5. EndsLine(2, 2, p)' /\ (p = CrLf => EndsLine(2, 2 + 1, <<>>)')
    BY <1>1, <1>2, <1>3, <1>8, <1>11, <2>1, <2>3, <2>4, LineFeed
  <2> QED BY <1>8, <1>9, <1>11, <2>1, <2>2, <2>5
<1> QED BY <1>5, <1>7, <1>10, <1>11

(* A character of the end of the last progress line. *)
LEMMA EndStep ==
  ASSUME ScreenInv, Printing, upc = "end" PROVE OnLine' /\ EndInv'
<1> DEFINE A == EndCalls
<1>1. DivisorInv /\ OnLine /\ dlab = FALSE
  BY DEF ScreenInv, DivisorInv
<1>2. PICK o, k, part : /\ o \in Seq(Nat) /\ At(A, EndTexts(o), todo, out, k, part)
                        /\ EndsLine(1, k, part)
  BY DEF ScreenInv, EndInv
<1> DEFINE P == EndTexts(o)
<1>3. /\ todo # <<>> /\ upc' = "end" /\ UNCHANGED term
      /\ print_uart \/ BackUp \/ print_uart_dec \/ print_uart_addr
  BY DEF Printing
<1>4. IsScript(A, P)
  BY <1>2, EndScript
<1>5. Len(A) = 1 /\ A[1] = Str(CrLf)
  BY DEF EndCalls
<1> HIDE DEF A, P
<1>6. At(A, P, todo, out, k, part)
  BY <1>2 DEF P
<1>7. /\ k \in 1 .. Len(A)
      /\ \E p : /\ Wrote(Text(A[k]), part, p)
                /\ \/ p = Text(A[k]) /\ At(A, P, todo', out', k + 1, <<>>)
                   \/ Written(p, Text(A[k])) /\ At(A, P, todo', out', k, p)
  BY <1>3, <1>4, <1>6, ScriptStep
<1>8. PICK p : /\ Wrote(Text(A[k]), part, p)
               /\ \/ p = Text(A[k]) /\ At(A, P, todo', out', k + 1, <<>>)
                  \/ Written(p, Text(A[k])) /\ At(A, P, todo', out', k, p)
  BY <1>7
<1>9. k = 1 /\ Text(A[k]) = CrLf /\ CrLf \in Seq(Nat)
  <2>1. k = 1
    BY <1>5, <1>7
  <2> QED BY <1>5, <2>1, LineEnds
<1>10. OnLine'
  BY <1>1, <1>3, <1>8, <1>9, NoBackspace, Ending
<1>11. Written(p, CrLf) /\ Written(part, CrLf)
  <2>1. Written(part, CrLf)
    BY <1>4, <1>6, <1>7, <1>9, AtWritten
  <2> QED BY <1>8, <1>9, <2>1 DEF Written
<1>12. EndsLine(1, 1, p)' /\ (p = CrLf => EndsLine(1, 1 + 1, <<>>)')
  BY <1>1, <1>2, <1>3, <1>8, <1>9, <1>11, LineFeed
<1>13. \E j, r : At(A, P, todo', out', j, r) /\ EndsLine(1, j, r)'
  BY <1>8, <1>9, <1>12
<1>14. EndInv'
  BY <1>2, <1>13 DEF EndInv, A, P, EndCalls, EndTexts
<1> QED BY <1>10, <1>14

(* The calls of an update print a line. *)
LEMMA UpdateScript ==
  ASSUME NEW n \in Sizes, NEW b \in 0 .. n
  PROVE  /\ IsScript(LineCalls(b, n), LineTexts(b, n))
         /\ Len(LineCalls(b, n)) = 7
         /\ LineTexts(b, n)[1] = <<>> /\ LineTexts(b, n)[8] = Prog(b, n)
         /\ \A k \in 1 .. 7 : Text(LineCalls(b, n)[k]) \in Seq(Plain)
<1>1. b \in Number /\ n \in Number /\ Percentage(b, n) \in Number
  BY CopyNumbers
<1> QED BY <1>1, LineScript

(* A backspace, or the first call after the last one. *)
LEMMA EraseStep ==
  ASSUME ScreenInv, Printing, upc = "update", Erasing PROVE OnLine' /\ (Erasing \/ Rewriting)'
<1> DEFINE A == LineCalls(blk, size)
           P == LineTexts(blk, size)
           old == Shown(blk, size)
<1>1. OnLine /\ dlab = FALSE /\ size \in Sizes /\ blk \in 0 .. size - 1
  BY DEF ScreenInv, DivisorInv, UpdateInv
<1>2. blk \in 0 .. size
  BY <1>1, SizesAssumption
<1>3. IsScript(A, P) /\ Len(A) = 7 /\ P[1] = <<>>
  BY <1>1, <1>2, UpdateScript
<1>4. old \in Seq(Nat)
  BY <1>1, <1>2, ShownLine
<1>5. /\ todo # <<>> /\ UNCHANGED term /\ blk' = blk /\ size' = size
      /\ print_uart \/ BackUp \/ print_uart_dec \/ print_uart_addr
  BY DEF Printing, copy
<1>6. A' = A /\ P' = P /\ old' = old
  BY <1>5 DEF LineCalls, LineTexts, Shown, Prog
<1>7. PICK n \in Nat : todo = <<Erase(n)>> \o A /\ VCol = n /\ VRow = old
  BY DEF Erasing
<1>8. A \in Seq(Printable)
  BY <1>3 DEF IsScript
<1> HIDE DEF A, P, old
<1>9. Head(todo) = Erase(n) /\ Tail(todo) = A
  BY <1>7, <1>8, Pushed
<1>10. Head(todo).k = "erase" /\ Head(todo).n = n
  BY <1>9 DEF Erase
<1>11. BackUp
  BY <1>5, <1>10 DEF print_uart, print_uart_dec, print_uart_addr
<1>12. CASE n = 0
  <2>1. todo' = A /\ num_chars' = 0 /\ out' = <<>> /\ thr' = thr
    BY <1>9, <1>10, <1>11, <1>12 DEF BackUp
  <2>2. VCol' = 0 /\ VRow' = old
    BY <1>5, <1>7, <1>12, <2>1, Still DEF term
  <2>3. <<>> \in Seq(Nat) /\ Len(<<>>) = 0 /\ 0 \in Nat
    OBVIOUS
  <2>4. OnLine'
    BY <1>4, <2>1, <2>2, <2>3 DEF OnLine
  <2>5. At(A, P, todo', out', 1, <<>>)
    <3>1. 1 \in 1 .. Len(A) + 1 /\ SubSeq(A, 1, Len(A)) = A
      BY <1>3, <1>8, SubSeqFull
    <3>2. At(A, P, SubSeq(A, 1, Len(A)), P[1], 1, <<>>)
      BY <1>3, <3>1, CallBegins
    <3> QED BY <1>3, <2>1, <3>1, <3>2
  <2>6. Over(VRow', out', old)
    BY <1>4, <2>1, <2>2, OverNone
  <2>7. \E k, part : At(A', P', todo', out', k, part)
    BY <1>6, <2>5
  <2>8. Over(VRow', out', old')
    BY <1>6, <2>6
  <2>9. VCol' = Len(out') /\ num_chars' = Len(out')
    BY <2>1, <2>2, <2>3
  <2>10. Rewriting'
    BY <2>7, <2>8, <2>9 DEF Rewriting, A, P, old
  <2> QED BY <2>4, <2>10
<1>13. CASE n # 0
  <2>1. /\ write_serial(Backspace) /\ UNCHANGED out
        /\ todo' = <<[Head(todo) EXCEPT !.n = @ - 1]>> \o Tail(todo)
    BY <1>10, <1>11, <1>13 DEF BackUp
  <2>2. [Erase(n) EXCEPT !.n = @ - 1] = Erase(n - 1)
    BY DEF Erase
  <2>3. todo' = <<Erase(n - 1)>> \o A'
    BY <1>6, <1>9, <2>1, <2>2
  <2>4. VCol' = n - 1 /\ VRow' = old
    BY <1>1, <1>5, <1>7, <2>1, Sent, Cursor
  <2>5. n - 1 \in Nat
    BY <1>13
  <2>6. OnLine'
    BY <1>1, <1>4, <2>1, <2>4, <2>5 DEF OnLine
  <2>7. \E i \in Nat : todo' = <<Erase(i)>> \o A' /\ VCol' = i /\ VRow' = old'
    BY <1>6, <2>3, <2>4, <2>5
  <2>8. Erasing'
    BY <2>7 DEF Erasing, A, old
  <2> QED BY <2>6, <2>8
<1> QED BY <1>12, <1>13

(* A character of the new line, written over the old one. *)
LEMMA RewriteStep ==
  ASSUME ScreenInv, Printing, upc = "update", Rewriting PROVE OnLine' /\ Rewriting'
<1> DEFINE A == LineCalls(blk, size)
           P == LineTexts(blk, size)
           old == Shown(blk, size)
<1>1. DivisorInv /\ OnLine /\ dlab = FALSE /\ size \in Sizes /\ blk \in 0 .. size - 1
  BY DEF ScreenInv, DivisorInv, UpdateInv
<1>2. blk \in 0 .. size
  BY <1>1, SizesAssumption
<1>3. IsScript(A, P) /\ Len(A) = 7 /\ \A k \in 1 .. 7 : Text(A[k]) \in Seq(Plain)
  BY <1>1, <1>2, UpdateScript
<1>4. old \in Seq(Nat)
  BY <1>1, <1>2, ShownLine
<1>5. /\ todo # <<>> /\ UNCHANGED term /\ blk' = blk /\ size' = size
      /\ print_uart \/ BackUp \/ print_uart_dec \/ print_uart_addr
  BY DEF Printing, copy
<1>6. A' = A /\ P' = P /\ old' = old
  BY <1>5 DEF LineCalls, LineTexts, Shown, Prog
<1>7. /\ \E k, part : At(A, P, todo, out, k, part)
      /\ VCol = Len(out) /\ num_chars = Len(out) /\ Over(VRow, out, old)
  BY DEF Rewriting
<1> HIDE DEF A, P, old
<1>8. PICK k, part : At(A, P, todo, out, k, part)
  BY <1>7
<1>9. /\ k \in 1 .. Len(A)
      /\ \E p : /\ Wrote(Text(A[k]), part, p)
                /\ \/ p = Text(A[k]) /\ At(A, P, todo', out', k + 1, <<>>)
                   \/ Written(p, Text(A[k])) /\ At(A, P, todo', out', k, p)
  BY <1>3, <1>5, <1>8, ScriptStep
<1>10. PICK p : /\ Wrote(Text(A[k]), part, p)
                /\ \/ p = Text(A[k]) /\ At(A, P, todo', out', k + 1, <<>>)
                   \/ Written(p, Text(A[k])) /\ At(A, P, todo', out', k, p)
  BY <1>9
<1>11. Text(A[k]) \in Seq(Plain)
  BY <1>3, <1>9
<1>12. OnLine'
  BY <1>1, <1>5, <1>10, <1>11, NoBackspace, Ending
<1>13. \E j, r : At(A', P', todo', out', j, r)
  BY <1>6, <1>10
<1>14. VCol' = Len(out') /\ num_chars' = Len(out') /\ Over(VRow', out', old)
  <2>1. CASE UNCHANGED <<lsb, thr, out, num_chars>>
    <3>1. VCol' = VCol /\ VRow' = VRow
      BY <1>5, <2>1, Still DEF term
    <3> QED BY <1>7, <2>1, <3>1
  <2>2. ASSUME NEW m \in 1 .. Len(Text(A[k])), write_serial(Text(A[k])[m]),
               out' = Append(out, Text(A[k])[m]), num_chars' = num_chars + 1
        PROVE  VCol' = Len(out') /\ num_chars' = Len(out') /\ Over(VRow', out', old)
    <3> DEFINE c == Text(A[k])[m]
    <3>1. c \in Plain /\ c \in Nat
      BY <1>11, NoBackspace DEF Plain
    <3>2. VCol' = NewCol(c, VCol) /\ VRow' = NewRow(c, VRow, VCol)
      BY <1>1, <1>5, <2>2, Sent
    <3>3. out' = Append(out, c) /\ out \in Seq(Nat)
      BY <1>1, <2>2 DEF OnLine
    <3> HIDE DEF c
    <3>4. Len(out') = Len(out) + 1
      BY <3>1, <3>3, AppendProperties
    <3>5. VCol' = VCol + 1
      BY <3>1, <3>2, Cursor
    <3>6. Over(NewRow(c, VRow, Len(out)), Append(out, c), old)
      BY <1>4, <1>7, <3>1, <3>3, OverStep
    <3> QED BY <1>7, <2>2, <3>2, <3>3, <3>4, <3>5, <3>6
  <2> QED BY <1>10, <2>1, <2>2 DEF Wrote
<1>15. Rewriting'
  BY <1>6, <1>13, <1>14 DEF Rewriting, A, P, old
<1> QED BY <1>12, <1>15

(* A step that leaves the driver and the screen as they are. *)
LEMMA SameScreen ==
  ASSUME ScreenInv, DivisorInv', VCol' = VCol, VRow' = VRow,
         UNCHANGED <<upc, todo, arg, out, num_chars, copy>>
  PROVE  ScreenInv'
<1>1. /\ upc' = upc /\ todo' = todo /\ arg' = arg /\ out' = out /\ num_chars' = num_chars
      /\ blk' = blk /\ size' = size
  BY DEF copy
<1>2. Blank' = Blank /\ \A n, k, part : EndsLine(n, k, part)' = EndsLine(n, k, part)
  BY DEF Blank, EndsLine
<1>3. OnLine' /\ ReadyInv' /\ CopyInv'
  BY <1>1 DEF ScreenInv, OnLine, ReadyInv, CopyInv, Blank, Shown, Prog
<1>4. PrintInv'
  <2>1. PrintCalls(arg)' = PrintCalls(arg) /\ PrintTexts(arg)' = PrintTexts(arg)
    BY <1>1 DEF PrintCalls, PrintTexts
  <2> QED BY <1>1, <1>2, <2>1 DEF ScreenInv, PrintInv
<1>5. UpdateInv'
  <2>1. Erasing' = Erasing /\ Rewriting' = Rewriting
    BY <1>1 DEF Erasing, Rewriting, LineCalls, LineTexts, Shown, Prog
  <2> QED BY <1>1, <2>1 DEF ScreenInv, UpdateInv
<1>6. EndInv'
  BY <1>1, <1>2 DEF ScreenInv, EndInv
<1> QED BY <1>3, <1>4, <1>5, <1>6 DEF ScreenInv

(* A driver that is not in a call has a blank line before it. *)
LEMMA ReadyStep ==
  ASSUME ScreenInv, DivisorInv', Initialise \/ Back PROVE ScreenInv'
<1>1. <<>> \in Seq(Nat)
  OBVIOUS
<1>2. CASE Initialise
  <2>1. /\ upc \in {"reset", "lsb", "msb", "lcr"} /\ upc' \in {"lsb", "msb", "lcr", "ready"}
        /\ out' = out /\ UNCHANGED <<thr, row, col>>
    BY <1>2 DEF Initialise, init_uart, WriteBase, term, ScreenInv, DivisorInv
  <2>2. VCol' = VCol /\ VRow' = VRow
    BY <2>1, Still
  <2>3. OnLine' /\ Blank'
    BY <2>1, <2>2 DEF ScreenInv, OnLine, ReadyInv, Blank
  <2> QED BY <2>1, <2>3 DEF ScreenInv, ReadyInv, PrintInv, CopyInv, UpdateInv, EndInv
<1>3. CASE Back
  <2>1. /\ upc \in {"print", "end"} /\ todo = <<>> /\ upc' = "ready"
        /\ out' = <<>> /\ UNCHANGED <<thr, row, col>>
    BY <1>3 DEF Back, uart, term
  <2>2. VCol' = VCol /\ VRow' = VRow
    BY <2>1, Still
  <2>3. Blank
    <3>1. CASE upc = "print"
      <4>1. PICK k, part : /\ At(PrintCalls(arg), PrintTexts(arg), todo, out, k, part)
                           /\ EndsLine(2, k, part)
        BY <3>1 DEF ScreenInv, PrintInv
      <4>2. IsScript(PrintCalls(arg), PrintTexts(arg))
        BY <3>1, PrintScript DEF ScreenInv, PrintInv
      <4>3. Len(PrintCalls(arg)) = 2
        BY DEF PrintCalls
      <4>4. k = 2 + 1
        BY <2>1, <4>1, <4>2, <4>3, Finished
      <4> QED BY <4>1, <4>4 DEF EndsLine
    <3>2. CASE upc = "end"
      <4>1. PICK o, k, part : /\ o \in Seq(Nat) /\ At(EndCalls, EndTexts(o), todo, out, k, part)
                              /\ EndsLine(1, k, part)
        BY <3>2 DEF ScreenInv, EndInv
      <4>2. IsScript(EndCalls, EndTexts(o))
        BY <4>1, EndScript
      <4>3. Len(EndCalls) = 1
        BY DEF EndCalls
      <4>4. k = 1 + 1
        BY <2>1, <4>1, <4>2, <4>3, Finished
      <4> QED BY <4>1, <4>4 DEF EndsLine
    <3> QED BY <2>1, <3>1, <3>2
  <2>4. OnLine' /\ Blank'
    BY <1>1, <2>1, <2>2, <2>3 DEF ScreenInv, OnLine, Blank
  <2> QED BY <2>1, <2>4 DEF ScreenInv, ReadyInv, PrintInv, CopyInv, UpdateInv, EndInv
<1> QED BY <1>2, <1>3

LEMMA Numbers ==
  /\ \A v \in Values, d \in 0 .. 3 : Dec(v, d) \in Printable /\ Dec(v, d).k = "dec"
  /\ \A bs \in Words \cup Status : Hex(bs) \in Printable /\ Hex(bs).k = "hex"
<1>1. ASSUME NEW v \in Values, NEW d \in 0 .. 3
      PROVE  Dec(v, d) \in Printable /\ Dec(v, d).k = "dec"
  <2>1. v \in Nat /\ v < Word /\ Word \in Nat /\ d \in 0 .. 10
    BY ValuesAssumption
  <2>2. v \in Number
    <3> DEFINE w == Word
               t == Pow10[10]
    <3>1. w \in Nat /\ w \div 10 < t /\ t \in Nat
      BY ValuesAssumption, TopPower, SMT
    <3>2. v < w
      BY <2>1
    <3> HIDE DEF w, t
    <3>3. v < 10 * t
      BY <2>1, <3>1, <3>2
    <3> QED BY <2>1, <3>3 DEF Number, t
  <2>3. Dec(v, d) \in Printable
    BY <2>1, <2>2 DEF Printable
  <2> QED BY <2>3, ByKind
<1>2. ASSUME NEW bs \in Words \cup Status PROVE Hex(bs) \in Printable /\ Hex(bs).k = "hex"
  <2>1. bs \in Seq(0 .. 255)
    BY ValuesAssumption, StatusAssumption
  <2>2. Hex(bs) \in Printable
    BY <2>1 DEF Printable
  <2> QED BY <2>2, ByKind
<1> QED BY <1>1, <1>2, Zenon

(* A call begins with the first of its own calls. *)
LEMMA PrintValueStep ==
  ASSUME ScreenInv, DivisorInv', NEW p \in Printable, p.k \in {"dec", "hex"}, PrintValue(p)
  PROVE  ScreenInv'
<1>1. /\ upc' = "print" /\ arg' = p /\ out' = <<>> /\ todo' = PrintCalls(p)
      /\ UNCHANGED <<thr, row, col>>
  BY DEF PrintValue, PrintCalls, uart, term
<1>2. VCol' = VCol /\ VRow' = VRow /\ <<>> \in Seq(Nat)
  BY <1>1, Still
<1>3. OnLine'
  BY <1>1, <1>2 DEF ScreenInv, OnLine
<1> DEFINE A == PrintCalls(p)
           P == PrintTexts(p)
<1>4. IsScript(A, P) /\ A \in Seq(Printable) /\ Len(A) = 2 /\ P[1] = <<>>
  <2>1. IsScript(A, P)
    BY PrintScript
  <2> QED BY <2>1 DEF IsScript, PrintCalls, PrintTexts
<1>5. A = PrintCalls(arg)' /\ P = PrintTexts(arg)'
  BY <1>1 DEF PrintCalls, PrintTexts
<1> HIDE DEF A, P
<1>6. At(A, P, todo', out', 1, <<>>)
  <2>1. 1 \in 1 .. Len(A) + 1 /\ SubSeq(A, 1, Len(A)) = A
    BY <1>4, SubSeqFull
  <2>2. At(A, P, SubSeq(A, 1, Len(A)), P[1], 1, <<>>)
    BY <1>4, <2>1, CallBegins
  <2> QED BY <1>1, <1>4, <2>1, <2>2 DEF A
<1>7. EndsLine(2, 1, <<>>)'
  BY DEF EndsLine
<1>8. \E k, part : At(PrintCalls(arg)', PrintTexts(arg)', todo', out', k, part) /\ EndsLine(2, k, part)'
  BY <1>5, <1>6, <1>7
<1>9. PrintInv'
  BY <1>1, <1>8 DEF PrintInv
<1> QED BY <1>1, <1>3, <1>9 DEF ScreenInv, ReadyInv, CopyInv, UpdateInv, EndInv

LEMMA EndCopyStep == ASSUME ScreenInv, DivisorInv', EndCopy PROVE ScreenInv'
<1>1. upc' = "end" /\ out' = out /\ todo' = EndCalls /\ UNCHANGED <<thr, row, col>>
  BY DEF EndCopy, EndCalls, uart, term
<1>2. VCol' = VCol /\ VRow' = VRow /\ out \in Seq(Nat)
  BY <1>1, Still DEF ScreenInv, OnLine
<1>3. OnLine'
  BY <1>1, <1>2 DEF ScreenInv, OnLine
<1> DEFINE A == EndCalls
<1>4. PICK o \in Seq(Nat) : o = out
  BY <1>2
<1> DEFINE P == EndTexts(o)
<1>5. IsScript(A, P) /\ A \in Seq(Printable) /\ Len(A) = 1 /\ P[1] = o
  <2>1. IsScript(A, P)
    BY EndScript
  <2> QED BY <2>1 DEF IsScript, EndCalls, EndTexts
<1> HIDE DEF A, P
<1>6. At(A, P, todo', out', 1, <<>>)
  <2>1. 1 \in 1 .. Len(A) + 1 /\ SubSeq(A, 1, Len(A)) = A
    BY <1>5, SubSeqFull
  <2>2. At(A, P, SubSeq(A, 1, Len(A)), P[1], 1, <<>>)
    BY <1>5, <2>1, CallBegins
  <2> QED BY <1>1, <1>4, <1>5, <2>1, <2>2 DEF A
<1>7. EndsLine(1, 1, <<>>)'
  BY DEF EndsLine
<1>8. EndInv'
  BY <1>6, <1>7 DEF EndInv, A, P, EndCalls, EndTexts
<1> QED BY <1>1, <1>3, <1>8 DEF ScreenInv, ReadyInv, PrintInv, CopyInv, UpdateInv

(* sd_copy: the line on the screen is the one of the last update. *)
LEMMA StartCopyStep ==
  ASSUME ScreenInv, DivisorInv', NEW n \in Sizes, StartCopy(n) PROVE ScreenInv'
<1>1. /\ upc = "ready" /\ upc' = "copy" /\ num_chars' = 0 /\ blk' = 0 /\ size' = n
      /\ out' = out /\ UNCHANGED <<thr, row, col>>
  BY DEF StartCopy, uart, term
<1>2. VCol' = 0 /\ VRow' = <<>>
  BY <1>1, Still DEF ScreenInv, ReadyInv, Blank
<1>3. OnLine'
  BY <1>1, <1>2 DEF ScreenInv, OnLine
<1>4. 0 \in 0 .. n /\ Len(<<>>) = 0
  BY SizesAssumption
<1>5. CopyInv'
  BY <1>1, <1>2, <1>4 DEF CopyInv, Shown
<1> QED BY <1>1, <1>3, <1>5 DEF ScreenInv, ReadyInv, PrintInv, UpdateInv, EndInv

LEMMA UpdateStep == ASSUME ScreenInv, DivisorInv', Update PROVE ScreenInv'
<1>1. /\ upc = "copy" /\ blk < size /\ blk % Period = 0
      /\ upc' = "update" /\ todo' = Line(num_chars) /\ out' = out
      /\ blk' = blk /\ size' = size /\ UNCHANGED <<thr, row, col>>
  BY DEF Update, uart, term, copy
<1>2. /\ size \in Sizes /\ blk \in 0 .. size
      /\ VRow = Shown(blk, size) /\ VCol = num_chars /\ VCol \in Nat
  BY <1>1 DEF ScreenInv, CopyInv, OnLine
<1>3. VCol' = VCol /\ VRow' = VRow
  BY <1>1, Still
<1>4. OnLine'
  BY <1>1, <1>3 DEF ScreenInv, OnLine
<1>5. blk \in 0 .. size - 1
  BY <1>1, <1>2, SizesAssumption
<1>6. Line(num_chars) = <<Erase(num_chars)>> \o LineCalls(blk, size)
  <2>1. Percent = (blk * 100) \div size
    BY <1>2, CopyNumbers DEF Percent
  <2> DEFINE e == Erase(num_chars)
             s == Str(L)
             x == Dec(blk, 1)
             y == Dec(size, 1)
             z == Dec((blk * 100) \div size, 1)
  <2>2. Line(num_chars) = <<e, s, x, s, y, s, z, s>>
    BY <2>1, Zenon DEF Line, L
  <2>3. LineCalls(blk, size) = <<s, x, s, y, s, z, s>>
    BY Zenon DEF LineCalls
  <2> HIDE DEF e, s, x, y, z
  <2>4. <<e, s, x, s, y, s, z, s>> = <<e>> \o <<s, x, s, y, s, z, s>>
    OBVIOUS
  <2> QED BY <2>2, <2>3, <2>4 DEF e
<1>7. PICK n \in Nat : n = num_chars
  BY <1>2
<1>8. /\ todo' = <<Erase(n)>> \o LineCalls(blk, size)' /\ VCol' = n
      /\ VRow' = Shown(blk, size)'
  BY <1>1, <1>2, <1>3, <1>6, <1>7 DEF LineCalls, Shown, Prog
<1>9. Erasing'
  BY <1>8 DEF Erasing
<1>10. UpdateInv'
  BY <1>1, <1>2, <1>5, <1>9 DEF UpdateInv
<1> QED BY <1>1, <1>4, <1>10 DEF ScreenInv, ReadyInv, PrintInv, CopyInv, EndInv

LEMMA NextBlockStep == ASSUME ScreenInv, DivisorInv', NextBlock PROVE ScreenInv'
<1>1. /\ \/ upc = "update" /\ todo = <<>>
         \/ upc = "copy" /\ blk < size /\ blk % Period # 0
      /\ upc' = "copy" /\ blk' = blk + 1 /\ out' = out /\ num_chars' = num_chars /\ size' = size
      /\ UNCHANGED <<thr, row, col>>
  BY DEF NextBlock, uart, term
<1>2. VCol' = VCol /\ VRow' = VRow
  BY <1>1, Still
<1>3. OnLine'
  BY <1>1, <1>2 DEF ScreenInv, OnLine
<1>4. size \in Sizes /\ blk \in 0 .. size - 1
  <2>1. CASE upc = "update"
    BY <2>1 DEF ScreenInv, UpdateInv
  <2>2. CASE upc = "copy" /\ blk < size
    <3>1. size \in Sizes /\ blk \in 0 .. size
      BY <2>2 DEF ScreenInv, CopyInv
    <3> QED BY <2>2, <3>1, SizesAssumption
  <2> QED BY <1>1, <2>1, <2>2
<1>5. blk \in 0 .. size /\ blk + 1 \in 0 .. size
  BY <1>4, SizesAssumption
<1>6. VRow = Shown(blk + 1, size) /\ VCol = Len(VRow) /\ num_chars = VCol
  <2>1. CASE upc = "update" /\ todo = <<>>
    <3> DEFINE A == LineCalls(blk, size)
               P == LineTexts(blk, size)
    <3>1. blk % Period = 0 /\ (Erasing \/ Rewriting)
      BY <2>1 DEF ScreenInv, UpdateInv
    <3>2. IsScript(A, P) /\ Len(A) = 7 /\ P[8] = Prog(blk, size)
      BY <1>4, <1>5, UpdateScript
    <3>3. A \in Seq(Printable)
      BY <3>2 DEF IsScript
    <3>4. ~Erasing
      BY <2>1, <3>3, Pushed DEF Erasing
    <3>5. /\ \E k, part : At(A, P, todo, out, k, part)
          /\ VCol = Len(out) /\ num_chars = Len(out)
          /\ Over(VRow, out, Shown(blk, size))
      BY <3>1, <3>4 DEF Rewriting
    <3> HIDE DEF A, P
    <3>6. PICK k, part : At(A, P, todo, out, k, part)
      BY <3>5
    <3>7. k = 8 /\ part = <<>>
      <4>1. IsScript(A, P) /\ todo = <<>> /\ At(A, P, todo, out, k, part)
        BY <2>1, <3>2, <3>6
      <4>2. k = Len(A) + 1 /\ part = <<>>
        BY <4>1, Finished
      <4> QED BY <3>2, <4>2
    <3>8. /\ Prog(blk, size) \in Seq(Nat) /\ Shown(blk, size) \in Seq(Nat)
          /\ Len(Shown(blk, size)) <= Len(Prog(blk, size))
      BY <1>4, <1>5, ShownLine
    <3>9. out = Prog(blk, size)
      <4>1. out = P[8] \o <<>>
        BY <3>6, <3>7 DEF At
      <4> QED BY <3>2, <3>8, <4>1, ConcatEmptySeq
    <3>10. VRow = Prog(blk, size)
      BY <3>5, <3>8, <3>9, OverAll
    <3>11. Shown(blk + 1, size) = Prog(blk, size)
      BY <1>4, <3>1, ShownNext
    <3> QED BY <3>5, <3>9, <3>10, <3>11
  <2>2. CASE upc = "copy" /\ blk % Period # 0
    <3>1. VRow = Shown(blk, size) /\ VCol = Len(VRow) /\ num_chars = VCol
      BY <2>2 DEF ScreenInv, CopyInv
    <3>2. Shown(blk + 1, size) = Shown(blk, size)
      BY <1>4, <2>2, ShownNext
    <3> QED BY <3>1, <3>2
  <2> QED BY <1>1, <2>1, <2>2
<1>7. Shown(blk, size)' = Shown(blk + 1, size)
  BY <1>1 DEF Shown, Prog
<1>8. CopyInv'
  BY <1>1, <1>2, <1>4, <1>5, <1>6, <1>7 DEF CopyInv
<1> QED BY <1>1, <1>3, <1>8 DEF ScreenInv, ReadyInv, PrintInv, UpdateInv, EndInv

LEMMA ScreenStep == ScreenInv /\ [UartNext]_uvars => ScreenInv'
<1> SUFFICES ASSUME ScreenInv, [UartNext]_uvars PROVE ScreenInv'
  OBVIOUS
<1>1. DivisorInv'
  BY DivisorStep DEF ScreenInv
<1>2. CASE UNCHANGED uvars
  <2>1. UNCHANGED <<upc, todo, arg, out, num_chars, copy>> /\ UNCHANGED <<thr, row, col>>
    BY <1>2 DEF uvars, uart, term, copy
  <2> QED BY <1>1, <2>1, Still, SameScreen
<1>3. CASE Receive
  <2>1. UNCHANGED <<upc, todo, arg, out, num_chars, copy>>
    BY <1>3 DEF Receive
  <2> QED BY <1>1, <1>3, <2>1, Taken, SameScreen
<1>4. CASE Initialise \/ Back
  BY <1>1, <1>4, ReadyStep
<1>5. CASE Printing
  <2>1. upc' = upc /\ upc \in {"print", "update", "end"} /\ blk' = blk /\ size' = size
    BY <1>5 DEF Printing, copy
  <2>2. CASE upc = "print"
    <3>1. OnLine' /\ PrintInv'
      BY <1>5, <2>2, PrintStep
    <3> QED BY <1>1, <2>1, <2>2, <3>1 DEF ScreenInv, ReadyInv, CopyInv, UpdateInv, EndInv
  <2>3. CASE upc = "update"
    <3>1. size \in Sizes /\ blk \in 0 .. size - 1 /\ blk % Period = 0 /\ (Erasing \/ Rewriting)
      BY <2>3 DEF ScreenInv, UpdateInv
    <3>2. OnLine' /\ (Erasing \/ Rewriting)'
      BY <1>5, <2>3, <3>1, EraseStep, RewriteStep
    <3>3. UpdateInv'
      BY <2>1, <3>1, <3>2 DEF UpdateInv
    <3> QED BY <1>1, <2>1, <2>3, <3>2, <3>3 DEF ScreenInv, ReadyInv, PrintInv, CopyInv, EndInv
  <2>4. CASE upc = "end"
    <3>1. OnLine' /\ EndInv'
      BY <1>5, <2>4, EndStep
    <3> QED BY <1>1, <2>1, <2>4, <3>1 DEF ScreenInv, ReadyInv, PrintInv, CopyInv, UpdateInv
  <2> QED BY <2>1, <2>2, <2>3, <2>4
<1>6. ASSUME NEW v \in Values, NEW d \in 0 .. 3, PrintValue(Dec(v, d)) PROVE ScreenInv'
  BY <1>1, <1>6, Numbers, PrintValueStep
<1>7. ASSUME NEW bs \in Words \cup Status, PrintValue(Hex(bs)) PROVE ScreenInv'
  BY <1>1, <1>7, Numbers, PrintValueStep
<1>8. ASSUME NEW n \in Sizes, StartCopy(n) PROVE ScreenInv'
  BY <1>1, <1>8, StartCopyStep
<1>9. CASE Update
  BY <1>1, <1>9, UpdateStep
<1>10. CASE NextBlock
  BY <1>1, <1>10, NextBlockStep
<1>11. CASE EndCopy
  BY <1>1, <1>11, EndCopyStep
<1> QED BY <1>2, <1>3, <1>4, <1>5, <1>6, <1>7, <1>8, <1>9, <1>10, <1>11
        DEF UartNext, UartStep, UartCall

LEMMA ScreenSafe == IoSpec => []ScreenInv
<1>1. ScreenInv /\ [IoNext]_iovars => ScreenInv'
  BY UartPart, ScreenStep
<1> QED BY <1>1, ScreenStarts, PTL DEF IoSpec

(* What print_uart_dec, print_uart_addr, print_uart_int and                *)
(* print_uart_byte have written when they return is the number's numeral:  *)
(* for every 32-bit value, every number of digits asked for and every      *)
(* sequence of bytes, whatever the pace of the UART.                       *)
THEOREM NumeralsExact == IoSpec => []PrintsNumeral
<1>1. ScreenInv => PrintsNumeral
  <2> SUFFICES ASSUME ScreenInv, upc = "print", todo = <<Str(CrLf)>>
               PROVE  out = IF arg.k = "dec" THEN Numeral(arg.val, arg.digits)
                                             ELSE HexNumeral(arg.bytes)
    BY DEF PrintsNumeral
  <2> DEFINE s == Str(CrLf)
             A == <<arg, s>>
             P == PrintTexts(arg)
  <2>1. arg \in Printable /\ arg.k \in {"dec", "hex"} /\ \E k, part : At(A, P, <<s>>, out, k, part)
    BY DEF ScreenInv, PrintInv, PrintCalls
  <2>2. PICK k, part : At(A, P, <<s>>, out, k, part)
    BY <2>1
  <2>3. Text(arg) \in Seq(Nat) /\ s \in Printable /\ Text(s) = CrLf /\ P[2] = Text(arg)
    BY <2>1, Begins, LineEnds DEF PrintTexts
  <2>4. s.k = "str" /\ s.s = CrLf
    BY DEF Str
  <2> HIDE DEF s, P
  <2>5. A \in Seq(Printable) /\ Len(A) = 2 /\ A[1] = arg /\ A[2] = s
    BY <2>1, <2>3
  <2> HIDE DEF A
  <2>6. k # 3
    BY <2>2, <2>5 DEF At
  <2>7. k # 1
    <3> SUFFICES ASSUME k = 1 PROVE FALSE
      OBVIOUS
    <3>1. PICK c : <<s>> = <<c>> \o SubSeq(A, 2, 2)
      BY <2>2, <2>5 DEF At
    <3>2. SubSeq(A, 2, 2) = <<s>>
      <4>1. 2 \in 1 .. Len(A) /\ 2 \in 2 .. Len(A) /\ 2 + 1 = 3 /\ 2 < 3 /\ 2 \in Int /\ 3 \in Int
        BY <2>5
      <4>2. SubSeq(A, 2, 2) = <<A[2]>> \o SubSeq(A, 2 + 1, 2)
        BY <2>5, <4>1, SubSeqRecursiveFirst, Zenon
      <4>3. SubSeq(A, 2 + 1, 2) = <<>>
        BY <4>1, SubSeqEmpty
      <4>4. <<s>> \o <<>> = <<s>>
        OBVIOUS
      <4> QED BY <2>5, <4>2, <4>3, <4>4
    <3> QED BY <3>1, <3>2
  <2>8. k = 2
    BY <2>2, <2>5, <2>6, <2>7 DEF At
  <2>9. PICK c : <<s>> = <<c>> \o SubSeq(A, 3, 2) /\ Doing(c, s, part)
    BY <2>2, <2>5, <2>8 DEF At
  <2>10. c = s
    <3>1. SubSeq(A, 3, 2) = <<>>
      BY <2>5
    <3> QED BY <2>9, <3>1
  <2>11. part = <<>>
    <3>1. StrDoing(s, CrLf, part)
      BY <2>9, <2>10, ByKind DEF s
    <3>2. PICK r \in Seq(Nat) : s = Str(r) /\ Len(r) + Len(part) = Len(CrLf) /\ Written(part, CrLf)
      BY <3>1 DEF StrDoing
    <3>3. r = CrLf
      BY <2>4, <3>2 DEF Str
    <3>4. part \in Seq(Nat) /\ Len(part) \in Nat /\ Len(CrLf) = 2
      BY <3>2, LenProperties, LineEnds DEF Written
    <3>5. Len(part) = 0
      BY <3>2, <3>3, <3>4
    <3> QED BY <3>4, <3>5, EmptySeq
  <2>12. out = Text(arg)
    BY <2>2, <2>3, <2>8, <2>11, ConcatEmptySeq DEF At
  <2> QED BY <2>1, <2>12 DEF Text
<1> QED BY <1>1, ScreenSafe, PTL

(* Between two updates the terminal shows the progress line of the last    *)
(* one, to the last character: for every size of the copy and every period *)
(* of the updates.  No line is shorter than the one it is written over.    *)
THEOREM ScreenExact == IoSpec => []ScreenShows
<1>1. ScreenInv => ScreenShows
  <2> SUFFICES ASSUME ScreenInv, upc = "copy", thr = <<>>, blk > 0
               PROVE  row = Progress(((blk - 1) \div Period) * Period)
    BY DEF ScreenShows
  <2>1. VRow = Shown(blk, size) /\ VRow = row /\ size \in Sizes /\ blk \in 0 .. size
    BY DEF ScreenInv, CopyInv, VRow
  <2>2. blk # 0
    BY <2>1, SizesAssumption
  <2>3. Shown(blk, size) = Prog(((blk - 1) \div Period) * Period, size)
    BY <2>2 DEF Shown
  <2> QED BY <2>1, <2>3 DEF Prog, Progress, L
<1> QED BY <1>1, ScreenSafe, PTL
=============================================================================
