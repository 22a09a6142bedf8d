------------------------------ MODULE SpiPort -------------------------------
(***************************************************************************)
(* The boot ROM's SPI driver (spi.c): a byte exchanged with the SD card by *)
(* spi_txrx, and up to 256 of them by spi_write_bytes, through the two     *)
(* FIFOs of a SPI core.                                                    *)
(*                                                                         *)
(* The core is external.  It takes the bytes of the transmit FIFO in       *)
(* order, at its own pace, and puts what the card sent meanwhile in the    *)
(* receive FIFO; a byte that finds a FIFO full is lost.  Whether bit 8 of  *)
(* the control register starts or holds back the transmission is left      *)
(* open: the core may move a byte before, between and after the driver's   *)
(* writes to that register, and is only assumed to move it eventually.     *)
(***************************************************************************)
EXTENDS Naturals, Sequences, SequencesExt

CONSTANTS FifoDepth,   \* 256
          Lens,        \* the lengths spi_write_bytes is called with
          MaxBytes     \* bytes sent in all

ASSUME FifoDepthAssumption == FifoDepth \in Nat \ {0}
(* A call with length 0 would wait for a byte nobody sends; sd.c makes none. *)
ASSUME LensAssumption == Lens \subseteq Nat \ {0}

VARIABLES pc,       \* where the driver is
          first,    \* number of the first byte of the call
          len,      \* the call's number of bytes
          ret,      \* what the call has received
          sent,     \* bytes written to the transmit register so far
          ss,       \* is the card selected?
          tx, rx,   \* the FIFOs: byte n of the driver, and what came for it
          lost      \* has a FIFO overflowed?

driver == <<pc, first, len, ret, sent>>
core == <<ss, tx, rx, lost>>
vars == <<driver, core>>

(* What the card's line carries while it is not selected. *)
Noise == 0

(* The FIFOs hold anything until spi_init. *)
Init == /\ pc = "reset"
        /\ first = 1 /\ len = 0 /\ ret = <<>> /\ sent = 0
        /\ ss = FALSE
        /\ tx \in SeqOf({Noise}, FifoDepth)
        /\ rx \in SeqOf({Noise}, FifoDepth)
        /\ lost = FALSE

-----------------------------------------------------------------------------
(* The core moves one byte. *)
Exchange == /\ tx # <<>>
            /\ tx' = Tail(tx)
            /\ IF Len(rx) < FifoDepth
               THEN /\ rx' = Append(rx, IF ss THEN Head(tx) ELSE Noise)
                    /\ UNCHANGED lost
               ELSE /\ lost' = TRUE
                    /\ UNCHANGED rx
            /\ UNCHANGED <<driver, ss>>

(* Bit 0 of the status register. *)
RxEmpty == rx = <<>>

(* A write to the transmit register. *)
Transmit == /\ sent' = sent + 1
            /\ IF Len(tx) < FifoDepth THEN tx' = Append(tx, sent') /\ UNCHANGED lost
                                      ELSE lost' = TRUE /\ UNCHANGED tx

(* spi_init resets the core.  What the reset leaves in the FIFOs is open. *)
spi_reset == /\ pc = "reset"
             /\ pc' = "clear"
             /\ UNCHANGED <<first, len, ret, sent, core>>

(* It clears the FIFOs and enables the core. *)
spi_init == /\ pc = "clear"
            /\ tx' = <<>> /\ rx' = <<>> /\ lost' = FALSE
            /\ pc' = "idle"
            /\ UNCHANGED <<first, len, ret, sent, ss>>

-----------------------------------------------------------------------------
(* spi_txrx: the card is selected and one byte written. *)
spi_txrx == /\ pc = "idle" /\ sent < MaxBytes
            /\ pc' = "wait_one"
            /\ ss' = TRUE
            /\ first' = sent + 1 /\ len' = 1 /\ ret' = <<>>
            /\ Transmit
            /\ UNCHANGED rx

(* while (status & 1), and the read of the receive register. *)
WaitOne == /\ pc = "wait_one"
           /\ ~RxEmpty
           /\ ret' = Append(ret, Head(rx))
           /\ rx' = Tail(rx)
           /\ pc' = "deselect"
           /\ UNCHANGED <<first, len, sent, ss, tx, lost>>

(* spi_write_bytes: a length beyond the FIFO's depth is refused with -1,   *)
(* before the card is selected.                                            *)
spi_write_bytes(n) == /\ pc = "idle" /\ sent + n <= MaxBytes
                      /\ n <= FifoDepth
                      /\ pc' = "push"
                      /\ ss' = TRUE
                      /\ first' = sent + 1 /\ len' = n /\ ret' = <<>>
                      /\ UNCHANGED <<sent, tx, rx, lost>>

(* The bytes are written one after the other. *)
Push == /\ pc = "push"
        /\ Transmit
        /\ pc' = IF sent' = first + len - 1 THEN "wait" ELSE "push"
        /\ UNCHANGED <<first, len, ret, ss, rx>>

(* The do-while loop: a first byte has come back. *)
Wait == /\ pc = "wait" /\ ~RxEmpty
        /\ pc' = "pop"
        /\ UNCHANGED <<first, len, ret, sent, core>>

(* A fault: the status is not read again for every byte. *)
Pop_unchecked ==
  /\ pc = "pop"
  /\ ret' = Append(ret, IF rx = <<>> THEN Noise ELSE Head(rx))
  /\ rx' = IF rx = <<>> THEN rx ELSE Tail(rx)
  /\ pc' = IF Len(ret') = len THEN "deselect" ELSE "pop"
  /\ UNCHANGED <<first, len, sent, ss, tx, lost>>

(* A fault: the loop waits for one byte more than were sent. *)
Pop_one_more == /\ pc = "pop" /\ ~RxEmpty
                /\ ret' = Append(ret, Head(rx))
                /\ rx' = Tail(rx)
                /\ pc' = IF Len(ret') > len THEN "deselect" ELSE "pop"
                /\ UNCHANGED <<first, len, sent, ss, tx, lost>>

(* The loop over ret: one more byte, once the FIFO is not empty. *)
Pop == /\ pc = "pop" /\ ~RxEmpty
       /\ ret' = Append(ret, Head(rx))
       /\ rx' = Tail(rx)
       /\ pc' = IF Len(ret') = len THEN "deselect" ELSE "pop"
       /\ UNCHANGED <<first, len, sent, ss, tx, lost>>

(* The card is deselected and the call returns. *)
Deselect == /\ pc = "deselect"
            /\ ss' = FALSE
            /\ pc' = "idle"
            /\ UNCHANGED <<first, len, ret, sent, tx, rx, lost>>

-----------------------------------------------------------------------------
Call == spi_txrx \/ \E n \in Lens : spi_write_bytes(n)
Return == WaitOne \/ Push \/ Wait \/ Pop \/ Deselect

Next == Exchange \/ spi_reset \/ spi_init \/ Call \/ Return

Spec == Init /\ [][Next]_vars

(* The hart runs, and the core moves the bytes it is given. *)
FairSpec == Spec /\ WF_vars(Return) /\ WF_vars(Exchange)

-----------------------------------------------------------------------------
(* The state is in its type, and a byte number in a FIFO has been sent. *)
TypeOK == /\ pc \in {"reset", "clear", "idle", "wait_one", "push", "wait", "pop", "deselect"}
          /\ first \in Nat \ {0} /\ len \in Nat /\ sent \in Nat
          /\ ret \in Seq(0 .. sent)
          /\ ss \in BOOLEAN /\ lost \in BOOLEAN
          /\ tx \in Seq(0 .. sent) /\ rx \in Seq(0 .. sent)

OwnReplies == pc = "idle" /\ len > 0 => ret = [k \in 1 .. len |-> first + k - 1]
NoneLost == pc \notin {"reset", "clear"} => ~lost

(* In a call, what has been received, what waits in the receive FIFO and   *)
(* what is still to be transmitted are, end to end, the bytes of the call  *)
(* in order; between calls both FIFOs are empty.  So the bytes a call      *)
(* returns are those that came for the bytes it sent (OwnReplies): none is *)
(* stale, missing, doubled or noise, and no FIFO overflows (NoneLost).     *)
PortInv ==
  /\ TypeOK /\ OwnReplies /\ NoneLost
  /\ pc \in {"wait_one", "push", "wait", "pop", "deselect"} =>
       ret \o rx \o tx = [k \in 1 .. sent - first + 1 |-> first + k - 1]
  /\ pc = "idle" => tx = <<>> /\ rx = <<>> /\ ~ss

(* Every call returns. *)
CallsReturn == pc \in {"wait_one", "push", "wait", "pop", "deselect"} ~> pc = "idle"
=============================================================================
