------------------------------- MODULE BootIo -------------------------------
(***************************************************************************)
(* The boot ROM's two device drivers in one program: the hart is in at     *)
(* most one call at a time, while the SPI core and the UART work on at     *)
(* their own pace.  spi_init prints the core's status after the reset and  *)
(* after clearing the FIFOs.                                               *)
(***************************************************************************)
EXTENDS SpiPort, UartPort

CONSTANT Status   \* values of the SPI core's status register, as byte sequences

ASSUME StatusAssumption == Status \subseteq Seq(0 .. 255)

iovars == <<vars, uvars>>

IoInit == Init /\ UartInit

UartFree == upc = "ready"
SpiFree == pc \in {"reset", "clear", "idle"}

(* spi_init, which reports the status it reads twice. *)
InitSpi(s) == (spi_reset \/ spi_init) /\ PrintValue(Hex(s))

IoNext ==
  \/ Exchange /\ UNCHANGED uvars
  \/ Receive /\ UNCHANGED vars
  \/ UartFree /\ \E s \in Status : InitSpi(s)
  \/ UartFree /\ (Call \/ Return) /\ UNCHANGED uvars
  \/ SpiFree /\ (UartStep \/ (pc # "clear" /\ UartCall)) /\ UNCHANGED vars

IoSpec == IoInit /\ [][IoNext]_iovars

(* The hart runs, and both devices do what they are told. *)
FairIoSpec == /\ IoSpec
              /\ WF_iovars(Exchange /\ UNCHANGED uvars)
              /\ WF_iovars(Receive /\ UNCHANGED vars)
              /\ WF_iovars(UartFree /\ Return /\ UNCHANGED uvars)
              /\ WF_iovars(SpiFree /\ UartStep /\ UNCHANGED vars)
=============================================================================
