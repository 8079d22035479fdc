------------------------------- MODULE SpiBus -------------------------------
(***************************************************************************)
(* The SPI bus of Atmosfire, BSPI1, on which the serial flash and the FPGA *)
(* hang.  Two GPIO lines say who listens: the chip select of the flash,    *)
(* low when it is meant, and sync, which resets the FPGA's receiver while  *)
(* it is high.  Both drivers move both lines, each in its own way          *)
(* (m25pxx_flash.c: enable_cs and disable_cs; atmosfire_fpga.c), and       *)
(* neither locks the bus.                                                  *)
(*                                                                         *)
(* A byte on the bus is a symbol that says what it was sent for.           *)
(***************************************************************************)
EXTENDS Integers, Sequences

VARIABLES
  sync,          \* GPIO0.12 is high
  selected,      \* GPIO1.8 is low
  shift,         \* what the flash has received since it was selected
  heard          \* what the FPGA has received since sync was last high

busVars == <<sync, selected, shift, heard>>

BusInit == sync = FALSE /\ selected = FALSE /\ shift = << >> /\ heard = << >>

(* A slip the properties catch: the FPGA is left listening.                *)
EnableCsOnly ==
  /\ selected' = TRUE /\ UNCHANGED sync
  /\ shift' = << >> /\ UNCHANGED heard

(* enable_cs: the falling edge of the chip select starts an instruction.   *)
enable_cs ==
  /\ selected' = TRUE /\ sync' = TRUE
  /\ shift' = << >> /\ heard' = << >>

(* disable_cs; what the flash makes of its rising edge is in M25pxx.       *)
disable_cs ==
  /\ selected' = FALSE /\ sync' = FALSE
  /\ shift' = << >> /\ UNCHANGED heard

(* BSPI_WordSend, until the byte has left.                                 *)
WordSend(symbol) ==
  /\ shift' = IF selected THEN Append(shift, symbol) ELSE shift
  /\ heard' = IF sync THEN heard ELSE Append(heard, symbol)
  /\ UNCHANGED <<sync, selected>>

(* "Toggle sync" of fpga_command and fpga_data.                            *)
SyncHigh == sync' = TRUE /\ heard' = << >> /\ UNCHANGED <<selected, shift>>
SyncLow == sync' = FALSE /\ UNCHANGED <<selected, shift, heard>>

=============================================================================
