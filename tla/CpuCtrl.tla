------------------------------ MODULE CpuCtrl -------------------------------
(***************************************************************************)
(* CPUCTRL (fpga/src/cpuctrl.vhd): decodes the bytes of the serial link.   *)
(* With cpu_cmd = 1 a byte is a command that sets one output port; with    *)
(* cpu_cmd = 0 four bytes are address and data of one memory write.        *)
(* Both processes run on the slow clock and read outputs of INSPI_BUF.     *)
(***************************************************************************)
EXTENDS FpgaCommands

CONSTANTS
  Garbled,     \* bytes that a word of mixed bits may turn out to be
  PowerUp      \* what the output ports may hold before the first command

VARIABLES
  cmdstate,               \* 1 once the command of this transfer has run
  cc_state,               \* the memory-write machine ("state" in the code)
  tmpaddr, tmpdata,       \* <<low part, high part>> collected so far
  ports,                  \* the output ports that commands set
  wr_to_mem, wraddr_to_mem, data_to_mem

cpuctrlVars ==
  <<cmdstate, cc_state, tmpaddr, tmpdata, ports,
    wr_to_mem, wraddr_to_mem, data_to_mem>>

ASSUME GarbledAssumption == Garbled \subseteq Byte /\ Garbled # {}
ASSUME PowerUpAssumption == \A f \in PowerUp : f \in PortFile

CpuCtrlTypeOK ==
  /\ cmdstate \in 0 .. 1
  /\ cc_state \in 0 .. 7
  /\ tmpaddr \in Byte \X (0 .. 3)
  /\ tmpdata \in Byte \X Byte
  /\ ports \in PortFile
  /\ wr_to_mem \in 0 .. 1
  /\ wraddr_to_mem \in Byte \X (0 .. 3)
  /\ data_to_mem \in Byte \X Byte

CpuCtrlInit ==
  /\ cmdstate = 0 /\ cc_state = 0
  /\ tmpaddr = <<0, 0>> /\ tmpdata = <<0, 0>>
  /\ ports \in PowerUp
  /\ wr_to_mem = 0 /\ wraddr_to_mem = <<0, 0>> /\ data_to_mem = <<0, 0>>

(* A slip the properties catch: reset forgets to rearm the command process. *)
CpuCtrlResetKeepsCmd ==
  /\ cc_state' = 0
  /\ UNCHANGED <<cmdstate, tmpaddr, tmpdata, ports, wr_to_mem, wraddr_to_mem, data_to_mem>>

(* rst='1' returns both machines to state 0 and leaves every output alone. *)
CpuCtrlReset ==
  /\ cmdstate' = 0 /\ cc_state' = 0
  /\ UNCHANGED <<tmpaddr, tmpdata, ports, wr_to_mem, wraddr_to_mem, data_to_mem>>

(* A slip the properties catch: data bytes are taken for commands too.     *)
CmdEdgeAnyMode(op, spi_rdy, cpu_cmd) ==
  \/ cmdstate = 0 /\ spi_rdy = 1 /\ ports' = Execute(op, ports) /\ cmdstate' = 1
  \/ cmdstate = 0 /\ spi_rdy = 0 /\ UNCHANGED <<ports, cmdstate>>
  \/ cmdstate = 1 /\ cmdstate' = cpu_cmd /\ UNCHANGED ports

(* The command process: one command, then none before cpu_cmd drops or a   *)
(* reset.                                                                  *)
CmdEdge(op, spi_rdy, cpu_cmd) ==
  \/ /\ cmdstate = 0 /\ cpu_cmd = 1 /\ spi_rdy = 1
     /\ ports' = Execute(op, ports)
     /\ cmdstate' = 1
  \/ /\ cmdstate = 0 /\ ~(cpu_cmd = 1 /\ spi_rdy = 1)
     /\ UNCHANGED <<ports, cmdstate>>
  \/ /\ cmdstate = 1
     /\ cmdstate' = cpu_cmd
     /\ UNCHANGED ports

(* The memory-write process.  States 0, 2, 4, 6 take a byte, states 1, 3,  *)
(* 5 wait for spi_rdy to drop; wr_to_mem rises in state 7 and falls in 0.  *)
Take(b, spi_rdy, cpu_cmd) ==
  \/ /\ cc_state = 0
     /\ wr_to_mem' = 0
     /\ tmpdata' = <<0, 0>>
     /\ IF spi_rdy = 1 /\ cpu_cmd = 0
          THEN tmpaddr' = <<b, 0>> /\ cc_state' = 1
          ELSE tmpaddr' = <<0, 0>> /\ cc_state' = 0
  \/ /\ cc_state \in {2, 4, 6} /\ spi_rdy = 1
     /\ tmpaddr' = IF cc_state = 2 THEN <<tmpaddr[1], b % 4>> ELSE tmpaddr
     /\ tmpdata' = CASE cc_state = 4 -> <<b, tmpdata[2]>>
                     [] cc_state = 6 -> <<tmpdata[1], b>>
                     [] OTHER -> tmpdata
     /\ cc_state' = cc_state + 1
     /\ UNCHANGED wr_to_mem

Toggle(spi_rdy) ==
  /\ cc_state \in {1, 3, 5} /\ spi_rdy = 0
  /\ cc_state' = cc_state + 1
  /\ UNCHANGED <<tmpaddr, tmpdata, wr_to_mem>>

Hold(spi_rdy) ==
  /\ \/ cc_state \in {1, 3, 5} /\ spi_rdy = 1
     \/ cc_state \in {2, 4, 6} /\ spi_rdy = 0
  /\ UNCHANGED <<cc_state, tmpaddr, tmpdata, wr_to_mem>>

Write(spi_rdy) ==
  /\ cc_state = 7
  /\ wr_to_mem' = 1
  /\ wraddr_to_mem' = tmpaddr
  /\ data_to_mem' = tmpdata
  /\ cc_state' = IF spi_rdy = 0 THEN 0 ELSE 7
  /\ UNCHANGED <<tmpaddr, tmpdata>>

MainEdge(b, spi_rdy, cpu_cmd) ==
  \/ /\ Take(b, spi_rdy, cpu_cmd) \/ Toggle(spi_rdy) \/ Hold(spi_rdy)
     /\ UNCHANGED <<wraddr_to_mem, data_to_mem>>
  \/ Write(spi_rdy)

(* One rising edge of the slow clock.  A garbled word is some byte, the    *)
(* same one for both processes.                                            *)
CpuCtrlEdge(spi_data, spi_rdy, cpu_cmd) ==
  \E b \in IF spi_data \in Byte THEN {spi_data} ELSE Garbled :
    CmdEdge(b, spi_rdy, cpu_cmd) /\ MainEdge(b, spi_rdy, cpu_cmd)

=============================================================================
