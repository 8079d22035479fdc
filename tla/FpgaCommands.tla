---------------------------- MODULE FpgaCommands ----------------------------
(***************************************************************************)
(* The command set shared by the drivers (FPGACMD_* in bitfire_fpga.h) and *)
(* the FPGA (cpuctrl.vhd): the output ports and what each opcode does.     *)
(***************************************************************************)
EXTENDS Integers

Pin == {"shdn_ledsup", "shdnn_muxsup", "lbn_rsx", "on_rsx",
        "sel1_rsx", "sel2_rsx", "show_buffer", "work_buffer"}
Port == Pin \cup {"pwm_duty"}
PortFile == {f \in [Port -> 0 .. 128] : \A p \in Pin : f[p] \in 0 .. 1}

Byte == 0 .. 255

Duty == [i \in 0 .. 5 |-> <<0, 26, 51, 77, 102, 128>>[i + 1]]

PinOf == <<"shdn_ledsup", "shdnn_muxsup", "lbn_rsx", "on_rsx", "sel1_rsx", "sel2_rsx">>

(* The ports after the command with opcode op; unknown opcodes do nothing. *)
Execute(op, f) ==
  CASE op \in 0 .. 11  -> [f EXCEPT ![PinOf[op \div 2 + 1]] = op % 2]
    [] op \in 16 .. 21 -> [f EXCEPT !["pwm_duty"] = Duty[op - 16]]
    [] op \in 32 .. 33 -> [f EXCEPT !["show_buffer"] = op % 2]
    [] op \in 34 .. 35 -> [f EXCEPT !["work_buffer"] = op % 2]
    [] OTHER -> f

=============================================================================
