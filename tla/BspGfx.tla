------------------------------- MODULE BspGfx -------------------------------
(***************************************************************************)
(* The board support drivers of the display, bitfire_gfx.c and             *)
(* atmosfire_gfx.c: what each call sends over the serial link.  A call is  *)
(* a sequence of transfers; a transfer is one fpga_command() followed by   *)
(* one byte, or one fpga_data() followed by four.                          *)
(***************************************************************************)
EXTENDS FpgaCommands, Sequences

CONSTANTS
  ME_X, ME_Y,            \* which panel of a larger display this board drives
  PRESET,                \* dimmer preset of bsp_init_gfx: 5 Bitfire, 3 Atmosfire
  Strokes                \* the setpixel calls considered: <<x, y, <<r, g>>>>

GL_XSIZE == 40
GL_YSIZE == 16

ASSUME PanelAssumption == ME_X \in Nat /\ ME_Y \in Nat /\ PRESET \in 0 .. 5
ASSUME StrokesAssumption ==
  \A s \in Strokes : s \in Nat \X Nat \X (Byte \X Byte)

Command(op) == [cpu_cmd |-> 1, bytes |-> <<op>>]

WorkBuf(n) == Command(34 + n)
ShowBuf(n) == Command(32 + n)

(* bsp_init_gfx: power the multiplexer and the LED supply, set the dimmer, *)
(* select buffer 0 for both uses.                                          *)
InitTransfers ==
  <<Command(3), Command(1), Command(16 + PRESET), WorkBuf(0), ShowBuf(0)>>

(* A slip the properties catch: the buffer number is not wrapped.          *)
FlipTransfersNoWrap(w) == <<WorkBuf(w + 1), ShowBuf(w)>>

(* bsp_flipbuf when bsp_workbuf = w.                                       *)
FlipTransfers(w) == <<WorkBuf(1 - w), ShowBuf(w)>>

InWindow(x, y) ==
  /\ x >= ME_X * GL_XSIZE /\ x < (ME_X + 1) * GL_XSIZE
  /\ y >= ME_Y * GL_YSIZE /\ y < (ME_Y + 1) * GL_YSIZE

PixelAddr(x, y) == (x % GL_XSIZE) + (y % GL_YSIZE) * GL_XSIZE

PixelData(addr, col) ==
  [cpu_cmd |-> 0, bytes |-> <<addr % 256, addr \div 256, col[1], col[2]>>]

(* bsp_setpixelxy(x, y, col) with col = <<r, g>>: nothing outside this     *)
(* board's window.                                                         *)
PixelTransfers(x, y, col) ==
  IF InWindow(x, y) THEN <<PixelData(PixelAddr(x, y), col)>> ELSE << >>

(* Every transfer these calls can produce.                                 *)
Transfer ==
  {Command(op) : op \in {1, 3, 16 + PRESET} \cup 32 .. 35}
    \cup {PixelData(PixelAddr(s[1], s[2]), s[3]) : s \in {t \in Strokes : InWindow(t[1], t[2])}}

(* What the FPGA holds after a transfer has been carried out: commands set *)
(* a port, data sets the word at <<low, high>> of the memory being drawn.  *)
PortsAfter(t, f) == IF t.cpu_cmd = 1 THEN Execute(t.bytes[1], f) ELSE f

Put(mem, addr, word) ==
  [a \in DOMAIN mem \cup {addr} |-> IF a = addr THEN word ELSE mem[a]]

MemAfter(t, mem) ==
  IF t.cpu_cmd = 0
    THEN Put(mem, <<t.bytes[1], t.bytes[2] % 4>>, <<t.bytes[3], t.bytes[4]>>)
    ELSE mem

=============================================================================
