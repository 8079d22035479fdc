# Verification of Bitfire

Bitfire is a 40x16 two-colour LED display. An ARM CPU (LPC2129, on the sister
board Atmosfire an STR71x) runs the application: a gfxlib program, or Lua
scripts under an eCos shell that keeps its files in serial flash. A CPLD/FPGA
scans the LEDs and modulates their brightness. The two are joined by a
one-way SPI link with two GPIO lines. Several boards make one large display; a
host tool (mcf) loads programs into them over CAN.

This directory holds TLA+ specifications of the parts whose correctness
depends on *when* things happen and in which order, the TLC runs that check
them, and machine-checked proofs. `PROJECT.json` gives, for every definition,
the source lines it stands for, the runs, a slip ("mutant") that each property
catches, the findings and the list of hazards.

    tlc -workers 2 -config MCFpgaLink.cfg MCFpgaLink      # a run
    tlapm LedScan_proofs.tla                              # a module of proofs

## 1. Inventory

Paths are relative to `src/`; `bsp/` stands for `software/bsp/`, `eCos/` for
`software/ecos/component_repository/ecos/packages/`.

| component | state | operations | interacts with |
|---|---|---|---|
| **INSPI_BUF** `fpga/src/inspi_buf.vhd` | bit counter, shift register (serial clock); handshake counter, data, ready (slow clock) | a serial edge, a slow edge, asynchronous reset by `sync` | SPI master of the CPU; CPUCTRL reads data/ready |
| **CPUCTRL** `fpga/src/cpuctrl.vhd` | command state; memory-write state 0..7; output ports; write port | a slow edge (both processes), reset by `sync` | mode line from the CPU; ports drive supplies, PWM and the buffer registers; write port drives MEM0/MEM1 |
| **LEDCTRL** `fpga/src/ledctrl.vhd` | scan state, fetch/send substates, address and level counters, line buffer, blanking timer | a slow edge | reads the shown memory, feeds 11 OUTSPI, drives row multiplexer, latch and enable, `vertsync` |
| **OUTSPI, MEM0/1, top level** `fpga/src/outspi_*.vhd`, `cpuledctrl_top.vhd` | shifters; buffer registers latched at `vertsync`; multiplexers of write and read ports | a fast edge | LED driver chains outside the FPGA |
| **PWM, PLL, RAM** `simplepwm.vhd`, `mypll.vhd`, `mymem.vhd` | a counter; vendor blocks | | clocks and memories of the above |
| **display driver** `bsp/bitfire/src/bitfire_gfx.c`, `bitfire_fpga.h`, `lpc2129_spi_polled.c`; `bsp/atmosfire/...` | `bsp_workbuf`; GPIO lines; SPI FIFO | init, flipbuf, setpixel; beneath them `fpga_command`, `fpga_data` | called by gfxlib and by the Lua binding |
| **gfxlib** `software/gfxlib/` | current pixel functions | line, circle, ellipse, rectangles, clipping, blits | display driver |
| **UART, VIC, CAN** `bsp/bitfire/src/lpc2129_*.c` | one-character mailbox, vector table | ISR, getchar; polled put/get | application |
| **eCos serial driver** `eCos/devs/serial/arm/str7xx/` | channel interrupt mask | ISR, DSR, putc/getc | shell |
| **MTFFS** `eCos/fs/mtffs/` | FAT in RAM and on flash; block chains; open files | mount, umount, open, close, read, write, lseek, unlink, rename, ... | eCos fileio above, flash driver below |
| **M25Pxx driver** `eCos/devs/flash/st/m25pxx/` | poll counter; beneath it the chip's write latch, status and array | FlashProgram, FlashSubSectorErase, FlashRead, status polling | called by MTFFS under the file system lock; shares BSPI1 and the sync line with the display driver of Atmosfire |
| **STR7xx flash driver** `eCos/devs/flash/arm/str7xx/` | controller registers | erase, program | MTFFS, if so configured |
| **mtshell** `software/ecos/apps/mtshell/` | line buffer, one record and stack for Lua threads, buffer of the interactive Lua | line editing, get_arg, commands, XMODEM receive, scripts in threads | MTFFS, Lua, serial line |
| **Lua threads** `eCos/services/lua/.../lthreadlib.c`, `lua-ecos.c`, `lauxlib.c` | mutex of the Lua machine, registry with its free list, list of terminated threads, thread records | new, resume, end, delete; lua_ref, lua_unref; collector; lua_close | eCos scheduler, Lua API; C functions run without the mutex |
| **Lua bindings** `eCos/services/lua/.../lbitfirelib.c` | none | gl_* from Lua | gfxlib, from any Lua thread |
| **mcf** `software/mcf/` | table of units | discover, bind, flash over CAN | boot loaders |
| win32 emulation, demos, test benches, `ecos_work/` | | | not part of the device |
| FreeRTOS, uC/OS-II, eCos, Lua, lpc21isp, vendor libraries | | | third party |

How a pixel travels: `gl_setpixel` → `bsp_setpixelxy` clips it to the board's
window and calls `fpga_data`, which pulses `sync` (reset of INSPI_BUF and
CPUCTRL), sets the mode line and sends four bytes → INSPI_BUF collects bits on
the serial clock and shows each full byte to the slow clock → CPUCTRL walks
through its eight states and raises the write port → the top level routes the
port to the memory selected by `reg_work_buffer`. Independently LEDCTRL reads
the memory selected by `reg_show_buffer` line by line and sends it LEVELS
times. Both registers follow the ports that commands set, at `vertsync` only.

### What is hard, and what makes each part correct

* **The link** has three unrelated clocks, no acknowledgement, and a reset that
  is only a pulse. The CPU never learns whether the FPGA is ready; everything
  rests on the time between one byte and the next. Correct: every transfer is
  carried out once, whole, in order, before the next `sync`.
* **The scan** is three concurrent processes and eleven shifters on two clocks,
  over memories that answer late. Correct: a lit row shows its own words, of one
  buffer, with no trace of the neighbouring row; every step of the modulation is
  sent once and in order; every row is lit over and over.
* **Double buffering** is split between two commands, two registers that
  change at `vertsync`, a write port that stays up between transfers, and an
  application that draws at any time. Correct: a frame is one whole picture that
  the application finished.
* **MTFFS** caches the FAT in RAM, allocates blocks by looking for erased ones,
  links and writes them in several flash operations, and loses everything in RAM
  with the power. Correct: a file holds what was written to it; no block belongs
  to two files or counts as empty while it belongs to one; no call loses blocks.
* **XMODEM** has two sides that each repeat and give up by their own clocks, one
  byte of packet number, control codes that look like data, and a receiver that
  may be writing flash while the other side loses patience. Correct: the file is
  a beginning of the one sent, and all of it when the line was clean.
* **Lua threads** run one at a time by a mutex, but every C function gives the
  mutex up and takes it again for each call of the API, so that lua_ref and
  lua_unref of several threads interleave call by call, while the collector and
  the deletion of ended threads run from whichever thread comes along. Correct:
  a thread that runs keeps its Lua state; a thread is deleted once, after its
  end, and never with the mutex.
* **The shell** edits a line in place, with erasing keys, a space that may take
  the place of the terminator, and one thread record that all scripts share.
  Correct: what the shell runs is what the screen shows, cut into words; the record
  is never given to the kernel while a thread lives in it. The interactive Lua's
  editor leaves erased characters in its buffer; there the question is when they run.
* **The serial flash** takes its time, forgets nothing that was written and
  everything it was told, and hangs on the bus of the display. Correct: a
  program that spans pages is carried out page by page; the driver says
  truthfully what was written; each device hears only what is meant for it.
* **The UART mailbox and the eCos serial driver** are single-slot protocols
  (section 5).

## 2. Modules

| module | stands for | kind |
|---|---|---|
| `FpgaCommands` | command set shared by `bitfire_fpga.h` and CPUCTRL | operators |
| `InSpiBuf` | `inspi_buf.vhd`: `SpiEdge` (serial process), `SlowEdge` (slow process), `InSpiReset` | component |
| `CpuCtrl` | `cpuctrl.vhd`: `CmdEdge` (command process), `Take`/`Toggle`/`Hold`/`Write` (states of the write process) | component |
| `BspGfx` | what each driver call sends (`bitfire_gfx.c`) | operators |
| `FpgaLink` | InSpiBuf + CpuCtrl + CPU + SPI master + lines + write port | composition |
| `DisplayLink` | the contract of the link: `Ask`, `Deliver` | abstract specification |
| `LedCtrl` | `ledctrl.vhd`, one action per state or substate, and the blanking timer | component |
| `LedScan` | LedCtrl + OUTSPI + memories + buffer register + driver chains | composition |
| `DoubleBuffer` | application + DisplayLink's contract + memories + registers + a reader | composition |
| `PagedDisplay` | the contract of the display: two pages, `Draw`, `Flip`, `Show`, `NewFrame` | abstract specification |
| `Mtffs` | `mtffs.c` over an abstract flash | component |
| `FileStore` | the contract of the file system: named contents, and what comes back after a loss of power | abstract specification |
| `Xmodem` | `xmodem.c`: receiver, transmitter and the line between them | component |
| `FileTransfer` | the contract of a transfer: pieces written in order, and how it may end | abstract specification |
| `LuaThreads` | `lthreadlib.c`, `lua-ecos.c`, `lua_ref`/`lua_unref`: a step per call of the Lua API | component |
| `Mtshell` | `mtshell.c`, `lua_funcs.c`: line editor, `get_arg`, start of scripts, `my_fgets` | component |
| `SpiBus` | BSPI1, chip select and sync line, and who hears what | component |
| `M25pxx` | the flash driver, a step per byte sent or line moved, and the chip | component |
| `SharedSpi` | M25pxx + display driver of Atmosfire on one SpiBus, in turn or at once, and loss of power | composition |
| `FpgaLink_proofs` | types, no torn byte, delivery and refinement of FpgaLink | proofs |
| `LedScan_proofs` | counter ranges, whole lines, no ghost and order of patterns of LedScan | proofs |
| `DoubleBuffer_proofs` | types, finished pictures and refinement of DoubleBuffer | proofs |
| `Xmodem_proofs` | types, the transmitter's verdict and refinement of Xmodem | proofs |
| `LuaThreads_proofs` | types, list, registry and mutex of LuaThreads | proofs |
| `Mtffs_proofs` | types, chains, blocks of files, no lost blocks and refinement of Mtffs | proofs |
| `Mtshell_proofs` | bounds, screen, words, arguments, the thread record and `my_fgets` of Mtshell | proofs |
| `SharedSpi_proofs` | bounds, bus, instructions, what is written and what is answered of SharedSpi | proofs |
| `MCFpgaLink`, `MCDoubleBuffer`, `MCMtffs`, `MCLuaThreads`, `MCMtshell`, `MCSharedSpi` | values for TLC | model checking |

`FpgaLink` implements `DisplayLink`, and `DoubleBuffer` builds on the same
transfers and on `Ask`/`Deliver` of that contract rather than on bits. In the same
way `LedScan` shows that the scan reads a frame from one buffer in one pass, which
is what `ReadWord`/`VertSync` of `DoubleBuffer` assume. `SharedSpi` composes
the two drivers that meet on one bus of Atmosfire; its `WrittenInOrder` and
`AnswerTrue` are what `Mtffs` assumes of an erase and a write of the flash,
except that Mtffs takes a write of a block to be whole or absent.

### Correspondence of state

* A byte is a number; the shift register holds "byte b so far" or `Junk`. A
  byte caught while it changes is any byte of `Garbled`. The bits of an edge
  are counted by `bit` at the master and `ctr` at the receiver.
* In `FpgaLink` one step is one rising edge of one clock. A serial edge that
  falls together with a slow edge is `BitOnEdge`: counter and shift register are
  each read before or after the change, independently, which is what an
  unsynchronised read across clock domains can give.
* In `LedScan` one step is one fast edge, and every `RATIO`-th also a slow one
  (the PLL derives both from one clock). All processes read the values before the
  edge. A word is represented by where it was read from and at which modulation
  step it was sent; a pixel of value v is lit at step k exactly when k < v.
* In `Mtffs` a block is a header and `PAYLOAD` units. The flash offset
  arithmetic of the code is replaced by block numbers and indices. A call is a
  step; a write is a step per pass of its loop; with `"tear"` in `Careless`
  power can also fail between two flash operations of a call.
* The `fd`, `call`, `base`, `drawn`, `flipped` variables hold locals of
  calls under way or histories for properties.
* In `Xmodem` a byte is `<<kind, value>>`; the 128 bytes of a packet are one
  symbol that names the packet, so the bodies differ in length by header as in
  the code, and a byte of data, or a garbled one, read where a control code is
  expected can be any of them. `rx` and `tx` hold the locals of the two
  functions; `pc` says which `_inbyte` waits; `then` what follows a flush.
* In `LuaThreads` `pc[t]` names the call of the Lua API that thread t makes next;
  `mutex` is taken by a step of its own (`Lock`), so that any thread can come
  between two calls. Between two calls byte code, and by `CallC` any C function,
  may run. The registry holds numbers (links of the free list) and objects; what
  a thread's stack keeps alive is in `Anchored`. `local` holds the locals of
  `lua_ref`, `lua_unref` and `e_thread_new`.
* In `Mtshell` a step is a key read by the shell or by the interactive Lua. `line`
  is `command_buf[0..i-1]`, `shown` and `lshown` what the echo has left on the
  screen; erasing is a backspace per character. `[` and `A` are the
  printable bytes of an arrow key: the editor drops the first and clears the line
  at the second.
* In `SharedSpi` a step is a byte on the bus, or one of the two lines moving. An
  instruction of the flash with its address is one symbol. A byte of the flash is
  the set of its bits that are 0, so that programming adds and erasing empties.
  `shift` and `heard` are what flash and FPGA have received since their line last
  moved. `before` is a history for the properties.


## 3. What is checked

### Runs that pass

**`link`** (`MCFpgaLink.cfg`; FpgaLink with the polled driver of Bitfire).
*Every transfer of the driver is carried out exactly once.* Checks `TypeOK`,
`NoTornByte` (a word CPUCTRL may act on is one that the CPU sent), `Delivered`
(when the driver may next touch the lines, ports and memory are what all
transfers so far asked for), `Implements` (refinement to `DisplayLink`:
between two syncs ports and memory change at most once and only as asked) and
`AllDelivered` (liveness). Calls: `bsp_init_gfx`, flips and three pixels, one of
them above address 255 and one outside the window; any port values at power-up
out of all-0 and all-1. `BITS = 8` is the real size. `GAP = 6` is the number of
slow edges the CPU needs between the last bit of a byte and whatever it does next
with the lines; it is the exact minimum: with 5 TLC finds `Delivered` violated.
The slow clock has 16 MHz (`mypll.vhd:107`), so that is 375 ns, in which the CPU
has to leave the status loop of `spi_polled_putchar`, return and start over. That
the instructions in between take this long is an assumption the code makes and
does not state.

**`scan`** (`MCLedScan.cfg`; LedScan). *Each row shows its own words, whole, one
step after another, for ever.* Checks `TypeOK` (the counters stay in their VHDL
ranges), `LineWhole`, `NoGhost`, `StepsInOrder`, and the liveness properties
`Refreshed` and `FlipHappens`. Two words per half line, two lines, four levels,
six bits per chain, `RATIO = 2`: each loop of the code is taken at least twice,
so first, middle and last cases exist, and both halves of the panel, both
buffers and flips at any time are there. `BLANK = 12` keeps the order of the real
sizes: the blanking timer outlasts the shifting of one word. The properties were
also checked at the real sizes (5 words, 8 rows, 256 levels, 110, 16 bits) with
one buffer: the scan is deterministic there, 80,530 states.

**`pages`** (`MCDoubleBuffer.cfg`; DoubleBuffer, `Waits = TRUE`). *The panel
shows only finished pictures.* Checks `TypeOK`, `ShownAsDrawn`, `Implements`
(refinement to `PagedDisplay`) and `FlipShown` (liveness). Two cells, one with
two colours: a picture can be half drawn, a word overwritten, and a pixel left
on the write port across a `vertsync`. The application flips once before it
draws and lets a frame pass after a flip.

**`mtffs`** (`MCMtffs.cfg`; Mtffs). *Files hold what was written to them.*
Checks `TypeOK`, `NoCrossLink`, `NoLeak` (only a loss of power costs blocks) and
`Implements` (refinement to `FileStore`). Two names, two entries, two blocks of two
units; writes of one unit and of three, so that a write ends inside, at and behind
a block boundary and the flash runs full; loss of power between any two steps.
Names are symmetric.

**`mtffs_wild`** lets callers write beyond the end of files (`"hole"`) and power
fail between any two flash operations (`"tear"`), over two blocks of one unit and
writes of one unit and of two. `NoCrossLink` is lost then (see below). What stays
is `ChainsEnd` (no chain leads back into itself: a walk is over at 0, or at an erased
block, where the read of the next one fails) and `NoLeak`. Chains do break
here, and unlinking a file with a broken one is part of the run: the entry is
cleared in RAM and the blocks are erased, then the call fails and the FAT on flash
keeps its entry. Both properties also hold over three blocks with writes of two
units only (2,506,859 states, too slow to be a configured run), where a chain has a
middle block and two files compete for the third; the run of `mtffs` was also made
with three blocks of one unit and careful callers, and passes.

**`xmodem`** (`MCXmodem.cfg`; Xmodem). *A transfer is right, or says that it is
not.* Checks `TypeOK`, `SenderRight` (on a clean line a transmitter that
reports success is right, although late acknowledgements are taken for those of
later packets), `Implements` (refinement to `FileTransfer`: the file is always a
beginning of the one sent; no fault and no error means all of it) and `Ends`
(liveness). Real packet numbers and size; two packets, the last not
full; two faults anywhere on the line, in either direction (with one fault the
run was also made with 384 bytes, whose last packet is all padding). Attempts are 3 instead of 16, 25 and 10: what counts is that a packet
without its header is longer than the attempts to find one, as in the code.

**`lua_threads`** (`MCLuaThreads.cfg`; LuaThreads). *Threads end without taking
others with them.* Checks `TypeOK`, `NotCollected` (a thread that runs, or has
yet to run, keeps its Lua state: no slot of the registry is handed out twice or
is in use and free), `ListWhole` (the list of terminated threads holds each ended
thread once and no other) and `OwnerCanRelease` (nobody is deleted with the
mutex). Three interchangeable children and six slots, so that the ends of two of
them, collections and deletions interleave in every way. The script creates its
threads before it resumes the first, and closes the machine when all have ended.

**`shell`** (`MCMtshell.cfg`; Mtshell). *What runs, and is it what the
screen shows?* Checks `TypeOK`, `ScreenIsLine`, `LineIsWords` (`get_arg` finds the n-th word of
every line the editor can build), `OneScript` (the thread record is not reused
while it is in use) and `LuaTakesShown`. That one is about the line editor of the
interactive Lua, in whose buffer erased characters stay. All that Lua is given
counts, what stands behind the newline too. Without keys that do not print, it begins
with the line shown, and it is that line and nothing more exactly if at
most one erased character was not typed over (the newline takes the place of one)
and the buffer has room for a NUL. With keys that do not print but no erasing ones,
it is a beginning of the line shown. With both nothing is claimed. Two
letters, buffers of three: a line can be full, overfull by a space, end in a
space, hold two words, and be erased to any shorter one.

**`flash`** (`MCSharedSpi.cfg`; SharedSpi, `Concurrent = FALSE`). *The flash holds
what its driver says.* Checks `TypeOK`, `BusKept` (flash and FPGA hear what is
meant for them), `WrittenInOrder` (while a program spans pages, and at whatever
moment the power fails: earlier pages done, later ones and all else untouched),
`AnswerTrue` (what the return value says is so), `ChipListens` (no instruction
meets a busy or locked chip) and `CallEnds` (liveness). Pages and sectors of two
bytes, three of them; data of one byte and of four at any address, so that a
program starts and ends inside and at a page, spans two boundaries and reaches
the end of the device; one bit per byte; a chip that finishes at any time or
never; display calls of two bytes in turn with the flash's.

### Runs that violate, and what they found

Each checks one statement of a comment against the code.

* **`xmodem_repeat`**, `RepeatsAccepted`: `(unsigned char)packetno-1` is -1 for
  `packetno` 0 (`xmodem.c:145`), so packet 255 repeated is rejected. It takes no
  fault: a slow write to flash makes the transmitter repeat, and `SenderRight`
  falls with it.
* **`lua_create`**, `NotCollected`: `lthreadlib.c:180` takes a reference "so it
  won't get garbage collected". When the script creates a thread while others
  run, one that ends pushes its slot between the calls in which `lua_ref` reads
  and pops the free list. The slot is then in use and free, the next reference
  overwrites that of a running thread, and its state is collected. Four children
  are the fewest that show it.
* **`spi_shared`**, `FpgaIgnoresFlash`: `m25pxx_flash.c:97` says that the FPGA
  ignores SPI traffic while sync is high, and `enable_cs` raises it; the display
  driver, in another thread, lowers it in the middle of a flash transaction.

### Refuted by TLC, without a configured run

These are reproduced by changing one value in a configuration.

* `FpgaLink` with `Polled = FALSE`, the driver of Atmosfire: `SteadyLines` and
  `Delivered` fail. `spi_send` (`atmosfire_gfx.c:36-41`) waits for room in a
  one-byte FIFO, not for the byte to leave, so the next call moves `sync` and the
  mode line under a byte in flight.
* `DoubleBuffer` with `Waits = FALSE`: `ShownPageSteady` fails. `gfxlib.h:99-101`
  says there is no need to wait for sync around a flip; drawing right after one
  writes to the page about to be shown, since the registers change only at
  `vertsync`.
* `Mtffs`, `NoCrossLink`, with `"tear"` in `Careless`: unlink erases the blocks
  before it writes the FAT (`mtffs.c:163-175`); after a loss of power between the
  two the file is back on a block that counts as empty. With `"hole"`: a write far
  beyond the end links a block whose header is still erased and fails
  (`mtffs.c:384`); the block is handed out again.
* `Mtffs` with `"stale"`: a handle points to the entry, not to the file
  (`mtffs.c:147`), and unlink does not look for it. A write through it fills an
  entry without a name or the next file to be created: `Implements` and `NoLeak`
  fail; `NoCrossLink` holds, and so does `ChainsEnd` together with `"hole"` and
  `"tear"` (two blocks, writes of two units: 314,894 states; 575,068 with `"names"`
  as well). With `"names"`, renaming onto a name in use, `Implements`
  fails at once; `NoCrossLink` and `NoLeak` hold.
* `LuaThreads` with `"close"`: a script that closes while threads run deletes them
  with their states (`lua-ecos.c:214`), against `NotCollected`. With `"create"`,
  `OwnerCanRelease` falls too: a thread deleted while it gives its slot back may
  own the mutex.
* `Mtshell` with `Hasty = TRUE`: `thread_created` is set by the script itself
  (`lua_funcs.c:248`), so that a second command before the first script has run
  hands the record of a live thread to the kernel; `OneScript` fails.
* `Mtshell`, "Lua runs what the screen shows" (`Taken = LuaLine`), is false when
  keys are erased, and `LuaTakesShown` says so. `my_fgets` steps back and clears nothing
  (`lua_funcs.c:76-103`); `lua_pushstring` takes the buffer up to the first NUL and
  `luaL_loadbuffer` runs all of it (lines 122, 180). Type `print(1) print(2)`, erase
  nine characters, press Enter: the buffer holds `print(1)`, a newline and
  `print(2)`, and both run. `LuaTakesShown` without its conditions on `odd`: erase a
  character, then type a key that does not print, and the erased one is back in the
  midst of the line.

Divergences and hazards met on the way that one line shows, and that no property
speaks against:

* `mtffs.c:170-175`: the walk of `mtffs_unlink` ends at 0 only. In a chain that a hole
  or a torn write has broken it goes on at block -1, the read fails, and the call
  returns before it writes the FAT: in RAM the file is gone and its blocks are erased,
  on flash its entry still names them, and after a restart a file is there again on
  blocks that count as empty. `Unlink` takes this exit (`Walked`).
* `mtffs.c:671-676`: power lost between the erasure of the FAT and its writing loses
  every file, since the next mount makes a new file system (`FatErased`).
* `mtffs.c:136`: an open with `O_CREAT|O_EXCL` of a file that exists sets `err` and
  goes on, against the comment two lines above. `mtffs.c:198`: a name of exactly
  32 characters passes, and its terminator is written behind the name.
* `mtffs.c:200`: rename does not look for the new name, and `mtffs_findfile` then
  finds only the first of two files (`mtffs.c:680`: "unique").
* `xmodem.c:149`: `wpos` counts whole packets. When the size announced to the
  command is too small by more than a packet, the length of a write is negative;
  the commented-out lines below had a test for it (`xmodem.c:153`).
  `xmodem.c:111`: a packet that lost its header is searched for one byte by byte,
  and packet number 4 is taken for EOT.
* `m25pxx_flash.c:1299`: FlashProgram ends with a program of the empty rest; at the
  end of the device that is refused and a write that was carried out is reported
  as failed. `AnswerTrue` says so. `m25pxx_flash.c:1277` has the room left in a
  page in 8 bits, where 256 is 0; `m25pxx_flash.c:1464`, the query, returns
  nothing.
* `mtshell.c:132`: `get_arg` writes the terminator of a word of full length behind
  the array. `lthreadlib.c:238`: suspend and resume take a thread that has ended.
* `lpc2129_uart_int.c:106`: one character of mailbox; `lpc2129_vic.c:20`: slots are
  never given back; `str7xx_serial.c:384`; in the host tools, `hex_import.py:146`
  and `comm.py:94`.

### Assumptions

* *Timing of the link*: bits are at least one slow edge apart and `GAP` slow
  edges pass between bytes. Nothing in the code enforces it; it follows from the
  SPI divisor and the CPU's loops. A serial edge and a slow edge may coincide.
* *Clocks of the scan*: fast and slow clock come from one PLL, so their edges
  coincide every `RATIO` fast edges. The memories register address and output.
* *Application*: one caller of the driver; it flips once before it draws
  (`gfxlib.h`) and, in `pages`, waits for the frame after a flip.
* *Callers of MTFFS* in the run `mtffs`: no write
  beyond the end of a file, no rename onto a name in use, no unlink of an open
  file, umount with all files closed (eCos sees to the last one). Calls are
  serialised by the lock eCos takes for the file system.
* *Serial line*: bytes are lost or garbled, not invented or reordered; a check
  matches only the data it was computed from. Reading and sending take no time
  against timeouts of a second; a write to flash may take longer than any. The
  terminal behaves like `xmodemTransmit`, which the source keeps under `#if 0`.
  In the passing runs the announced size is the size of the file.
* *Flash below Mtffs*: an erase and a write each happen or do not. A read at block -1
  is refused: as an unsigned number its address lies behind the flash
  (`m25pxx_flash.c:796`), and the error is passed on (`m25pxx_flash.c:1546-1560`,
  `mtffs.c:954`).
* *Flash chip*: as its data sheet says, as far as the comments of the driver
  quote it. When power fails, the bytes that the chip was working on hold their
  old value or the new one. The file system's lock serialises the calls of the
  driver.
* *Scripts* in the passing run `lua_threads`: threads are created before the first
  is resumed, and the machine is closed when all have ended. A Lua API call is
  atomic (it holds the mutex), as is what eCos does with the scheduler locked.
* *User of the shell* in `shell`: waits for a script to start before the next
  command, and leaves the interactive Lua before starting another. Characters
  behind the end of a line are not used by the shell.
* *Drivers on the bus* in `flash`: display and flash calls take turns. Nothing in
  the code enforces it; `spi_shared` is about that.

### Fairness

`FpgaLink!FairSpec`: the two FPGA-side clocks never stop (`Tick`; `Bit \/
BitOnEdge` while the master has bits to send), and the CPU finishes the call it is
in (`SyncHigh`, `SyncLow`, `SetMode`, `Send`: straight-line code, whose only wait
is for the SPI master). No call has to be made. `LedScan!FairSpec`: the PLL does
not stop. `DoubleBuffer!FairSpec`: a transfer that was asked for is sent and
delivered (what `AllDelivered` shows of the link) and the scan goes on (what
`Refreshed` shows). `Mtffs` needs none: nothing is promised to happen.
`Xmodem!FairSpec`: both programs run on, timeouts pass; the user need not start
the transmitter. `SharedSpi!Spec`: the flash driver goes on while there is power
(`WF_vars(FlashStep)`: straight-line code and loops that count); nothing is asked
of the chip. `LuaThreads` and `Mtshell` promise nothing that has to happen.

`CHECK_DEADLOCK` is switched off for `Xmodem`, whose programs return, and for
`lua_create`, in which a mutex may be left with a deleted thread.
Elsewhere clocks tick, applications may call and power may fail in every state.

## 4. What is proved

`FpgaLink_proofs` proves

    THEOREM TypeCorrect == Spec => []TypeOK

for every number of bits per byte from 4, every GAP from 6, both drivers, every
set of pixels and of power-up values. The content is ranges: the
transmit register never holds more bytes than the hardware has room for, bit
counter, handshake and both decoder states stay in the ranges VHDL declares
(an excursion would stop a simulation and wrap in hardware), the CPU never reads
past the bytes of a transfer, and memory is written only at addresses it has.
`TypeOK` alone is not inductive. `TypeInv` adds what it rests on: the CPU is
in its sending loop only while a byte of the transfer is left (else it would read
past the transfer), it has sent nothing before the loop, and a byte being
received has fewer than `BITS` bits (else the counter would pass `BITS`).
The proof has a lemma
for each component and kind of step (reset, serial edge, slow edge, command,
memory write), a lemma that the transfers a call makes are transfers, and one
step per action of `Next`. It rests on the named assumptions `BitsAssumption`,
`GarbledAssumption`, `PowerUpAssumption`, `PanelAssumption`,
`StrokesAssumption` and `GapAssumption`.

The same module proves, of the driver of Bitfire,

    THEOREM UntornCorrect    == ASSUME Polled PROVE Spec => []NoTornByte
    THEOREM DeliveredCorrect == ASSUME Polled PROVE Spec => []Delivered
    THEOREM LinkImplements   == ASSUME Polled PROVE Spec => Implements

again for every `BITS` and `GAP`, all strokes and power-up values, and every
interleaving of the serial clock, the slow clock and edges of both that fall
together. `Polled` is needed: the driver of Atmosfire does not wait for the byte
to leave, and TLC refutes `Delivered` of it (section 3).

The three properties speak only of moments when something is ready, or when
all is quiet; in between, nothing in them says how far a byte has come. The
inductive invariant does, and is a conjunction of five parts:

* `TypeInv`, from above.
* `CpuInv`: where the CPU is in a call. The SPI master holds at most the byte
  handed over last, and the mode line is that of the transfer once a byte is sent.
* `WireInv`: the serial side has counted exactly the bits the master has sent of
  the byte on the wire, or all of the previous byte.
* `HandshakeInv`: nothing has arrived (`Silent`); a byte is there and `quiet` slow
  edges have seen it (`Presented`), which fixes `outstate` up to one, `outrdy`, and
  whether CPUCTRL has taken it; or the next byte is on its way (`Withdrawn`), and
  by its second bit at the latest the slow side has seen the old one withdrawn.
  `cc_state` counts the bytes taken: `2k` before a byte, `2k - 1` after it.
* `Carried`: ports and memory are what the earlier transfers left until the command
  is taken or the write port goes up, and what the transfer asks for from then on;
  and the bytes collected so far are the first ones of the transfer.

`BITS >= 4` and `GAP >= 6` enter here: a byte must still be arriving when the
handshake has dropped, and the sixth quiet edge raises the write port. The
proof has four lemmas for what a slow edge can mean to CPUCTRL (`WaitingEdge`,
`WithdrawnEdge`, `HoldingEdge`, `TakingEdge`), three for what it means to the
handshake (`SilentEdge`, `WithdrawingEdge`, `PresentingEdge`), one for the serial
edge (`WireStep`), and one per action of `Next`. Each action lemma also shows
the step `Lawful` (nothing changes, or all that was asked happens), from which
`LinkStepRefines` gets the refinement: `SyncHigh` is `Ask`; every other action is
`Deliver` or a stutter.

The lemmas about the driver's transfers, which the link and the double buffer both
rest on, stand at the head of either module.

`LedScan_proofs` proves, for every number of words, rows, levels, blanking cycles
and bits,

    THEOREM TypeCorrect == Spec => []TypeOK
    THEOREM LineCorrect == ASSUME RATIO >= 2 PROVE Spec => []LineWhole

Ranges are not inductive: LEDCTRL ends a line by comparing its word counter and a
frame by comparing one of its addresses, so the invariant `IInv` has to say that
the counters move together. `AddrInv`: in the fetching state, for some line r, both
addresses are r's first ones plus the words passed (`Fetching(r)`), later r's last
ones plus one (`Fetched(r)`). `LineCorrect` adds `WInv`: the words fetched so far
are r's, of the buffer latched (`Filled`), and the one under way has got as far as
the address register after one fast edge and the output after the next slow one
(`Piped`). That is where `RATIO >= 2` enters; the board has 2.

    Paced == RATIO \in 2 .. PIXELS + 1 /\ 2 * PIXELS < BLANK * RATIO
    THEOREM GhostFree    == ASSUME Paced PROVE Spec => []NoGhost
    THEOREM OrderCorrect == ASSUME Paced PROVE Spec => StepsInOrder

speak of the other end of the pipe, the drivers of the LEDs. `Paced` is what the
board has room to spare of: a word takes longer to shift than the two slow periods its `datardy` is
up, so that no OUTSPI takes it twice, and the blanking time is longer than the shift
of a word. Both are a matter of counting fast edges, and the invariant
`NInv` keeps that count: since a shifter was handed its word `Age` fast edges have
passed since the last slow one, and its bit counter says how many slow ones before
(`Taken`). Besides, what has left a shifter and what is left of the
word make the word (`Shifter`); a chain shows what its latch took last, the pattern
of the level being sent or the one before it (`Latched`); what is handed to the
shifters is the comparison of the line buffer with the level (`Pattern`); the
blanking timer runs only in the state that waits for it, with the LEDs off
(`Blanked`), and by the time it is through the chains are (`Finishing`).

`DoubleBuffer_proofs` proves, for every set of cells and colours,

    THEOREM TypeCorrect       == Spec => []TypeOK
    THEOREM ShownCorrect      == ASSUME Waits PROVE Spec => []ShownAsDrawn
    THEOREM DisplayImplements == ASSUME Waits PROVE Spec => Implements

`PageInv` says which memory is the front and which the back page at each stage of
a flip (both commands to go, one, none, registers latched), that the back page
plus the stroke still in transit is what the application has drawn, and that what
has been read of the frame is the front page. The proof uses that an application
that waits draws nothing between a flip and the `vertsync` after it.

`LuaThreads_proofs` proves, for any number of children and slots,

    THEOREM TypeCorrect  == Spec => []TypeOK
    THEOREM WholeCorrect == Spec => []ListWhole
    THEOREM KeptCorrect  == ASSUME Careless = {} PROVE Spec => []NotCollected
    THEOREM OwnerCorrect == ASSUME Careless = {} PROVE Spec => []OwnerCanRelease

the first two whatever the script does. `Places` confines each thread to the
program points of its kind. `KInv` carries the argument that creation before
resumption keeps `lua_ref` and `lua_unref` apart: while the main script is in
e_thread_new every child is `Quiet` (`AloneCreating`), a child gives back the slot
it was given (`OwnSlot`), and, as long as nobody has been resumed, the free list
holds only free slots and slots in use differ (`FreeSound`, `SlotSound`). Once
children end, two `lua_unref` may interleave and the free list may be damaged; it
does no harm since nobody takes from it any more, and `HeldKept` keeps the
slots of running threads intact.

`Mtffs_proofs` proves, for every number of files and blocks, every block size and
every set of writes,

    THEOREM TypeCorrect == Spec => []TypeOK
    THEOREM NoCircle    == Spec => []ChainsEnd
    THEOREM FilesApart  == ASSUME Whole    PROVE Spec => []NoCrossLink
    THEOREM NoBlockLost == ASSUME Attached PROVE Spec => NoLeak
    THEOREM StoreImplements == ASSUME Careless = {} PROVE Spec => Implements

the first two whatever power and callers do. A chain is a recursive function, and
`Chain` has no closed form, so what it holds after a link has changed is proved by
induction over its index: by the least index for which it would not hold
(`Least`, `Induction`). `ChainsEnd` says that a chain, followed for as many links as
there are blocks, has come to 0 or to an erased block. It is not inductive; `Sound`
is: there is a
numbering of the blocks that falls along every link (`Ranked`), which a link
to a free block, numbered below all others, keeps. `FilesApart` needs `Kept`:
every block of a chain has one owner among the entries of both FATs (`Owned`), and
the chain is long enough for the size of its file (`Covered`), which is what
sends a careful write to the end of the chain and never past it. An owned chain ends
at 0 (`OwnedWalked`), so that unlink gets to write the FAT; without `Whole` it may not. `Whole`
says that no write leaves a hole and that power is not lost within a pass.
`NoBlockLost` covers broken chains: an unlink that fails has erased every block on its
way, and behind an erased block, which links to none, there are no others. It needs
`Tidy`: an entry without a name has no blocks, so the entry a new file gets brings
none along that would be lost. `Attached` says that no file is unlinked that is open.

`StoreImplements` is the promise to the caller: every step of mtffs.c is one of
`FileStore` or changes nothing there. It needs `Faithful`, which adds to `Kept` and
the names that the FAT on flash leads to the same blocks as the one in RAM, as far
as it leads anywhere (`SavedChains`: writing inside a file is seen in the saved one
too); that a write began inside its file (`Begun`); and that what it has written so
far is there (`Written`), which is how its last pass can give the file a length
that many passes have filled. The heart is `PassAt`: a pass changes the units of
its chunk in its own file and no other unit of any file, since the block it writes
belongs to that file only (`Owned`) and occurs once in its chain
(`ChainDistinct`). Each call then has a lemma that names the step of `FileStore` it
takes (`StoreMount` to `StoreFails`); opening an existing file, closing and seeking
take none.

`Mtshell_proofs` proves, for every buffer size and alphabet and every sequence of
keys, `TypeCorrect`, `ScreenCorrect` (`ScreenIsLine`), `OneScriptCorrect` (with
`ASSUME ~Hasty`) and `SpacedCorrect`: a line never starts with a space or has two
in a row, and is over-long by a trailing space only. That is what `get_arg` relies
on, and `WordsCorrect` (`LineIsWords`) shows that it finds the words, each between
two neighbouring spaces or ends of the line. Bounds of argument buffers are not among
these: `get_arg` overruns one (section 3). `LuaLineCorrect` (`LuaTakesShown`)
follows what is typed at Lua through `my_fgets`. By `LInv`, as long as all keys
print or erase, the buffer agrees with the screen up to the index, holds typed
characters from there to the furthest place the index has been (`far`), and NULs
behind that (`Clean`); as long as none erases, the screen runs up to the first NUL
at least, where a key that does not print was typed (`Skipped`).

`SharedSpi_proofs` proves, for every page, sector and flash size, data and address,
and power failing anywhere, `TypeCorrect` (a program never leaves the flash and a
chunk never its page, whatever the display driver does), and with `ASSUME
~Concurrent`, `BusCorrect` (`BusKept`) and `ListensCorrect` (`ChipListens`). The
invariants are `Typed` and `CallOK` (how address, rest and chunk of a program
belong together), `Lines` and `Drawing` (which device each line selects at each
point of either driver), and `Sent` (what of the current instruction the chip has
received). `WrittenCorrect` (`WrittenInOrder`) and `AnswerCorrect` (`AnswerTrue`),
again with `ASSUME ~Concurrent`, say what the flash then holds and what the
caller is told of it. Their invariant `DInv` says that what has left the bus and
what has not make up the instruction (`InTransit`), and how far the flash has come:
the pages before the current one are programmed and the rest is as before until the
chip select goes up (`AtPage`), the current one too from then on, if only once the
chip is no longer busy (`PastPage`). A chunk that stays in its page does not wrap
inside it, which is what makes the chip's own addressing the call's.

`Xmodem_proofs` proves, for every number of attempts and retransmissions, every
number of faults anywhere on the line, and every size of file its assumptions admit,

    THEOREM TypeCorrect        == ASSUME Short            PROVE Spec => []TypeOK
    THEOREM SenderCorrect      == ASSUME Short            PROVE Spec => []SenderRight
    THEOREM TransferImplements == ASSUME Short, Announced PROVE Spec => Implements

`Short` says that the packets' numbers do not come round (a file below 253 packets,
some 32 KB, when `BYTE` is 256), `Announced` that the size the receiver is told is the
file's, to the packet. Nothing is assumed of the attempts but that there are some: 16, 25 and 10 are
one instance. What the receiver has in its buffer and on its line may be anything
a fault can make of packets, and yet data are never taken for another packet's:
`Numbered` says that wherever data follow two bytes that are a number and its
complement, the number is theirs; a byte garbled or lost keeps that so, and so does
starting to read in the middle of a packet (`NumberedTail`). With it goes what the
receiver accepts and when the transmitter moves on (`OrderInv`).

On a line that has disturbed nothing the invariant is `CleanInv`. The line carries
whole packets and then nothing but EOT or nothing but CAN (`Layout`). The packets on
it ascend, each the last one or the next (`Climbs`), though not in step with
the receiver: a slow write makes the transmitter time out and repeat, each
repetition is acknowledged, and each acknowledgement but the first lets the
transmitter run ahead. That it never gets so far that a packet is missing (`Follows`), and that
no packet is repeated so often that the receiver would run out of retransmissions
(`Few`, `Ahead`), is the core of the argument. Before the first packet the two
sides have to agree on the check (`Settled`); `Closing` says what each way to
leave the loop has seen. `FileInv` adds that the file written is the beginning of the
file sent, up to the packet due.

Where an assumption of the proof says so (`Polled`, `Waits`, `Careless = {}`,
`~Hasty`, `~Concurrent`, `Whole`, `Attached`, `Paced`, `Short`, `Announced`) a
statement it is made for is false without it. Section 3 says how TLC refutes it where a
run is about that; for the others an MC configuration changed accordingly does:

* `Whole`: `"hole"` or `"tear"` in `Careless`; `Attached`: `"stale"`.
* `Paced`: `RATIO = 1`, or `BLANK = 3` with 40 bits in a word. Its second half is
  enough, not necessary: the fetch of a line gives the chains time too. The board has
  a `BLANK` of 110 for words of 16 bits.
* `Short`: `Implements` with `BYTE = 4`, a `MAXRETRANS` of 4, a file of 3000 bytes and
  no fault. A repetition of the packet before number 0 is rejected
  (`xmodem_repeat`), the acknowledgements of others have let the transmitter run
  ahead, and packets are skipped whose numbers have come round.
* `Announced`: `Implements` with `srcsz` 300 and `fsize` 100, or the other way
  round. The receiver takes the length of each piece from the size announced
  (`xmodem.c:149`): what lies beyond it is written with a negative length, and a file
  shorter than announced ends without an error.

Only model-checked: liveness (`AllDelivered`, `Refreshed`, `FlipHappens`,
`FlipShown`, `Ends`, `CallEnds`), which with ENABLED is out of the prover's reach.
Every safety property of a passing run is proved.

## 5. What is left out

* Inside modelled parts: OUTSPI_BOT differs from OUTSPI_TOP by clock polarity
  only, and one description serves for both; the order of bits within a word is
  wiring. Reads, `dirread`, `info` calls and the calls that return an
  error without effect (mkdir, rmdir, link, chdir) change no file. Errors from
  the flash driver and partly programmed pages are not in `Mtffs`; the latter are
  in `SharedSpi`. `O_TRUNC` is not handled by the code and so neither here.
* `Xmodem` leaves out packets of 1024 bytes from the transmitter (the receiver's
  side of them is there) and the value of check sums. The receiver's third way
  to fail, "too many retry", cannot be reached against this transmitter, which
  gives up as soon.
* `M25pxx` leaves out the calls nobody makes: sector and bulk erase, fast read,
  identification, deep power-down, the status register.
* `LuaThreads` leaves out `e_thread_suspend`, delays, the preemptive variant,
  which is not configured, and the out-of-memory paths of `e_thread_new`
  (`lthreadlib.c:162-166, 174-178, 196-202`). It collects only while a
  thread's Lua code runs (`"vm"`). The code also checks for a collection inside calls
  of the API (`lapi.c:141`, `831`, the pushes of strings in lua_ref). In `lua_threads`
  these find nothing to collect in `e_thread_new`: no thread has ended yet, and each
  state is on the creator's stack or in the registry. lua_unref, which ending threads
  run, allocates nothing. `lua_create` shows its violation without them.
  `Mtshell` leaves out the commands that run inside the shell, and
  the history, which the code never writes.
* `simplepwm.vhd` is a comparator; `mymem.vhd`, `mypll.vhd` are generated and
  appear as assumptions.

Not modelled:

* *Interrupt UART and VIC of the BSP*: flag and character are plain globals; what a
  compiler makes of the loop that waits for the flag is not defined by the
  source, and losing characters is what a mailbox of one does by design.
* *eCos serial driver of the STR7xx*: masks and unmasks one channel beneath the
  serial framework, which is third-party and does the buffering.
* *STR7xx flash driver*: a register sequence with a busy wait, used in another
  configuration.
* *gfxlib*: sequential drawing, its loops over data. The display models take every
  pixel a drawing call can ask for.
* *mcf*: its peers are boot loaders whose source is not in the repository.
* *File and system commands of the shell*: they print what MTFFS and eCos return.
* Emulation, demos, test benches, superseded sources, third-party code (most of
  the repository's lines: eCos packages, FreeRTOS, uC/OS-II, Lua, lpc21isp).

## 6. Plan

1. gfxlib's line, circle and clipping as functions against reference definitions.
2. `Mtffs` over `M25pxx`: a block written page by page, so that a loss of power
   leaves part of one, and flash errors that a call returns.
3. `Mtffs` with `"stale"` in a configured run, once the state space allows it.
4. Transfers whose packet numbers wrap: what remains true of them beyond `Short`, as
   long as no packet is repeated out of turn.
