# A verification project for the OpenEZX boot loader (gen-blob)

gen-blob is the boot loader of Motorola's EZX phones (PXA27x).  At power-up it
decides, from RAM flags, keys and flash, whether to boot a kernel from flash,
to boot one from an MMC card chosen in a menu, or to serve commands over USB:
download to RAM, read back, checksum, program the flash, jump.  It is
single-threaded C without interrupts; the concurrency is between the loader,
the USB device controller (UDC), the host, the flash chip, the power chip, the
timer and the card.  Beside it the repository builds a diagnostic console on
the serial line, with commands to look at and to test memory.

The modules here model its core logic, TLC checks them on small instances, and
TLAPS proves theorems about them for every value of their constants.
`PROJECT.json` lists components, runs, mutants (a slip in a definition and the
property that notices it), the map from definitions to source lines, hazards
and theorems.

    tlc -workers 2 -config UsbTransport.cfg UsbTransport     # and the other runs
    tlapm UsbTransportProofs.tla        # and BootModesProofs, PowerControlProofs,
                                        # Ep0ControlProofs, BlobParserProofs,
                                        # MemoryCommandsProofs, CardBootProofs,
                                        # ConsoleProofs

## 1. The system

| Part (src/src/blob unless said) | State | Operations | Interacts with |
|---|---|---|---|
| boot_modes.c, main.c | flags in RAM and flash | enter_simple_pass_through_mode, boot_menu | everything below |
| linux.c | the tags in RAM | boot_linux | boot_modes; read by the kernel |
| usb_ctl.c | sm_state, usbd_info.state | udc_int_hndlr, usbctl_next_state_on_event, pxa_usb_start/stop | polled by boot_modes; calls ep0, ep1, ep2, usb-mot1 |
| usb_ep0.c, lib/time.c | ep0_state, wr, req_flag; the counter | setup packets, descriptor writes; msleep | usb_ctl |
| usb_ep1.c, usb_ep2.c | ep1_len/ep1_remain, ep2_len/ep2_remain | send, recv, done, reset, interrupt | callbacks into usb-mot1 |
| usb-mot1.c | cur_tx_buf, next_tx_buf, rx_buf | ezx_usb_xmit, tx_callback, rx_callback, ezx_usb_open | bl_parser |
| bl_parser.c | recvCmd, recvData, flags; out1, out2, in | parse_data, parse_send_packet | bl_cmds_handler |
| bl_cmds_handler.c, bl_utility.c | load address | FLASH, ADDR, BIN, RBIN, RQRC, RQCS, RQHW, RQVN, JUMP, POWER_DOWN | flash, RAM, usb_ctl |
| flash.c, intel16.c, lubbock.c | flash_blocks, the chip | unlock, erase, program, verify | the chip |
| menu.c | menu, heap | parse_conf_file, get_line, get_cmd_word | file |
| keypad.c, printlcd_8bit.c, vsprintf.c | frame buffer, cursor, menu entry | get_key, show_menu, printlcd, sprintf | boot_modes |
| file.c, part_dos.c, fat.c | partition, FAT buffer, current directory | detectfs, cd, read | mmc |
| mmc.c | the card's registers, resp | mmc_init, mmc_bread, mmc_exit | the card |
| pcap.c | copies of the registers, polarities | bit_set, bit_clean, power on/off | the power chip |
| src/src/diag, src/src/lib | line, history, list of commands | GetCommand, parse_command, help | the user |
| debug.c, chkmem.c | memory, list of errors | memcpy, poke, peek, dump, bitchg, call, chkmem | console |
| HW_init.c, md5, LED, init lists | | register set-up, support | |

What is hard about it: the interrupt handler reads the status registers once
and acts on the copy while packets and bus events go on; callbacks start new
transfers from inside the completion, or the abort, of old ones; endpoint 0
pushes packets without asking whether the last one was taken; a frame is cut
into packets anywhere and its parse resumes from statics; a flash update can be
interrupted by a fault of the chip or by the battery between any two steps;
the card loses commands and answers whose results nobody looks at; text and
bar of the menu scroll by different counts; lengths and addresses live in 16
and 32 bits, and the timer wraps.  `PROJECT.json` lists these hazards at their
lines.

What makes each part correct:

- *transport*: every response the handlers make is dropped whole or delivered
  whole, in order, once; buffers do not leak; neither direction stalls.
- *ep0*: the host reads a beginning of the descriptor it asked for, and in the
  end all of it; a sleep is never too short.
- *parser*: what is carried out is what the host sent, however it was cut; after
  a frame that was given up it gets back in step.
- *memory commands*: what the answers let the host believe of RAM and flash is
  true, and no byte changes that it did not name.
- *flash update*: only the region named is touched, the old image is gone
  before the first unit of the new one is there, and the answer tells the truth.
- *boot modes*: an image is booted only when it is complete; no flag starts the
  USB mode twice; the kernel finds the command line that was chosen.
- *card, files, menu*: the card is taken for what it is, a path leads to the
  file of that name, read completely and in order, and an entry boots what its
  lines say.
- *display*: the screen shows what was printed, and the bar marks what ENTER takes.
- *power*: the copies agree with the chip, the supplies are as asked last.
- *console*: the command that runs is the one on the screen, and the memory
  commands and the memory test do and say what their help says.

## 2. The modules

**UsbTransport** models usb_ctl.c, usb_ep1.c, usb_ep2.c, usb-mot1.c, the
response buffers of bl_parser.c and the end of handle_command_JUMP.
`Poll` is the test of ICPR in the main loop and the snapshot at the top of
udc_int_hndlr; `HandleBusNoReset` and `HandleReset` are its bus branches,
`HandleEpA`, `HandleEpB`, `Drain` and `Return` the rest, each a step, so the
host and the UDC act between them.  A callback is an ordinary call in C; so the
operators `ep1_done`, `tx_callback`, `ezx_usb_xmit` map a transmit state to the
next one and are composed inside the step that calls them.  `tx` collects the
transmit variables, `armed` is ep2_len # 0, `isr` the two status registers and
`snap` the handler's copies.  The history variables `dead`, `offline`, `epoch`
and `count` serve the properties only.
*Assumed of the hardware* (which is not in the repository): a status bit is
latched when its event happens, whatever the enable bits say, and stays until
it is written; both bulk endpoints have two FIFO halves; a bus reset empties
the FIFOs; the same bus event does not happen twice within the few
instructions between reading and clearing UDCISR1 (it takes milliseconds).
The enable bits decide what raises ICPR: usb_ctl.c:552 leaves suspend out.
A bulk OUT zero-length packet may or may not come with PC set.

**ResponseQueue** is what the transmit side promises: a bounded FIFO of
responses that drops whole responses when full and is emptied by a reset.
`QueueRefinement` maps cur_tx_buf and next_tx_buf to that queue.

**BlobParser** models parse_data byte by byte.  `p` holds the statics;
`parse_data` is the function applied to one packet; `Bin`, `Text` and `Name`
are the sections of the code, the code for the first packet and for the later
ones being the same function of what has been collected (lines 462-562 and
566-661 differ in wording only; the map names the later one).  The host cuts
frames into packets at will, puts noise between them and may give one up.
**CommandChannel** is what it promises: one request at a time, carried out once
as it was made; `ChannelRefinement` is the mapping.

**FlashUpdate** models handle_command_FLASH with flash.c and intel16.c.  A unit
is one buffered write (64 bytes), a block 128 KiB; addresses wrap at
`AddrSpace`.  `Command` makes all checks in their order (`Verdict`); `Unlock`,
`Erase`, `Program` take a block or a unit per step; `VerifyOk` and
`VerifyError` are the compare loop with the 16-bit status, reduced to where the
first wrong half-word of the block is (`Truncated`).  `CellFault`, `Timeout`,
`EraseFails`, `UnlockFails` are the faults of the chip and `PowerLoss` cuts the
operation under way short.  `Restart` is a start without a loss of power: the
chip is reset with the processor, or it keeps its lock bits.

**BootModes** extends FlashUpdate with enter_simple_pass_through_mode: `mode` is
where that function is or what it has led to, `flag` the word at 0xa1000000,
`menu` the cursor and go_menu_entry, `boot` what the last start boots and, for
a kernel in the flash, the copy of it in RAM.  Every test of a key is an input,
so each branch on one may go either way at each of its two places in the code.
A unit of an image begins with KERN_ON_FLASH_FLAG or does not: that is left
open (`MayHoldFlag`), and with it which of the two slots is taken, although the
code looks at GEN1 first.  `Copied` keeps the sizes of lubbock.h: KERN_MAX_SIZE
(896 KiB) is more than the distance of the slots (512 KiB), so the copies
overlap.  What lies between two starts is in the module too: the host's
commands (`HostCommand`, `FlashStep`, `Jump`), a running kernel that stores a
flag and restarts (`StoreFlag`, `RestartPhone`), the battery (`LosePower`,
`PowerOn`).  The history `hist` holds the region of each accepted command and
which images were acknowledged before the chip had any fault.
*Assumed*: RAM keeps the flag over a restart, and over a loss of power it keeps
it or holds something that is no flag; a unit whose first word is wrong, or
which is blank, does not show the flag.

**FatContents** is get_fatent with its buffer, get_cluster and get_contents.
`cache` says for every entry of fatbuf which part of the table it was read for,
so a read that fails after any number of entries, with fatbufnum unchanged
(fat.c:233), is visible: `Hit` and `Miss` give what get_fatent may return.
`Extend`, `GetRun`, `GetLast` are the inner loop, the code at `getit` and the
end of get_contents.  A byte of the card is its distance from where cluster 0
would be; `FileByte` says where the bytes of a file are.
**FatFile** extends it with the look-up of do_fat_read.  A directory is a
sequence of slots, a name a sequence of the parts that one slot of a long name
holds; characters, case and checksums are left out.  `get_vfatname` returns the
outcomes of that function, with the table look-up it makes; `Compare` is the
part the root directory and get_dentfromdir share.  `lost` records that the 0 of
a failed look-up was used as a cluster, which only FAT32 lets happen: the
properties make that exception and no other for failures.
**MCFatFile** has the volumes: sixteen- and thirty-two-bit tables, files of 0 to
3 clusters in eight orders of the clusters, and directories whose long name lies
within a cluster, ends at its end, or crosses it.
*Assumed*: chains are well formed and long enough, the root directory has an
end mark, and on FAT32 it is the first cluster.  The directory entry that is used
after its block was left (fat.c:987, 1020) keeps its contents: no other variable
of do_fat_read is alive there.

**MemoryCommands** has every command handler of bl_cmds_handler.c as one step
on `mem`, the flash and the RAM: the loader answers a command before it looks at
the next one.  Numbers travel as characters (`Hexasc`, `util_hexasc_to_u32`)
with a sum over them (`ChecksumOk`); an address has two hexadecimal digits in
place of eight.  `align` is where the linker put the receive buffer, which
decides how `MoveRight` shifts a BIN payload over itself.  `known` and `target`
are history: what the host may conclude from the answers, and the last accepted
ADDR.  RQCS, RQHW and RQVN read `debug_flash_header`, the header that
bl_cmds_handler.c carries; the code does not read the one in the flash.  The
FLASH handler is atomic here; its steps are in FlashUpdate.

**PowerControl** is pcap.c over the four GPIO lines.  A register is the set of
its bits that are one, a frame the same; `board` says which lines are inverted.
`Attempt` and `Test` are the search for the polarities, `Fill` the reading of all
registers into the copies, `Do` the call itself.  A frame sent while the chip
powers up may be lost (`MaxLost`); `Event` sets bits of the interrupt register.
The properties speak from the moment a test value has come back (`talking`).

**Ep0Control** is usb_ep0.c with a host that runs one control read after the
other: `sh_setup_begin` tells all requests apart, `Sleep`, `WakeUp` and
`write_fifo` are the loop that pushes a packet a millisecond, `Wait` the poll for
the empty status packet.  The host may not take a packet in time (`MaxLate`),
ask for fewer or more bytes than there are, send data, give up, and reset the
bus.  Endpoint 0 runs inside the handler that UsbTransport models and touches
none of its state; so the two are separate modules.  **Timer** is msleep of
lib/time.c on a counter that wraps, with up to `Lag` ticks between two looks at
it; Ep0Control extends it.

**Console** is GetCommand with the ring of the history (`cmdhist_next`,
`cmdhist_prev`), the words of the line and the look-up of the command.  The
buffer is `line` and its last byte, which may or may not be NUL.  **MemoryTools**
has the commands that change or show memory, as functions of the memory and the
words of the line, and chkmem, a sweep over an area per step, on a memory that may have a stuck
bit or two words that are one.

**MmcCard** is mmc.c with the card at the other end: a step is one `mmc_cmd` and
what the code does with its result; a command, an answer or the data of a block
may be lost (`MaxFaults`).  It has the registers of the card, cut into fields by
UNSTUFF_BITS, the clock, and the search for the partition (part_dos.c).
**MenuConfig** is parse_conf_file, a character or a line per step, with the heap
that is never given back.  **LinuxTags** is boot_linux as a function on the
bytes behind BOOT_PARAMS and the walk of a kernel over them.  **CardBoot** composes the
three: the card is initialised, the file read and parsed, an entry chosen, its
kernel loaded and the tags written.  Of file_fat_read it takes what FatFile
shows: the whole file or, after a failed read, a part of it and -1.
*Assumed*: a card answers a command only in the state it is meant for, and wakes
after some number of tries.  `CardAssumption`: no card chooses the address 0
(selecting 0 is how the driver deselects).  `RateAssumption`: the `rate` of a card is
what its CSD names, with no reserved value and not below the slowest clock of the host.
`TablesAssumption`: `tables` of a card is the chain of its partition tables, in which
each points to the next and the last to none or to an unsigned sector
(`ChainNamed`), and `parts` numbers the partitions in them (`PartsNamed`); the chain
is finite, as the code would follow an endless one for ever.  `MenuAssumption`: the
buffer of a file lies in the heap.  `LinesAssumption`: the memory behind BOOT_PARAMS
has room for three tags with a line of COMMAND_LINE_SIZE, and the line of an earlier
start was cut by setup_commandline_tag.

**Format** is vsprintf.c on formats taken apart into conversions, with the number
printing of lib/serial.c beside it.  **Display** is the frame buffer: a pixel row
of a character cell is a slice of background and glyph, so that what can be
*read* in a cell (`ReadCell`) is defined from what lies in memory.
**MenuScreen** extends both with what the boot modes and the menu print, the bar,
and the keypad with keys held and bouncing.

The modules that begin with MC give the constants of a run that a .cfg cannot
write down: formats, files, cards, volumes, requests, checksums.

A definition `F_something`, placed before `F` (such as `ADDR_wrong`, `NumAt_used_only`,
`init_commands_short`), is `F` with a plausible slip.  No module uses it: put in
the place of `F` it shows which property notices the slip.

## 3. The runs

| Run | Bounds | What it shows |
|---|---|---|
| UsbTransport | responses of up to 3 packets (first, middle, last), 3 OUT packets (one more than the FIFO, and more responses than buffers), 2 resets (stale data of one epoch met by the next), 1 suspend | `BufferOwnership`, `NoLostTxInterrupt`, `NothingLeftBehind` (receive interrupts, suspends, both directions, the FIFO), `HostOrder`, `QueueRefinement`, `GoesOn` |
| FlashUpdate | 3 blocks of 4 units, 2 commands, 1 fault of each kind, 1 power loss; destinations and sizes aligned and not, beyond the chip, wrapping, and zero | `OutsideUntouched`, `ErrorsNeedFaults`, `NoMixedImage`, `AckUnlessTruncated`, `Answered` |
| BlobParser | names of up to 2 bytes, BIN payloads of 1 or 2 bytes over {STX, ETX}, packets of up to 4 bytes, one frame given up | `RecvDataFits`, `BackInStep`, `ChannelRefinement`, `Answered` |
| BootModes | 3 blocks of 2 units, 2 flag addresses whose copies overlap, 2 commands, 1 fault, 1 loss of power, 1 flag stored, 1 restart, menus of up to 2 entries | `FlagUsedOnce`, `WholeImageBooted`, `FlashRefinement` |
| FatFile | tables read 2 entries at a time, clusters of one sector with 4 slots, 2 failing reads, maxsize none or less than the file | `FileAsStored` (no stale entry, the bytes of the file, one fault is noticed), `FoundUnlessCut`, `Answered` |
| MemoryCommands | 4 commands, bytes 1 and 255, sizes about a word and a flash block, every alignment of the buffer, right and wrong checksums | `UploadIsThere`, `AnswersTrue`, `NothingElseChanges` |
| PowerControl | registers of 3 address and 6 value bits, all boards, all power-up values of the supplies, 1 lost frame, any sequence of calls | `CacheTrue`, `AsAsked` |
| Ep0Control | FIFO of 2 bytes, descriptors of 3 and 4 bytes, 1, 3, 4 or 5 bytes wanted, 1 late packet, 2 resets, a counter modulo 16 with a sleep of 5 ticks and 2 between looks | `ReadsDescriptor`, `SleepsFullTime`, `Enumerates` |
| Console | buffer of 5 bytes, ring of 3 lines, three commands of which two share a beginning | `ShownIsRun`, `RecallOrder` |
| MemoryTools | 64 words of 8 bits in bytes of 2, 2 areas, 31 kinds of memory: sound, 24 stuck bits, 6 pairs of words that are one | `CommandsAsHelped` (with what dump shows), `VerdictTrue` (with what chkmem lists) |
| CardBoot | a card for every rate a CSD can name, five layouts of partitions, slow cards, 2 losses, 3 retries, 2 later reads, a heap and a file buffer that some of the files fill | `ReadsTrue`, `CardUnderstood`, `BootsAsWritten`, `KernelSeesLine` |
| MenuScreen | 4 rows of 5 cells and 36 pixel rows, menus of 0 to 5 entries; words of 8 bits, all flags, 5 widths, 4 precisions, 9 numbers | `ScreenShowsText`, `MarkIsTaken`, `PrintsWhatIsMeant` |

Why the bounds are enough: the transport has two slots and two FIFO halves, so
three packets meet every full and empty case; the parser's decisions depend on
one separator at a time and a cut before and after each; blocks are treated
alike, so first, middle and last are three, and a unit in the first and in the
second half of a block, at its start or later, are four.  For the boot modes one
image and one update of it, or of the other slot, cut short by a fault or the
battery are what a damaged kernel needs; a flag is served twice, if ever, by
the second of two starts; two entries have a first, a last and a wrap.
Two failures are what it takes to pass
the retry in get_contents; two entries a buffer make every other step of a chain
leave it; four slots place a name of two in every position towards the end of a
cluster.  ADDR, BIN, a second ADDR or BIN and a question are four commands.  A
descriptor that fills its last packet and one that does not, with fewer, as
many and more bytes wanted, take every branch of the short packet; a second
reset meets what the first left.  A ring of three wraps on the third line.  Five
entries in four rows are one more than the screen holds.  The loss of an answer
and of what follows it is what makes driver and card disagree; the constraint
`FewFiles` keeps the configuration files with losses to a selection of them, as
the parser does not know why a file is short.
Deadlock is not checked where the bounds stop the host, where the
loader has left (transport) and where the code ends in `while (1)` (boot modes,
menu, card) or returns (FatFile).

Fairness: the loader's loop never blocks and polls for ever, so `WF(Device)`
and `WF(Loader)`; a USB host polls an IN endpoint that it reads from and ends a
suspend before it talks again, so `WF(HostIn)` and `WF(BusResume)`; the host of
the parser goes on with a frame it began, `WF(Send)`; reading a file is one
sequential function, so `WF(Next)`.  In Ep0Control the loader polls,
`WF(Device)`, a host goes on with a transfer it began, `WF(HostGoesOn)`, and
`SF(WakeUp)`: msleep ends only if a look falls between the end of the sleep and
the next wrap, and the looks do not keep step with the counter, which turns in
20 minutes while they are microseconds apart.  No fairness is assumed
of requests, resets, faults or power losses, and none at all in the other
runs, whose properties are safety properties.

Exceptions that the properties state: within `NothingLeftBehind`, a response
queued while the device was suspended stays until the next reset
(usb-mot1.c:123 keeps cur_tx_buf when ep1_send refuses), after a zero-length
packet that is reported as -EPIPE, or a JUMP, ep2 is not armed again, and one
packet of the time before a reset may be left in the FIFO;
`AckUnlessTruncated`; `WholeImageBooted` (an update that begins behind the flag of a
kernel, such as one of the GEN2 slot behind a kernel of GEN1 that reaches into
it, leaves the flag and destroys the rest: `Overwritten`); the given-up BIN
frame in `Answered` of the parser; `lost` and `CutName` of FatFile; a packet
pushed over one that was not taken (`overrun`) in `ReadsDescriptor`; a line that
fills the console's buffer in `ShownIsRun`; areas whose halves differ in
`VerdictTrue`; lines that fill get_line's buffer in `BootsAsWritten`; as many
entries as rows in `ScreenShowsText` and `MarkIsTaken`.  Section 5 says what the code does there.

## 4. What is proved

UsbTransportProofs proves, for all values of the bounds and under the
assumption `TransportBounds` alone:

- `TransportIsSafe`: `Spec => []TransportInv`;
- `TypeIsInvariant`, and `BuffersAreOwned`, `NoTxInterruptIsLost`: its parts, the
  last two the invariants `BufferOwnership` and `NoLostTxInterrupt` of the run;
- `DeliveryIsSafe`: `Spec => []DeliveryInv`, and from it `NothingIsLeftBehind`
  (`NothingLeftBehind`), `HostReadsInOrder` (`HostOrder`) and
  `TransportRefinesQueue` (`QueueRefinement`).  With these every safety
  property of the run is a theorem.

The argument.  None of the three is inductive alone: whether a completion
frees a buffer depends on ep1 being at work on the buffer `cur` names, whether
ep1 waits in vain depends on who runs next, and ep1_remain stays in range only
if the buffer under transmission keeps its length.  `TransportInv` joins them
with the facts that tie ep1 to the queue.  The lemmas `LoadPacketFacts` to
`PacketFacts` say what each C function does to the transmit state; `HostInv`,
`BusStageInv`, `EndpointInv` and `ReceiveFacts` lift them to the actions, and
`StepInv` puts the actions together.

`DeliveryInv` adds what ties the two sides of the bus together.  `OrderInv`:
the packets in FIFO A continue what the host took, and ep1 continues the FIFO;
after a reset, until the host has configured the device, ep1 may only pass what
the reset cut.  `TokenInv` is why ep1_int_hndlr may write the FIFO without
looking at it: a packet in FIFO A and a latched completion are worth one call of
LoadPacket each, and together they are never more than there is room for.
`QueueInv` numbers the responses after the last reset, `RxInv` says that a packet
in FIFO B has an interrupt latched or is being read, `PowerInv` that a suspend is
followed by a latched resume once the bus is active.  The queue of the
refinement is read off the transmit variables (`QueueOf`); a call that sends
appends to it, a completion removes its head, a reset empties it, and every
other step leaves it alone.

The first part of BootModesProofs proves, for every chip, destination and size and any number
of commands, faults and power losses, under the assumption `FlashAssumption`
(an even number of units in a block, and a chip and a maximal image that
together are smaller than the address space: here 32 MiB of 4 GiB):

- `FlashIsSafe`: `Spec => []FlashInv`;
- `OutsideIsUntouched`, `NoErrorWithoutFault`, `ImagesNeverMix`, `AckIsVerified`:
  the four invariants of the run; `FlashTypes` and `ImageGrowsInOrder` (an
  update cut short leaves a prefix of the image) besides.

The argument.  All of these speak of the region as a whole, while a step knows only
the loop variable; `FlashInv` adds what holds on either side of it in each
loop: what has been unlocked (`UnlockedInv`), erased (`EraseInv`) or programmed
(`ProgramInv`) behind it, that it is blank ahead of it, and that the blocks it
has left passed verification (`VerifiedInv`).  `RegionFacts`, `LoopBlock` and
`RegionBlock` are the arithmetic of units and blocks this needs: a region is
made of whole blocks, and so is what the loop has done.  `StopStep` and
`RunStep` are the two patterns of step, one lemma per action applies them, and
`NextFlash` puts them together.  `AcceptedFacts` is where the 32-bit sums are
shown not to wrap for an accepted command.

The second part proves, for every chip, menu and place of the kernels, under
`FlashAssumption` and `BootAssumption` (the flag addresses are block starts and
what is copied lies in the flash):

- `BootImplementsFlash`: `BootSpec => FlashRefinement`, every step of the boot
  modes is a step of FlashUpdate or leaves it alone; hence `FlashStaysSafe`,
  `BootSpec => []FlashInv`;
- `BootIsSafe`: `BootSpec => []BootInv`, and its parts `BootTypes`,
  `FlagIsUsedOnce`, `MenuIsSound`;
- `OnlyWholeImagesBoot`: `BootSpec => []WholeImageBooted`.

The argument for the last.  `IntactInv` says of the flash, not of the boot:
where the first unit of an acknowledged image is left, so is all of it.  An
update keeps that because it is `Orderly`: a unit changes only in the region of
the command, and while one before it in that region still belongs to an older
image none behind it does.  `EraseIsOrderly` and `ProgramIsOrderly` get this
from `EraseInv` and `ProgramInv`, for faults and losses of power as well, and
`UpdateIntact` draws the conclusion.  A new image enters with its
acknowledgement, when `ProgramInv` says that every unit of it is there
(`NewImageSound`).  `ModeInv` ties the copy in RAM to the flash it was taken
from, and `HistInv` the history to the command under way.

PowerControlProofs proves, for every width and set of registers, both
polarities of each line and any sequence of calls, lost frames and interrupts:

- `InductiveInvariant`: `Spec => []PowerInv`, where `PowerInv` joins `TypeOK`, `CacheTrue`,
  `BeforeInv`, `CallInv` and `ChipInv`;
- `TypeCorrect`, `CopiesTrue`, `ChipAsAsked`: the type invariant and the two
  invariants of the run.

The assumption is that of the module, `PowerAssumption`.  What matters in it is that MSR
does not hold the complement of the test pattern at power-up, which a line
taken the wrong way would turn into the pattern.  The argument:
`FrameArrives` says which register a frame writes under which polarity, so a
wrong polarity writes nothing the driver then reads back as the pattern; before
the polarities are found the copies are worth nothing (`BeforeInv`), after it
every change goes to copy and chip alike (`CallInv`, `ChipInv`).

Ep0ControlProofs proves `FullMillisecond`, `Spec => []SleepsFullTime`, and
`DescriptorIsRead`, `Spec => []ReadsDescriptor`.  The first holds for every
width of the counter, length of a sleep and distance of looks under
`TimerAssumption` (a sleep and one look are less than a turn of the counter).
`SleepsFullTime` is not inductive: while msleep waits for the counter to wrap it
must be known that it has not wrapped without the match bit saying so
(`NotSeen`), and that the end lies ahead (`StillSleeping`); with the type of the timer they make
`TimerInv`.  The lemmas `PassStep` to `ReturnStep` take the actions of the
timer one by one, `TimerStep` joins them, and `DriverStep` says that every step of
the endpoint is a step of the timer or leaves it alone.

The second holds for all descriptors, FIFO sizes and lengths asked for.  Its invariant
`Ep0Inv` says what each flag of the endpoint tells about the host (`FlagsInv`),
and, while the host waits for data, that the driver serves *its* request
(`Serving`): the bytes pushed so far are those before `wr.from`, the host's and
the FIFO's bytes together are these unless a packet was overrun, and the driver
goes on until a short packet or until all that was wanted is there, which is
when the host stops reading.

BlobParserProofs proves, for all names, texts, payloads and sizes of packets and
of BIN frames, and every way to cut frames into packets:

- `ParserIsSafe`: `Spec => []ParserInv`;
- `DataFits`, `ComesBackInStep`: the invariants `RecvDataFits`, `BackInStep`;
- `ParserRefinesChannel`: `Spec => ChannelRefinement`.

The assumption is `ParserAssumption`: names and texts hold none of the four
control bytes (BIN data holds any) and a size fits its two bytes; no other
name begins with that of BIN (`Names`).  The argument is about the boundary between what
the parser has and what is still to come.  A request is `Under` way when the
statics hold a first part of its frame and the rest of the frame is still to
come; `ParseStep` says that one call of parse_data keeps this or carries the
request out, wherever the packet ends, in a name, beside a separator, in the
size or in the payload.  After a frame that was given up, the parser has a stale
name or a stale text (`Stale`) and takes the next frame for more of it (`Lost`);
that frame cannot become a BIN frame, whose payload would swallow the ETX
(`StaleName`), so its ETX puts the parser back in step.

MemoryCommandsProofs proves, for every memory map, BIN payload, sequence of
commands and place of the receive buffer:

- `MemoryIsKnown`: `Spec => [](MemInv /\ AnswersTrue)`;
- `UploadArrives`, `EveryAnswerTrue`, `NothingElse`: the properties
  `UploadIsThere`, `AnswersTrue` and `NothingElseChanges` of the run.

The assumptions are `MemoryAssumption` (the flash ends on a block and below the RAM, the
RAM is longer than its first byte, and what is loaded at an address that ADDR
accepts lies in it) and `SumsAssumption` (the checksums of the header have 16
bits).  Addresses keep the two digits of the model.  The argument: `UploadIsThere`
must know where the next BIN goes, which `AddressInv` says: to the address that was
acknowledged last or, before there is one, to address 0; that is flash, where a
store does nothing, and with a payload shorter than `RAM_START` no byte of it
reaches the RAM.  Numbers and sums are folds, which are defined by a choice: `FoldExists`
shows that there is something to choose and `FoldChain` gives the chain of
values along the sequence; from it `HexValues` and `ReadBack1` to `ReadBack4` say
that the digits of an answer read as the number they were written from.
`MoveFacts` says that a payload shifted over itself by up to three bytes is whole
afterwards.  One lemma per handler shows that its step keeps the invariant, names
what it changes and answers the truth; `HandlerStep` joins them.

CardBootProofs proves, for all cards (registers, partition tables, tries until
they wake), all reads and retries, and commands, answers and data lost
anywhere:

- `CardIsSafe`: `Spec => []Inv`;
- `EveryReadTrue` and `CardIsUnderstood`: the invariants `ReadsTrue` and
  `CardUnderstood` of the run;
- `FieldsAgree`: UNSTUFF_BITS takes a field of up to 32 bits out of every register;
- `LineReachesKernel`: the invariant `KernelSeesLine`, for all files, however they are
  written and wherever their reading fails, and all sizes of the heap and the tags.

The assumptions are those of section 2.  The driver does not know what state the
card is in, so `Inv` says it: `ReadInv` gives for each place in mmc_bread the
state of the card, the blocks stored so far and the block length, and that a read
that goes to "status" has lost something or found the card still selected from
a loss in the read before; `calls` keeps the two numbers of faults this needs.
`KnownInv` counts tries, losses and the tries until the card wakes together, for the
reasons of -2, and ties what was decoded to the registers.  `LookupInv` says that
the look-up stands at a table of the chain with the number of its first partition
and that no table before it has the number asked for, so that the first hit is
the partition and an end without a hit means that there is none
(`NumbersAgree`, `NotFound`).  `AfterIs` lists what may come of a command, and
one lemma per command and one per action follow from it.  For the fields,
`WordIs` finds the bits of the register in the halfwords of the answer, and
`UnstuffIs` in one word or two.

`LineReachesKernel` has an invariant of its own, `LineInv`: every cell of the heap
holds a character and the one behind it a 0, the line that is read lies with its
whole buffer in the heap, and the addresses in the menu are of the heap.  So each
string of the menu ends, and has no 0 in it; without the 0 behind the heap `Param`
could find nothing.  `TagsLie` is what boot_linux leaves in the RAM, whatever lay there
(`CmdlineIs`), and a kernel that finds it reads the line (`KernelReads`).  The walk of
the kernel is a recursive function: `WalkExists` shows that there is one, from the
last address down, by `AllNumbers`, induction over the members of a set.

ConsoleProofs proves, for every size of the buffer and the ring, every list of
commands, all lines and all ways to type, rub out, recall or be cut off:

- `RingIsKept`: `Spec => []Inv`;
- `LinesAreRecalled` and `WhatIsShownRuns`: the properties `RecallOrder` and
  `ShownIsRun` of the run.  With these every property of Console is a theorem.

The assumption is `ConsoleAssumption`: a line that is typed fits the buffer, the ring
has two places or more, no two commands of the list have one name, and help is one of
them.  The ring itself does not say which of its slots is which line; `IsRing`
does: the line given n lines ago lies in `Slot(cmdhist_write, n)`, and a slot of
no line is empty.  `RingPushed` keeps that through the wrap, and `SlotBefore` and
`SlotBehind` are the step of each arrow key; that KeyDown stops at
`cmdhist_write`, and both at an empty slot, is what makes them recall a line that was
given.  With `screen = line` in the invariant, what runs is what is shown.
That it is also what is meant is a fact about every line, `EveryLineUnderstood`.
parse_args is a recursive function over the characters, which TLA+ defines by a
choice: `ReadsExists` shows that there is one, and `BlankStep`, `InWordStep` and
`NewWordStep` that after n characters its words are the stretches without a blank
among the first n, the last of them still open when no blank came after it.
`ListIs` follows the links of init_commands, from the last command back, and
`OneOrMore` says when a name is ambiguous.

## 5. What is only model-checked, what the code does otherwise, what is not modelled

Liveness (`GoesOn`, `Answered`, `Enumerates`), the properties of FatFile,
MemoryTools and MenuScreen, and `BootsAsWritten` of CardBoot are TLC's.  Every
temporal property under fairness is out of the prover's reach, and so is in
general what a recursive definition computes for every input (the printing of
numbers, the chain of clusters).

Where the code does other things than its comments say, or than one would
expect, the models follow the code:

- JUMP puts its ACK into the FIFO and stops the UDC at once, so the host may
  never read it (bl_cmds_handler.c:1240 against 1229).
- RQCS takes a checksum of 0 of the boot code for one that is not there, and sends an
  empty table (bl_cmds_handler.c:1420); `AnswersTrue` excepts it.
- The length left at a mismatch is returned in 16 bits (flash.c:376), and a
  time-out returns the status word (346): two values of the one and one of the
  other are 0, and the command is acknowledged (bl_parser.c:705).
- A BIN frame without its ETX is answered with an error, but the parser goes on
  taking data for it (bl_parser.c:654 against 411).
- A long name that reaches the end of a cluster loses a slot, or hides its file
  (fat.c:478 against 452).
- The poll for the status packet takes whatever has come (usb_ep0.c:462), so it may
  acknowledge the next SETUP packet unread; the test that told them apart is
  compiled out. The host's time-out repairs it.
- GetCommand polls on while a character *is* there (diag/commands.c:67 against
  lib/serial.c:104), so the time-out is looked at only then; parse_args
  does not count to MAX_ARGS (lib/command.c:113); help takes full names only.
- The or and the and test of chkmem compare halves that were never made equal
  (chkmem.c:574-611) and so fail on sound memory; the result of the
  stuck-address test is not looked at; two words of different areas that are
  one are not found; bitchg works on address 0 (debug.c:412); call passes its
  second word as all four arguments.
- VAP_MASK clears nothing (pcap.c:795), so the voltage fields are only added to.
- The card: an answer "powered up" that is lost is not asked for again (-2);
  the check sums of answers, the capacity and the block size are not used; a limit
  of 19.5 MHz is taken for 20 MHz (and so on down), which does no harm as a CSD
  can name no rate in between; only partition 1 is used.
- The configuration file: a read that fails answers -1, which is not 0, so
  the part that was read is parsed with a count that never reaches its end
  (menu.c:76, 92); an empty file leaves the menu uninitialised, which boot_menu then uses
  (boot_modes.c:270); lines of exactly 64, 128, ... characters run on into the
  next piece of the heap; when the heap is used up the rest is left out.
- An empty command line writes no tag, and what an earlier start left may be read.
- Printing: precision 0 of 0 prints a 0, the flag 0 is kept beside a precision, 0
  has its prefix; nothing bounds the text of a message to its buffer.
- The menu: the last cell of the marked row stays dark; with as many entries as
  rows the bar falls below the text, with more into the descriptors of the LCD,
  and entry 0 scrolls off the screen; glyphs have no ink in the last two rows.

Not modelled, and why: register and clock set-up (HW_init.c; constants without
state); code that is compiled but not reached or not linked; md5, LED and the
init lists; the texts of descriptors and messages beyond what the properties
are about; vertical lines, palette and panel timing; listings of directories and 12-bit tables; `%n`;
cards that are not SD cards; the memory, RAM disk and initrd tags (never
written); flash chips that never end an erase (intel16.c:68 waits without a
time-out, so the loader hangs by construction).

## 6. Plan

Done: (1) transport, (2) flash update, (3) parser, (4) boot modes, composed with
the flash update, (5) endpoint 0 and the timer, (6) reading files, the card, the
partitions, the configuration file and the tags, (7) memory commands, power
chip, console, memory test, display and formats; (8) proofs of every safety
property of the transport, the flash update, the parser, the boot modes, endpoint 0,
the memory commands, the power chip, the console and, of the card, its driver, its
tables and the command line that the kernel gets.  Next:

9. Proofs: of `FileAsStored` what needs no induction over the chain of clusters.
10. 12-bit tables; Ep0Control and UsbTransport under one interrupt handler.
