------------------------------ MODULE BootModes ------------------------------
(***************************************************************************)
(* enter_simple_pass_through_mode: from power-up or a restart to the USB   *)
(* mode, to a kernel out of the flash or from the card, or to an error     *)
(* message; and what lies between two starts: FLASH commands of the host   *)
(* (FlashUpdate), a running kernel, restarts and losses of power.          *)
(*                                                                         *)
(* Keys are inputs: every check of the keypad has either outcome.          *)
(*                                                                         *)
(* A definition F_wrong is F with a plausible slip in it, to be put in the *)
(* place of F.                                                             *)
(***************************************************************************)
EXTENDS FlashUpdate

CONSTANTS FlagAddrs,    \* GEN1_KERN_FLAG_ADDR and GEN2_KERN_FLAG_ADDR
          KernUnits,    \* KERN_MAX_SIZE and the flag before it
          MaxEntries,   \* entries of the menu
          MaxAsked, MaxStarts   \* bounds: flags stored, restarts

ASSUME BootAssumption ==
  /\ KernUnits \in Nat \ {0}
  /\ FlagAddrs \subseteq Units
  /\ \A a \in FlagAddrs : a % BlockUnits = 0 /\ a + KernUnits <= FlashSize
  /\ MaxEntries \in Nat /\ MaxAsked \in Nat /\ MaxStarts \in Nat

VARIABLES
  mode,   \* where enter_simple_pass_through_mode is, or what it led to
  flag,   \* the word at 0xa1000000
  menu,   \* the menu: number of entries, cursor, go_menu_entry
  boot,   \* what the last start boots
  hist    \* history: regions of accepted commands, images acknowledged by
          \* a chip without a fault so far, flags stored and served, restarts

bootVars == <<mode, flag, menu, boot, hist>>
allVars  == <<vars, bootVars>>

\* Entries are numbered as in the menu; beside them there are no entry, the
\* built-in "/boot/default", and what an uninitialised pointer leads to.
NULL    == -1
Default == -2
Wild    == -3

NoMenu == [num |-> 0, curr |-> 0, go |-> NULL]
Junk   == [NoMenu EXCEPT !.num = Wild]
NoBoot == [from |-> "none"]

BootInit ==
  /\ Init
  /\ mode = "start" /\ flag = "junk"
  /\ menu = NoMenu /\ boot = NoBoot
  /\ hist = [sent |-> [i \in 1 .. MaxCommands |-> [dest |-> 0, size |-> 0]],
             sound |-> {}, asked |-> 0, served |-> 0, starts |-> 0]

-----------------------------------------------------------------------------
(* The start: flags, keys, flash.                                          *)

Requests == {"USBMODE", "DUMPKEYS"}

Serve(h) == [h EXCEPT !.served = @ + 1]

EnterDumpKeys ==
  /\ mode = "start" /\ flag = "DUMPKEYS"
  /\ mode' = "dumpkeys" /\ flag' = "NO_FLAG"
  /\ hist' = Serve(hist)
  /\ UNCHANGED <<vars, menu, boot>>

EnterUsb_flag_kept ==
  /\ mode = "start" /\ flag # "DUMPKEYS"
  /\ mode' = "usb" /\ UNCHANGED flag
  /\ hist' = IF flag = "USBMODE" THEN Serve(hist) ELSE hist
  /\ UNCHANGED <<vars, menu, boot>>

EnterUsb_blocks_unlocked ==
  /\ mode = "start" /\ flag # "DUMPKEYS"
  /\ mode' = "usb" /\ flag' = "NO_FLAG"
  /\ hist' = IF flag = "USBMODE" THEN Serve(hist) ELSE hist
  /\ locked' = {}
  /\ UNCHANGED <<flash, pc, cmd, cur, reply, count, before, silent, menu, boot>>

\* By the flag or by a key of check_enter_usb.
EnterUsb ==
  /\ mode = "start" /\ flag # "DUMPKEYS"
  /\ mode' = "usb" /\ flag' = "NO_FLAG"
  /\ hist' = IF flag = "USBMODE" THEN Serve(hist) ELSE hist
  /\ UNCHANGED <<vars, menu, boot>>

\* Neither a flag nor a key of check_enter_usb.
NormalStart == mode = "start" /\ flag \notin Requests

\* Whether a unit begins with KERN_ON_FLASH_FLAG: an image has it there or
\* not, a damaged unit may have kept it; a blank unit, or one with its first
\* word wrong, does not show it.
MayHoldFlag(u) == flash[u] \notin {Erased, BadHead}

Copied_flag_not_counted(a) == a .. a + KernUnits - 2

\* The flag and what is copied after it.
Copied(a) == a .. a + KernUnits - 1

\* No key of check_enter_menu.
BootFlash ==
  /\ NormalStart
  /\ \E a \in FlagAddrs :
       /\ MayHoldFlag(a)
       /\ boot' = [from |-> "flash", at |-> a,
                   ram |-> [u \in Copied(a) |-> flash[u]]]
  /\ mode' = "running"
  /\ UNCHANGED <<vars, flag, menu, hist>>

\* A key of check_enter_menu, or no kernel in the flash.
TryCard ==
  /\ NormalStart
  /\ mode' = "card"
  /\ UNCHANGED <<vars, flag, menu, boot, hist>>

-----------------------------------------------------------------------------
(* The card and the menu.                                                  *)

\* No card, or a configuration that parse_conf_file refuses: while (1).
CardFails ==
  /\ mode = "card"
  /\ mode' = "stuck"
  /\ UNCHANGED <<vars, flag, menu, boot, hist>>

\* An empty file is reported with 1, which is not < 0: the menu on the stack
\* is then what it was, uninitialised.
ReadConfig ==
  /\ mode = "card"
  /\ menu' \in {Junk} \cup {[NoMenu EXCEPT !.num = n] : n \in 0 .. MaxEntries}
  /\ mode' = "config"
  /\ UNCHANGED <<vars, flag, boot, hist>>

Load(entry) == mode' = "load" /\ boot' = [from |-> "card", entry |-> entry]

\* No key of check_enter_menu any more: the kernel is "/boot/default".
LoadDefault ==
  /\ mode = "config"
  /\ Load(Default)
  /\ UNCHANGED <<vars, flag, menu, hist>>

\* show_menu: go_menu_entry becomes the entry whose id is curr_entry.
Show(c) == menu' = [menu EXCEPT !.curr = c, !.go = IF c < menu.num THEN c ELSE @]

EnterMenu ==
  /\ mode = "config" /\ menu.num > 0
  /\ Show(0)
  /\ mode' = "menu"
  /\ UNCHANGED <<vars, flag, boot, hist>>

\* boot_menu returns -1; or it works on an uninitialised menu, with no entry
\* or with whatever is taken for one.
NoMenuEntry ==
  /\ mode = "config" /\ menu.num \in {0, Wild}
  /\ \/ mode' = "stuck" /\ UNCHANGED boot
     \/ menu = Junk /\ Load(Wild)
  /\ UNCHANGED <<vars, flag, menu, hist>>

Up ==
  /\ mode = "menu"
  /\ Show(IF menu.curr = 0 THEN menu.num - 1 ELSE menu.curr - 1)
  /\ UNCHANGED <<vars, mode, flag, boot, hist>>

Down ==
  /\ mode = "menu"
  /\ Show(IF menu.curr + 1 = menu.num THEN 0 ELSE menu.curr + 1)
  /\ UNCHANGED <<vars, mode, flag, boot, hist>>

Enter ==
  /\ mode = "menu"
  /\ IF menu.go = NULL THEN mode' = "stuck" /\ UNCHANGED boot
                         ELSE Load(menu.go)
  /\ UNCHANGED <<vars, flag, menu, hist>>

\* file_fat_read; an entry without a kernel line passes NULL to it.
BootCard ==
  /\ mode = "load"
  /\ mode' \in {"running", "stuck"}
  /\ UNCHANGED <<vars, flag, menu, boot, hist>>

-----------------------------------------------------------------------------
(* The USB mode, running code, restarts and the power.                     *)

HostCommand ==
  /\ mode = "usb"
  /\ \E dest \in Dests, size \in Sizes,
        valid \in {"yes", "no_data", "bad_checksum", "bad_source"} :
       /\ Command(dest, size, valid)
       /\ hist' = IF Verdict(dest, size, valid) = "accepted"
                  THEN [hist EXCEPT !.sent[count.commands + 1] =
                                      [dest |-> dest, size |-> size]]
                  ELSE hist
  /\ UNCHANGED <<mode, flag, menu, boot>>

FlashStep ==
  /\ mode = "usb"
  /\ Loader
  /\ hist' = IF reply' = "ACK" /\ count.faults = 0
             THEN [hist EXCEPT !.sound = @ \cup {cmd.id}] ELSE hist
  /\ UNCHANGED <<mode, flag, menu, boot>>

\* JUMP to what the host has brought into the RAM.
Jump ==
  /\ mode = "usb" /\ pc = "idle"
  /\ mode' = "running" /\ boot' = [from |-> "host"]
  /\ UNCHANGED <<vars, flag, menu, hist>>

\* Running code stores the flag for the next start, or uses the memory it
\* is in; so does BIN, for which 0xa1000000 is a valid address.
StoreFlag ==
  /\ mode = "running" \/ (mode = "usb" /\ pc = "idle")
  /\ hist.asked < MaxAsked
  /\ hist' = [hist EXCEPT !.asked = @ + 1]
  /\ flag' \in Requests \cup {"junk"}
  /\ UNCHANGED <<vars, mode, menu, boot>>

RestartPhone ==
  /\ mode = "running" /\ hist.starts < MaxStarts
  /\ Restart
  /\ hist' = [hist EXCEPT !.starts = @ + 1]
  /\ mode' = "start" /\ menu' = NoMenu /\ boot' = NoBoot
  /\ UNCHANGED flag

LosePower ==
  /\ PowerLoss
  /\ mode' = "off" /\ menu' = NoMenu /\ boot' = NoBoot
  /\ UNCHANGED <<flag, hist>>

\* The RAM may have kept its content.
PowerOn ==
  /\ PowerUp
  /\ mode' = "start" /\ flag' \in {flag, "junk"}
  /\ UNCHANGED <<menu, boot, hist>>

BootNext ==
  \/ EnterDumpKeys \/ EnterUsb \/ BootFlash \/ TryCard
  \/ CardFails \/ ReadConfig \/ LoadDefault
  \/ EnterMenu \/ NoMenuEntry \/ Up \/ Down \/ Enter \/ BootCard
  \/ HostCommand \/ FlashStep \/ Jump
  \/ StoreFlag \/ RestartPhone \/ LosePower \/ PowerOn

BootSpec == BootInit /\ [][BootNext]_allVars

-----------------------------------------------------------------------------
(* Properties.                                                             *)

\* The state keeps its shape; the cursor stays inside the menu.
BootTypeOK ==
  /\ mode \in {"start", "dumpkeys", "usb", "card", "config", "menu", "load",
               "running", "stuck", "off"}
  /\ flag \in Requests \cup {"NO_FLAG", "junk"}
  /\ menu \in [num : {Wild} \cup (0 .. MaxEntries), curr : 0 .. MaxEntries,
              go : {NULL} \cup (0 .. MaxEntries)]
  /\ boot.from \in {"none", "flash", "card", "host"}
  /\ hist \in [sent : [1 .. MaxCommands -> [dest : Units, size : 0 .. FlashSize]],
              sound : SUBSET (1 .. MaxCommands),
              asked : Nat, served : Nat, starts : Nat]

\* A flag stored once starts its mode once: it is cleared before the mode is
\* entered, whatever restarts and losses of power follow.
FlagUsedOnce ==
  /\ hist.served <= hist.asked
  /\ flag \in Requests => hist.served < hist.asked

\* The entry that ENTER takes is the one the menu shows, and it exists.
MenuSound ==
  /\ mode = "menu" => menu.curr < menu.num /\ menu.go = menu.curr
  /\ boot.from = "card" /\ boot.entry >= 0 => boot.entry < menu.num

\* Whatever starts, restarts and stops, the flash goes through the steps of
\* FlashUpdate only: no start and no mode but the USB mode touches it.
FlashRefinement == Spec

\* A later update began behind the flag at a, inside the image k.
Overwritten(a, k) ==
  \E j \in k + 1 .. MaxCommands :
    /\ hist.sent[j].size > 0
    /\ a < hist.sent[j].dest /\ hist.sent[j].dest < End(hist.sent[k])

\* A kernel that was acknowledged by a chip without a fault is booted as it
\* was sent, however later updates of its place were interrupted: its flag is
\* the first thing that a new update of the place destroys.  The exception is
\* an update that begins behind the flag.
WholeImageBooted ==
  boot.from = "flash" =>
    LET a == boot.at
        k == boot.ram[a]
    IN  k \in hist.sound =>
          \/ Overwritten(a, k)
          \/ \A u \in Region(hist.sent[k]) :
               u \in a .. a + KernUnits - 1 => u \in DOMAIN boot.ram /\ boot.ram[u] = k

=============================================================================
