-------------------------------- MODULE Boot --------------------------------
(***************************************************************************)
(* start_firmware of firmware/start.c, with what it calls: uart_init,      *)
(* dev_init, the greeting, the two images, and the jump into the kernel or *)
(* panic, which prints, waits and asks the PMC for a reboot.               *)
(*                                                                         *)
(* The device registers are kept by address; -1 is what a register holds   *)
(* before the firmware has written it, whatever that is.  Memory addresses *)
(* count from DDR2_BASE_ADDR.  Console prints, BootScreen draws;           *)
(* SerialBoot has the loading of the images and Pmc what follows reboot(). *)
(***************************************************************************)
EXTENDS Console, BootScreen, Wallpaper

CONSTANTS WaitTicks,  \* ticks of panic's second
          CharTicks,  \* ticks the UART takes to send a character
          TimeMod     \* the time counter counts modulo this (2^64)

(* A second is longer than a character at 460800 baud.  The picture has its *)
(* real size, but one pixel for each of its bytes.                          *)
ASSUME BootAssumption ==
  /\ WaitTicks \in Nat /\ CharTicks \in Nat /\ TimeMod \in Nat
  /\ CharTicks < WaitTicks /\ WaitTicks + 1 < TimeMod
  /\ "wallpaper" \in DOMAIN Bitmap
  /\ Bitmap["wallpaper"] = [rows |-> 480, bytes |-> RowBytes, bits |-> 1, stride |-> 128,
                            words |-> 61440, wallpaper |-> wallpaper_h]

VARIABLES
  stage,         \* where start_firmware is; "none" if it does not run
  k,             \* the next store of the stage
  io,            \* device register |-> its value
  time, begun,   \* the time counter, and udelay's start
  age            \* ticks the UART has been busy with its character

clock == <<time, begun, age>>
own == <<stage, k, io>>
deviceVars == <<own, clock>>
bootVars == <<deviceVars, consoleVars, screenVars>>

-----------------------------------------------------------------------------
(* mmio.h.                                                                  *)
UART_BASE_ADDR == \h4A000000
UART_DLL == UART_BASE_ADDR
UART_DLM == UART_BASE_ADDR + \h04
UART_IER == UART_BASE_ADDR + \h04
UART_FCR == UART_BASE_ADDR + \h08
UART_LCR == UART_BASE_ADDR + \h0C
UART_MCR == UART_BASE_ADDR + \h10

UART_LCR_DLAB == 128
UART_LCR_8N1 == 3
UART_FCR_ALL == 1 + 2 + 4   \* enabled, both FIFOs cleared
UART_MCR_ALL == 1 + 2       \* DTR and RTS

PLIC_BASE_ADDR == \h50000000
PLIC_M_PRIORITY == PLIC_BASE_ADDR + \h04
PLIC_M_ENABLE == PLIC_BASE_ADDR + \h2000
PLIC_M_THRESHOLD == PLIC_BASE_ADDR + \h200000
PLIC_MAX_SOURCES == 32

DDR2_SIZE == 128 * 1024 * 1024
FB_BASE_ADDR == \h07E00000
FB_SIZE == 1024 * 480 * 4

TFT_BASE_ADDR == \h40000000
TFT_AR == TFT_BASE_ADDR
TFT_CR == TFT_BASE_ADDR + \h04
TFT_IESR == TFT_BASE_ADDR + \h08

PMC_CONTROL == \h20000000
PMC_REBOOT == \hF7

UART_BAUDRATE == 460800
SYS_CLK_FREQ == 100000000

-----------------------------------------------------------------------------
(* Stores to device registers.                                              *)

(* The UART keeps its divisor behind the first two registers: bit 7 of LCR  *)
(* says which of them an access means (external).                           *)
Latch(a) == a + 1
Place(a) ==
  IF a \in {UART_DLL, UART_DLM} /\ io[UART_LCR] >= UART_LCR_DLAB
  THEN Latch(a) ELSE a

PlicRegister(id) == PLIC_BASE_ADDR + 4 * id

Register ==
  {UART_DLL, UART_DLM, Latch(UART_DLL), Latch(UART_DLM), UART_FCR, UART_LCR,
   UART_MCR, TFT_AR, TFT_CR, TFT_IESR, PMC_CONTROL,
   PLIC_M_THRESHOLD, PLIC_M_ENABLE, PLIC_M_ENABLE + 4}
  \cup {PlicRegister(id) : id \in 1 .. 32}

(* The stages a program goes through, and the stores each of them makes.    *)
divisor_Low == (SYS_CLK_FREQ \div (16 * UART_BAUDRATE)) - 1  \* wrong: as for a counter from 0
divisor == (SYS_CLK_FREQ \div (16 * UART_BAUDRATE)) % 2^16

uart_init ==
  << <<UART_LCR, UART_LCR_DLAB>>,
     <<UART_DLL, divisor % 256>>,
     <<UART_DLM, (divisor \div 256) % 256>>,
     <<UART_LCR, UART_LCR_8N1>>,
     <<UART_FCR, UART_FCR_ALL>>,
     <<UART_MCR, UART_MCR_ALL>>,
     <<UART_IER, 0>> >>

init_irqchips ==
  [i \in 1 .. PLIC_MAX_SOURCES |-> <<PLIC_M_PRIORITY + 4 * (i - 1), 0>>]
    \o << <<PLIC_M_THRESHOLD, 0>>, <<PLIC_M_ENABLE, 0>>, <<PLIC_M_ENABLE + 4, 0>> >>

init_fb == << <<TFT_AR, FB_BASE_ADDR>>, <<TFT_CR, 1>>, <<TFT_IESR, 0>> >>

init_pmc == << <<PMC_CONTROL, 0>> >>

(* Stage s, which makes these stores one after the other.                   *)
Stores(s, list, next) ==
  /\ stage = s
  /\ LET a == list[k][1]
     IN io' = [r \in Register |-> IF r = Place(a) THEN list[k][2] ELSE io[r]]
  /\ IF k < Len(list) THEN k' = k + 1 /\ UNCHANGED stage
     ELSE k' = 1 /\ stage' = next
  /\ UNCHANGED <<clock, consoleVars, screenVars>>

UartInit == Stores("uart_init", uart_init, "init_irqchips")
InitIrqchips == Stores("init_irqchips", init_irqchips, "init_fb")
InitFb == Stores("init_fb", init_fb, "draw")
InitPmc == Stores("init_pmc", init_pmc, "hello")

(* The loops of init_fb.                                                    *)
Draw ==
  /\ stage = "draw"
  /\ ScreenNext
  /\ stage' = IF Drawn' THEN "init_pmc" ELSE stage
  /\ UNCHANGED <<k, io, clock, consoleVars>>

-----------------------------------------------------------------------------
(* The calls of print, each made when the stage is entered.                 *)
Hello == <<"len-fpga is booting...", "NL", "NL", "NUL">>
Banner == <<"[PANIC]", "NL", "NUL">>
Reason == <<"Kernel or ramfs loading failed.", "NL">>
Farewell == <<"Rebooting...", "NL", "NL", "NUL">>

Format(s) ==
  CASE s = "hello" -> Hello
    [] s = "banner" -> Banner
    [] s = "reason" -> <<"%", "s", "NUL">>
    [] s = "farewell" -> Farewell

(* Calls print, and goes on to next when it returns.                        *)
Says(s, next) ==
  /\ stage = s
  /\ \/ /\ k = 1
        /\ StartPrint(Format(s), IF s = "reason" THEN <<String(Reason)>> ELSE <<>>)
        /\ k' = 2
        /\ UNCHANGED <<stage, todo, tx, line>>
     \/ /\ k = 2 /\ Returned
        /\ k' = 1 /\ stage' = next
        /\ UNCHANGED consoleVars
  /\ UNCHANGED <<io, clock, screenVars>>

Say ==
  \/ Says("hello", "kernel")
  \/ Says("banner", "reason")
  \/ Says("reason", "farewell")
  \/ Says("farewell", "udelay")

(* What goes on inside a call of print.                                     *)
InPrint ==
  /\ stage \in {"hello", "banner", "reason", "farewell"} /\ k = 2
  /\ ConsoleStep
  /\ age' = IF tx' # tx THEN 0 ELSE age
  /\ UNCHANGED <<own, time, begun, screenVars>>

(* load_images: serial_load returns, or the firmware panics.                *)
Load(image, next) ==
  /\ stage = image
  /\ stage' \in {next, "banner"}
  /\ UNCHANGED <<k, io, clock, consoleVars, screenVars>>

(* udelay(1000000): rdtime is read when the delay starts, at whatever time  *)
(* that is ...                                                              *)
StartDelay ==
  /\ stage = "udelay"
  /\ \E now \in 0 .. TimeMod - 1 : time' = now /\ begun' = now
  /\ stage' = "waiting"
  /\ UNCHANGED <<k, io, age, consoleVars, screenVars>>

Elapsed_Wrap == IF time >= begun THEN time - begun ELSE WaitTicks  \* wrong: compares the times
Elapsed == (time - begun) % TimeMod

(* ... and until enough of it has passed, and reboot() stores its command   *)
(* in the lowest byte of the register.                                      *)
Reboot ==
  /\ stage = "waiting" /\ Elapsed >= WaitTicks
  /\ stage' = "rebooting"
  /\ io' = [io EXCEPT ![PMC_CONTROL] = IF @ = -1 THEN -1 ELSE @ - (@ % 256) + PMC_REBOOT]
  /\ UNCHANGED <<k, clock, consoleVars, screenVars>>

-----------------------------------------------------------------------------
(* The UART sends a character within CharTicks, and time passes; a waiting  *)
(* processor looks at it at least once a tick.                              *)
Transmit ==
  /\ TxShift
  /\ UNCHANGED <<own, clock, screenVars>>

Tick ==
  /\ stage = "waiting" /\ Elapsed < WaitTicks
  /\ tx # <<>> => age < CharTicks
  /\ time' = (time + 1) % TimeMod
  /\ age' = IF tx # <<>> THEN age + 1 ELSE age
  /\ UNCHANGED <<own, begun, consoleVars, screenVars>>

BootInit ==
  /\ stage = "uart_init" /\ k = 1
  /\ io = [r \in Register |-> -1]
  /\ time = 0 /\ begun = 0 /\ age = 0
  /\ Idle
  /\ ScreenInit("wallpaper")

Firmware ==
  \/ UartInit \/ InitIrqchips \/ InitFb \/ Draw \/ InitPmc
  \/ Say \/ InPrint
  \/ Load("kernel", "ramfs") \/ Load("ramfs", "payload")
  \/ StartDelay \/ Reboot

BootNext == Firmware \/ Transmit \/ Tick

-----------------------------------------------------------------------------
(* The divisor is 13 where 13.56 is meant: a frame of ten bits is still read    *)
(* where it should be, with the last sample off by less than half a bit,    *)
(* counting the sixteenth of a bit by which the start may be found late.    *)
FrameReadable ==
  LET sent == 16 * (io[Latch(UART_DLL)] + 256 * io[Latch(UART_DLM)]) * UART_BAUDRATE
      off == IF sent > SYS_CLK_FREQ THEN sent - SYS_CLK_FREQ ELSE SYS_CLK_FREQ - sent
  IN 152 * off < 7 * SYS_CLK_FREQ   \* 9.5 * off / clock + 1/16 < 1/2

UartReady ==
  /\ FrameReadable
  /\ io[UART_LCR] = UART_LCR_8N1 /\ io[UART_FCR] = UART_FCR_ALL
  /\ io[UART_IER] = 0

(* Before the first character is sent the line is set up to be read, and    *)
(* before the payload runs no source of the PLIC can interrupt it, whatever *)
(* the registers held: uart_init and dev_init rely on no reset value.       *)
DevicesReady ==
  /\ stage # "none" /\ tx # <<>> => UartReady
  /\ stage \in {"kernel", "ramfs", "payload"} =>
       /\ \A id \in 1 .. 32 : io[PlicRegister(id)] = 0
       /\ \A r \in {PLIC_M_THRESHOLD, PLIC_M_ENABLE, PLIC_M_ENABLE + 4} : io[r] = 0
       /\ io[TFT_AR] = FB_BASE_ADDR /\ io[PMC_CONTROL] = 0

(* When the picture is complete every pixel of it is right, and the frame   *)
(* buffer ends before the memory does.                                      *)
PictureDrawn ==
  /\ stage = "init_pmc" => Drawn /\ ShowsPicture
  /\ FB_BASE_ADDR + FB_SIZE <= DDR2_SIZE

(* What the terminal should show of a boot that fails.                      *)
PanicText ==
  <<"len-fpga is booting...", "CR", "NL", "CR", "NL", "[PANIC]", "CR", "NL",
    "Kernel or ramfs loading failed.", "CR", "NL", "Rebooting...", "CR", "NL", "CR", "NL">>

(* The reboot that panic asks for is the PMC's command and nothing else,    *)
(* and comes after the whole message has left the UART.                     *)
PanicIsHeard ==
  stage = "rebooting" =>
    io[PMC_CONTROL] = PMC_REBOOT /\ tx = <<>> /\ line = PanicText
=============================================================================
