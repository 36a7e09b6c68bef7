------------------------------ MODULE MCFirmware ------------------------------
(***************************************************************************)
(* The firmware's C code for TLC: a behaviour is one call of a function of *)
(* string.c, a message through crc32.c, one call of print(), the drawing   *)
(* of a small bitmap, or the firmware from reset to its end.               *)
(***************************************************************************)
EXTENDS Boot, StringLib, Crc32

CONSTANT Calls  \* the calls of print

ASSUME CallsAssumption == \A c \in Calls : LegalCall(c.f, c.a)

VARIABLE task

libraryVars == <<libVars, crcVars>>
vars == <<task, libraryVars, bootVars>>

(* -1 and 257 are ints that are no bytes, 255 a byte with its high bit set. *)
FewBytes == {0, 1, 255}
FewInts == {-1, 0, 257}
BasisBytes == {{b} : b \in 0 .. 7} \cup {{}, 0 .. 7}

(* Two rows of two bytes of three pixels, no two of them alike, and the     *)
(* picture of wallpaper.h.                                                  *)
Bitmaps ==
  "small" :> [rows |-> 2, bytes |-> 2, bits |-> 3, stride |-> 7, words |-> 14,
              wallpaper |-> 0 :> {0} @@ 1 :> {1, 2} @@ 2 :> {1} @@ 3 :> {0, 1}]
  @@ "wallpaper" :> [rows |-> 480, bytes |-> RowBytes, bits |-> 1, stride |-> 128,
                     words |-> 61440, wallpaper |-> wallpaper_h]

ASSUME PicturesAssumption == "small" \in DOMAIN Bitmap

(* Every conversion, with every int and the ends of the pointers; a percent *)
(* sign in every place but the last of a format.                            *)
SomeCalls ==
  {[f |-> <<"a", "NL", "%", "s", "%", "%", "%", "d", "!", "NUL">>,
    a |-> <<String(<<"b", "NL">>), Number(v)>>] : v \in -32 .. 31}
  \cup {[f |-> <<"%", "u", "%", "x", "%", "%", "NUL">>,
         a |-> <<Number(v), Number(v)>>] : v \in 0 .. 63}
  \cup {[f |-> <<"%", "p", "%", "q", "%", "c", "NUL">>,
         a |-> <<Number(v), String(<<"NL">>)>>] : v \in {0, 9, 10, 255, 256, 999, 1000, 4095}}
  \cup {[f |-> <<"%", "s", "%", "%", "s", "NUL">>, a |-> <<NullString>>]}

-----------------------------------------------------------------------------
NoLibrary ==
  /\ mem = [p \in Address |-> 0] /\ start = mem
  /\ call = [fn |-> "strlen", a |-> 1, b |-> 1, n |-> 0, c |-> 0]
  /\ i = 0 /\ last = NULL /\ done = FALSE /\ ret = 0
NoBoot ==
  /\ stage = "none" /\ k = 1 /\ io = <<>> /\ time = 0 /\ begun = 0 /\ age = 0
NoScreen == ScreenInit("small")

Init ==
  \/ task = "string" /\ LibInit /\ CrcInit /\ NoBoot /\ Idle /\ NoScreen
  \/ task = "crc" /\ NoLibrary /\ CrcInit /\ NoBoot /\ Idle /\ NoScreen
  \/ /\ task = "print" /\ NoLibrary /\ CrcInit /\ NoBoot /\ NoScreen
     /\ \E c \in Calls : Printing(c.f, c.a)
  \/ task = "screen" /\ NoLibrary /\ CrcInit /\ NoBoot /\ Idle /\ NoScreen
  \/ task = "boot" /\ NoLibrary /\ CrcInit /\ BootInit

Alone(t, others) == task = t /\ UNCHANGED <<task, others>>

Program ==
  \/ Alone("string", <<crcVars, bootVars>>) /\ LibNext
  \/ Alone("crc", <<libVars, bootVars>>) /\ CrcNext
  \/ Alone("print", <<libraryVars, deviceVars, screenVars>>) /\ ConsoleStep
  \/ Alone("screen", <<libraryVars, deviceVars, consoleVars>>) /\ ScreenNext
  \/ Alone("boot", libraryVars) /\ Firmware

Outside ==
  \/ Alone("print", <<libraryVars, deviceVars, screenVars>>) /\ TxShift
  \/ Alone("boot", libraryVars) /\ (Transmit \/ Tick)

Next == Program \/ Outside

(* The processor runs, the UART sends what it has, and time passes.         *)
Spec == Init /\ [][Next]_vars /\ WF_vars(Program) /\ WF_vars(Outside)

-----------------------------------------------------------------------------
(* The bitmap is what the frame buffer shows: a small one after every row,  *)
(* and the one of wallpaper.h when it has been drawn (init_fb).             *)
ScreenShowsPicture ==
  /\ task = "screen" => ShowsPicture
  /\ task = "boot" => PictureDrawn

(* Every call returns, and the firmware hands over: to the kernel, or to    *)
(* the reset.                                                               *)
CallsReturn ==
  <>(CASE task = "string" -> done
       [] task = "crc" -> Len(message) = MaxLen
       [] task = "print" -> Returned /\ tx = <<>>
       [] task = "screen" -> Drawn
       [] task = "boot" -> stage \in {"payload", "rebooting"})
=============================================================================
