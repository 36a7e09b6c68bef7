------------------------------- MODULE Console -------------------------------
(***************************************************************************)
(* print() of firmware/print.c and the transmitting half of uart.c.  A     *)
(* string is a sequence of characters that ends with "NUL"; "NL" and "CR"  *)
(* are line feed and carriage return, and a run of plain text may be one   *)
(* character.  The UART shifts out what is stored in it (external).        *)
(***************************************************************************)
EXTENDS Integers, Sequences, SequencesExt

CONSTANTS IntMod,   \* values of an int (2^32)
          LongMod,  \* values of a uint64_t and of a pointer (2^64)
          BUF       \* characters of putnumber's buffer (32)

PowerOfTen(n) ==
  LET power[j \in 0 .. n] == IF j = 0 THEN 1 ELSE 10 * power[j - 1] IN power[n]

(* The buffer holds the decimal digits of every uint64_t.                   *)
ASSUME ConsoleAssumption ==
  /\ IntMod \in Nat \ {0, 1} /\ LongMod \in Nat /\ IntMod <= LongMod
  /\ BUF \in Nat /\ LongMod <= PowerOfTen(BUF)

VARIABLES text, args, \* the format and all its arguments
          at, taken,  \* the next character, and how many arguments are used
          doing,      \* "text", "divide" or "emit": where putnumber is
          num, base,  \* its locals
          buf,        \* the digits it has found
          todo,       \* characters that putchar has still to give to uart_putc
          tx,         \* the UART's transmit buffer
          line,       \* what the terminal has received
          before      \* what had been put when print was called

callVars == <<text, args, before>>
cpuVars == <<at, taken, doing, num, base, buf>>
consoleVars == <<callVars, cpuVars, todo, tx, line>>

-----------------------------------------------------------------------------
(* Arguments: a number, or a string that may be the null pointer.           *)
Number(v) == [value |-> v, str |-> <<>>, null |-> FALSE]
String(s) == [value |-> 0, str |-> s, null |-> FALSE]
NullString == [value |-> 0, str |-> <<>>, null |-> TRUE]

ModLong(v) == v % LongMod

(* putchar and putstring.                                                   *)
Chars(c) == IF c = "NL" THEN <<"CR", "NL">> ELSE <<c>>
AllChars(s) == FlattenSeq([k \in DOMAIN s |-> Chars(s[k])])

digits_str == <<"0", "1", "2", "3", "4", "5", "6", "7",
                "8", "9", "a", "b", "c", "d", "e", "f">>

-----------------------------------------------------------------------------
(* A call of print(f, a...).                                                *)
StartPrint(f, a) ==
  /\ text' = f /\ args' = a /\ before' = line \o tx
  /\ at' = 1 /\ taken' = 0 /\ doing' = "text" /\ num' = 0 /\ base' = 10 /\ buf' = <<>>

Returned == doing = "text" /\ todo = <<>> /\ text[at] = "NUL"

(* The program runs on when the last character is with the UART.            *)
Runs(where) == doing = where /\ todo = <<>>

Plain ==
  /\ Runs("text") /\ text[at] \notin {"%", "NUL"}
  /\ todo' = Chars(text[at])
  /\ at' = at + 1
  /\ UNCHANGED <<taken, doing, num, base, buf>>

putnumber_Int(prefix, n, b, sign) ==  \* wrong: negates in an int
  LET minus == sign /\ n >= LongMod \div 2
      m == IF minus THEN ModLong(-n) % (IntMod \div 2) ELSE n
  IN /\ todo' = prefix \o (IF minus THEN <<"-">> ELSE <<>>)
                       \o (IF m = 0 THEN <<"0">> ELSE <<>>)
     /\ doing' = IF m = 0 THEN "text" ELSE "divide"
     /\ num' = m /\ base' = b /\ buf' = <<>>

(* putnumber, up to its first loop; prefix is what was printed before it.   *)
putnumber(prefix, n, b, sign) ==
  LET minus == sign /\ n >= LongMod \div 2
      m == IF minus THEN ModLong(-n) ELSE n
  IN /\ todo' = prefix \o (IF minus THEN <<"-">> ELSE <<>>)
                       \o (IF m = 0 THEN <<"0">> ELSE <<>>)
     /\ doing' = IF m = 0 THEN "text" ELSE "divide"
     /\ num' = m /\ base' = b /\ buf' = <<>>

Puts(s) == todo' = s /\ UNCHANGED <<doing, num, base, buf>>

(* A conversion: the character after '%' and, for most, an argument.  The   *)
(* int of %d is widened with its sign, the unsigned of %u and %x without.   *)
Convert ==
  LET k == text[at + 1]
      arg == args[taken + 1]
  IN /\ Runs("text") /\ text[at] = "%"
     /\ at' = at + 2
     /\ taken' = IF k \in {"c", "s", "d", "u", "x", "p"} THEN taken + 1 ELSE taken
     /\ CASE k = "c" -> Puts(Chars(Head(arg.str)))
          [] k = "s" -> Puts(IF arg.null THEN <<"(null)">> ELSE AllChars(arg.str))
          [] k = "d" -> putnumber(<<>>, ModLong(arg.value), 10, TRUE)
          [] k = "u" -> putnumber(<<>>, arg.value, 10, FALSE)
          [] k = "x" -> putnumber(<<>>, arg.value, 16, FALSE)
          [] k = "p" -> putnumber(<<"0", "x">>, arg.value, 16, FALSE)
          [] k = "%" -> Puts(<<"%">>)
          [] OTHER -> Puts(<<"%">> \o Chars(k))

(* putnumber's loops: the digits come lowest first and leave highest first. *)
Divide ==
  /\ Runs("divide")
  /\ buf' = Append(buf, digits_str[1 + (num % base)])
  /\ num' = num \div base
  /\ doing' = IF num' = 0 THEN "emit" ELSE "divide"
  /\ UNCHANGED <<at, taken, base, todo>>

Emit ==
  /\ Runs("emit")
  /\ todo' = <<buf[Len(buf)]>>
  /\ buf' = SubSeq(buf, 1, Len(buf) - 1)
  /\ doing' = IF buf' = <<>> THEN "text" ELSE "emit"
  /\ UNCHANGED <<at, taken, num, base>>

print ==
  /\ Plain \/ Convert \/ Divide \/ Emit
  /\ UNCHANGED <<callVars, tx, line>>

uart_putc_Busy ==  \* wrong: waits for the wrong value of the bit
  /\ todo # <<>> /\ tx # <<>>
  /\ tx' = <<Head(todo)>> /\ todo' = Tail(todo)
  /\ UNCHANGED <<callVars, cpuVars, line>>

(* One character to the UART, when its transmitter is empty (LSR.THRE).     *)
uart_putc ==
  /\ todo # <<>> /\ tx = <<>>
  /\ tx' = <<Head(todo)>> /\ todo' = Tail(todo)
  /\ UNCHANGED <<callVars, cpuVars, line>>

ConsoleStep == print \/ uart_putc

(* The UART has sent a character.                                           *)
TxShift ==
  /\ tx # <<>>
  /\ line' = Append(line, Head(tx)) /\ tx' = Tail(tx)
  /\ UNCHANGED <<callVars, cpuVars, todo>>

(* A call of print(f, a...) and nothing else; no call at all.               *)
Printing(f, a) ==
  /\ text = f /\ args = a /\ before = <<>>
  /\ at = 1 /\ taken = 0 /\ doing = "text" /\ num = 0 /\ base = 10 /\ buf = <<>>
  /\ todo = <<>> /\ tx = <<>> /\ line = <<>>

Idle == Printing(<<"NUL">>, <<>>)

-----------------------------------------------------------------------------
(* What a reader of the line expects of the call, character by character of *)
(* the format: a number stands for itself, written without leading zeros.   *)
Numeral(v, b) ==
  LET numeral[n \in 0 .. v] ==
        IF n < b THEN <<digits_str[n + 1]>>
        ELSE Append(numeral[n \div b], digits_str[1 + (n % b)])
  IN numeral[v]

(* Is character k a conversion letter, that is, does a '%' come before it   *)
(* that is no conversion letter itself?                                     *)
Converts(f) ==
  LET converts[k \in 0 .. Len(f)] == k > 1 /\ f[k - 1] = "%" /\ ~converts[k - 1]
  IN converts

TakesArg(f, k) == Converts(f)[k] /\ f[k] \in {"c", "s", "d", "u", "x", "p"}
ArgNumber(f, k) == Cardinality({j \in 1 .. k : TakesArg(f, j)})

(* What character k adds, if it takes the argument arg.                     *)
Converted(letter, arg) ==
  CASE letter = "c" -> Chars(arg.str[1])
    [] letter = "s" -> IF arg.null THEN <<"(null)">> ELSE AllChars(arg.str)
    [] letter = "d" -> IF arg.value < 0 THEN <<"-">> \o Numeral(-arg.value, 10)
                       ELSE Numeral(arg.value, 10)
    [] letter = "u" -> Numeral(arg.value, 10)
    [] letter = "x" -> Numeral(arg.value, 16)
    [] letter = "p" -> <<"0", "x">> \o Numeral(arg.value, 16)
    [] letter = "%" -> <<"%">>
    [] OTHER -> <<"%">> \o Chars(letter)

Expected(f, a, k) ==
  IF Converts(f)[k] THEN Converted(f[k], a[ArgNumber(f, k)])
  ELSE IF f[k] \in {"%", "NUL"} THEN <<>> ELSE Chars(f[k])

(* What the first k characters of the format add.                           *)
Upto(f, a, k) == FlattenSeq([j \in 1 .. k |-> Expected(f, a, j)])
Message(f, a) == Upto(f, a, Len(f))

(* What C asks of a call: the format ends, a '%' is not the last of it, and *)
(* there is an argument of the right kind for every letter that takes one.  *)
Fits(letter, arg) ==
  CASE letter = "c" -> arg.str # <<>>
    [] letter = "d" -> -(IntMod \div 2) <= arg.value /\ arg.value < IntMod \div 2
    [] letter \in {"u", "x"} -> arg.value \in 0 .. IntMod - 1
    [] letter = "p" -> arg.value \in 0 .. LongMod - 1
    [] OTHER -> TRUE

IsString(s) == s \in Seq(Range(s))

LegalCall(f, a) ==
  /\ IsString(f) /\ f # <<>> /\ IsString(a)
  /\ \A k \in DOMAIN a : a[k].value \in Int /\ IsString(a[k].str)
  /\ \A k \in DOMAIN f : f[k] = "NUL" <=> k = Len(f)
  /\ ~Converts(f)[Len(f)]
  /\ \A k \in DOMAIN f : TakesArg(f, k) =>
       ArgNumber(f, k) \in DOMAIN a /\ Fits(f[k], a[ArgNumber(f, k)])

(* The terminal reads what the call says, in order and with nothing lost,   *)
(* and putnumber never leaves its buffer.                                   *)
PrintsAsWritten ==
  /\ Len(buf) <= BUF
  /\ Returned /\ tx = <<>> => line = before \o Message(text, args)
=============================================================================
