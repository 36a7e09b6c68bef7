-------------------------------- MODULE Crc32 --------------------------------
(***************************************************************************)
(* The checksum of firmware/crc32.c: two table look-ups of four bits per   *)
(* byte.  A word is the set of its bits that are one.                      *)
(***************************************************************************)
EXTENDS Naturals, Sequences

CONSTANTS Sent,   \* the bytes, as sets of bits, that messages consist of
          MaxLen  \* the longest message

ASSUME CrcAssumption == Sent \subseteq SUBSET (0 .. 7) /\ MaxLen \in Nat

VARIABLES message,  \* the bytes that crc32_update has been given
          crc

crcVars == <<message, crc>>

(* The word with these two halves.                                          *)
Word(high, low) ==
  {b \in 0 .. 15 : (low \div 2^b) % 2 = 1}
    \cup {b \in 16 .. 31 : (high \div 2^(b - 16)) % 2 = 1}

Xor(x, y) == (x \ y) \cup (y \ x)
Shifted(x, n) == {b - n : b \in {c \in x : c >= n}}

tab == <<Word(\h0000, \h0000), Word(\h1DB7, \h1064),
         Word(\h3B6E, \h20C8), Word(\h26D9, \h30AC),
         Word(\h76DC, \h4190), Word(\h6B6B, \h51F4),
         Word(\h4DB2, \h6158), Word(\h5005, \h713C),
         Word(\hEDB8, \h8320), Word(\hF00F, \h9344),
         Word(\hD6D6, \hA3E8), Word(\hCB61, \hB38C),
         Word(\h9B64, \hC2B0), Word(\h86D3, \hD2D4),
         Word(\hA00A, \hE278), Word(\hBDBD, \hF21C)>>

(* The table entry for the low four bits of x.                              *)
Entry(x) == tab[1 + CHOOSE k \in 0 .. 15 : Word(0, k) = x \cap 0 .. 3]

crc32_init == 0 .. 31

HalfStep(x, nibble) == Xor(Shifted(x, 4), Entry(Xor(x, nibble)))
crc32_update_High(x, byte) ==  \* wrong: the high half first
  HalfStep(HalfStep(x, Shifted(byte, 4)), byte)
crc32_update(x, byte) == HalfStep(HalfStep(x, byte), Shifted(byte, 4))

crc32_final(x) == Xor(x, 0 .. 31)

CrcInit == message = <<>> /\ crc = crc32_init

(* One byte of read_payload's loop.                                         *)
CrcNext ==
  /\ Len(message) < MaxLen
  /\ \E byte \in Sent : /\ message' = Append(message, byte)
                        /\ crc' = crc32_update(crc, byte)

-----------------------------------------------------------------------------
(* The checksum that zlib computes, bit by bit, with the reversed           *)
(* polynomial of CRC-32.                                                    *)
Polynomial == Word(\hEDB8, \h8320)

BitStep(x) == IF 0 \in x THEN Xor(Shifted(x, 1), Polynomial) ELSE Shifted(x, 1)
FourSteps(x) == BitStep(BitStep(BitStep(BitStep(x))))
ByteSteps(x, byte) == FourSteps(FourSteps(Xor(x, byte)))

Zlib(bytes) ==
  LET register[n \in 0 .. Len(bytes)] ==
        IF n = 0 THEN 0 .. 31 ELSE ByteSteps(register[n - 1], bytes[n])
  IN Xor(register[Len(bytes)], 0 .. 31)

(* The firmware's checksum is the one that scripts/serial_boot.sh computes  *)
(* with zlib, so an image that arrives whole is never refused.              *)
ChecksumAsZlib == crc32_final(crc) = Zlib(message)
=============================================================================
