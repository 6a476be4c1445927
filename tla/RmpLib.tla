------------------------------- MODULE RmpLib -------------------------------
(***************************************************************************)
(* The kernel's library of pure functions: bit scans and reversal of a     *)
(* word, the CRC16 checksum and the conversions of debug printing.  A word *)
(* of N bytes (RMP_WORD_ORDER 4, 5, 6: N = 2, 4, 8) is a function from     *)
(* 0..(N - 1), least byte first, so that a shift by 8k moves bytes.        *)
(***************************************************************************)
EXTENDS Integers, SequencesExt, Bitwise

Byte == 0..255

\* Table of RMP_MSB_Generic, at 1 + the byte (as all tables below).
MSB_Table == <<
    0, 0, 1, 1, 2, 2, 2, 2, 3, 3, 3, 3, 3, 3, 3, 3, 4, 4, 4, 4, 4, 4, 4, 4, 4, 4,
    4, 4, 4, 4, 4, 4, 5, 5, 5, 5, 5, 5, 5, 5, 5, 5, 5, 5, 5, 5, 5, 5, 5, 5, 5, 5,
    5, 5, 5, 5, 5, 5, 5, 5, 5, 5, 5, 5, 6, 6, 6, 6, 6, 6, 6, 6, 6, 6, 6, 6, 6, 6,
    6, 6, 6, 6, 6, 6, 6, 6, 6, 6, 6, 6, 6, 6, 6, 6, 6, 6, 6, 6, 6, 6, 6, 6, 6, 6,
    6, 6, 6, 6, 6, 6, 6, 6, 6, 6, 6, 6, 6, 6, 6, 6, 6, 6, 6, 6, 6, 6, 6, 6, 7, 7,
    7, 7, 7, 7, 7, 7, 7, 7, 7, 7, 7, 7, 7, 7, 7, 7, 7, 7, 7, 7, 7, 7, 7, 7, 7, 7,
    7, 7, 7, 7, 7, 7, 7, 7, 7, 7, 7, 7, 7, 7, 7, 7, 7, 7, 7, 7, 7, 7, 7, 7, 7, 7,
    7, 7, 7, 7, 7, 7, 7, 7, 7, 7, 7, 7, 7, 7, 7, 7, 7, 7, 7, 7, 7, 7, 7, 7, 7, 7,
    7, 7, 7, 7, 7, 7, 7, 7, 7, 7, 7, 7, 7, 7, 7, 7, 7, 7, 7, 7, 7, 7, 7, 7, 7, 7,
    7, 7, 7, 7, 7, 7, 7, 7, 7, 7, 7, 7, 7, 7, 7, 7, 7, 7, 7, 7, 7, 7>>

\* Table of RMP_LSB_Generic.
LSB_Table == <<
    0, 0, 1, 0, 2, 0, 1, 0, 3, 0, 1, 0, 2, 0, 1, 0, 4, 0, 1, 0, 2, 0, 1, 0, 3, 0,
    1, 0, 2, 0, 1, 0, 5, 0, 1, 0, 2, 0, 1, 0, 3, 0, 1, 0, 2, 0, 1, 0, 4, 0, 1, 0,
    2, 0, 1, 0, 3, 0, 1, 0, 2, 0, 1, 0, 6, 0, 1, 0, 2, 0, 1, 0, 3, 0, 1, 0, 2, 0,
    1, 0, 4, 0, 1, 0, 2, 0, 1, 0, 3, 0, 1, 0, 2, 0, 1, 0, 5, 0, 1, 0, 2, 0, 1, 0,
    3, 0, 1, 0, 2, 0, 1, 0, 4, 0, 1, 0, 2, 0, 1, 0, 3, 0, 1, 0, 2, 0, 1, 0, 7, 0,
    1, 0, 2, 0, 1, 0, 3, 0, 1, 0, 2, 0, 1, 0, 4, 0, 1, 0, 2, 0, 1, 0, 3, 0, 1, 0,
    2, 0, 1, 0, 5, 0, 1, 0, 2, 0, 1, 0, 3, 0, 1, 0, 2, 0, 1, 0, 4, 0, 1, 0, 2, 0,
    1, 0, 3, 0, 1, 0, 2, 0, 1, 0, 6, 0, 1, 0, 2, 0, 1, 0, 3, 0, 1, 0, 2, 0, 1, 0,
    4, 0, 1, 0, 2, 0, 1, 0, 3, 0, 1, 0, 2, 0, 1, 0, 5, 0, 1, 0, 2, 0, 1, 0, 3, 0,
    1, 0, 2, 0, 1, 0, 4, 0, 1, 0, 2, 0, 1, 0, 3, 0, 1, 0, 2, 0, 1, 0>>

\* Table of RMP_RBT_Generic.
RBT_Table == <<
    0, 128, 64, 192, 32, 160, 96, 224, 16, 144, 80, 208, 48, 176, 112, 240, 8, 136, 72, 200, 40, 168, 104, 232, 24, 152,
    88, 216, 56, 184, 120, 248, 4, 132, 68, 196, 36, 164, 100, 228, 20, 148, 84, 212, 52, 180, 116, 244, 12, 140, 76, 204,
    44, 172, 108, 236, 28, 156, 92, 220, 60, 188, 124, 252, 2, 130, 66, 194, 34, 162, 98, 226, 18, 146, 82, 210, 50, 178,
    114, 242, 10, 138, 74, 202, 42, 170, 106, 234, 26, 154, 90, 218, 58, 186, 122, 250, 6, 134, 70, 198, 38, 166, 102, 230,
    22, 150, 86, 214, 54, 182, 118, 246, 14, 142, 78, 206, 46, 174, 110, 238, 30, 158, 94, 222, 62, 190, 126, 254, 1, 129,
    65, 193, 33, 161, 97, 225, 17, 145, 81, 209, 49, 177, 113, 241, 9, 137, 73, 201, 41, 169, 105, 233, 25, 153, 89, 217,
    57, 185, 121, 249, 5, 133, 69, 197, 37, 165, 101, 229, 21, 149, 85, 213, 53, 181, 117, 245, 13, 141, 77, 205, 45, 173,
    109, 237, 29, 157, 93, 221, 61, 189, 125, 253, 3, 131, 67, 195, 35, 163, 99, 227, 19, 147, 83, 211, 51, 179, 115, 243,
    11, 139, 75, 203, 43, 171, 107, 235, 27, 155, 91, 219, 59, 187, 123, 251, 7, 135, 71, 199, 39, 167, 103, 231, 23, 151,
    87, 215, 55, 183, 119, 247, 15, 143, 79, 207, 47, 175, 111, 239, 31, 159, 95, 223, 63, 191, 127, 255>>

\* First table of RMP_CRC16.
CRC16_High == <<
    0, 193, 129, 64, 1, 192, 128, 65, 1, 192, 128, 65, 0, 193, 129, 64, 1, 192, 128, 65, 0, 193, 129, 64, 0, 193,
    129, 64, 1, 192, 128, 65, 1, 192, 128, 65, 0, 193, 129, 64, 0, 193, 129, 64, 1, 192, 128, 65, 0, 193, 129, 64,
    1, 192, 128, 65, 1, 192, 128, 65, 0, 193, 129, 64, 1, 192, 128, 65, 0, 193, 129, 64, 0, 193, 129, 64, 1, 192,
    128, 65, 0, 193, 129, 64, 1, 192, 128, 65, 1, 192, 128, 65, 0, 193, 129, 64, 0, 193, 129, 64, 1, 192, 128, 65,
    1, 192, 128, 65, 0, 193, 129, 64, 1, 192, 128, 65, 0, 193, 129, 64, 0, 193, 129, 64, 1, 192, 128, 65, 1, 192,
    128, 65, 0, 193, 129, 64, 0, 193, 129, 64, 1, 192, 128, 65, 0, 193, 129, 64, 1, 192, 128, 65, 1, 192, 128, 65,
    0, 193, 129, 64, 0, 193, 129, 64, 1, 192, 128, 65, 1, 192, 128, 65, 0, 193, 129, 64, 1, 192, 128, 65, 0, 193,
    129, 64, 0, 193, 129, 64, 1, 192, 128, 65, 0, 193, 129, 64, 1, 192, 128, 65, 1, 192, 128, 65, 0, 193, 129, 64,
    1, 192, 128, 65, 0, 193, 129, 64, 0, 193, 129, 64, 1, 192, 128, 65, 1, 192, 128, 65, 0, 193, 129, 64, 0, 193,
    129, 64, 1, 192, 128, 65, 0, 193, 129, 64, 1, 192, 128, 65, 1, 192, 128, 65, 0, 193, 129, 64>>

\* Second table of RMP_CRC16.
CRC16_Low == <<
    0, 192, 193, 1, 195, 3, 2, 194, 198, 6, 7, 199, 5, 197, 196, 4, 204, 12, 13, 205, 15, 207, 206, 14, 10, 202,
    203, 11, 201, 9, 8, 200, 216, 24, 25, 217, 27, 219, 218, 26, 30, 222, 223, 31, 221, 29, 28, 220, 20, 212, 213, 21,
    215, 23, 22, 214, 210, 18, 19, 211, 17, 209, 208, 16, 240, 48, 49, 241, 51, 243, 242, 50, 54, 246, 247, 55, 245, 53,
    52, 244, 60, 252, 253, 61, 255, 63, 62, 254, 250, 58, 59, 251, 57, 249, 248, 56, 40, 232, 233, 41, 235, 43, 42, 234,
    238, 46, 47, 239, 45, 237, 236, 44, 228, 36, 37, 229, 39, 231, 230, 38, 34, 226, 227, 35, 225, 33, 32, 224, 160, 96,
    97, 161, 99, 163, 162, 98, 102, 166, 167, 103, 165, 101, 100, 164, 108, 172, 173, 109, 175, 111, 110, 174, 170, 106, 107, 171,
    105, 169, 168, 104, 120, 184, 185, 121, 187, 123, 122, 186, 190, 126, 127, 191, 125, 189, 188, 124, 180, 116, 117, 181, 119, 183,
    182, 118, 114, 178, 179, 115, 177, 113, 112, 176, 80, 144, 145, 81, 147, 83, 82, 146, 150, 86, 87, 151, 85, 149, 148, 84,
    156, 92, 93, 157, 95, 159, 158, 94, 90, 154, 155, 91, 153, 89, 88, 152, 136, 72, 73, 137, 75, 139, 138, 74, 78, 142,
    143, 79, 141, 77, 76, 140, 68, 132, 133, 69, 135, 71, 70, 134, 130, 66, 67, 131, 65, 129, 128, 64>>

----------------------------------------------------------------------------
(* Bit scans.                                                              *)

\* The byte at which the nested conditions of the scans end up: up(p) decides
\* whether to go on at byte p and above or below it.
Bisect(N, up(_)) ==
    LET from[n \in {1, 2, 4, 8}, lo \in 0..(N - 1)] ==
          IF n = 1 THEN lo
          ELSE from[n \div 2, IF up(lo + n \div 2) THEN lo + n \div 2 ELSE lo]
    IN  from[N, 0]

\* RMP_MSB_Generic: "Value >= 2^(8p)".
MSB_Generic(N, w) ==
    LET p == Bisect(N, LAMBDA q : \E i \in q..(N - 1) : w[i] # 0)
    IN  MSB_Table[1 + w[p]] + 8 * p

\* Mutant: one shift of RMP_LSB_Generic drops a byte too many.
LSB_Generic_Shift(N, w) ==
    LET p == Bisect(N, LAMBDA q : \A i \in 0..(q - 2) : w[i] = 0)
    IN  LSB_Table[1 + w[p]] + 8 * p

\* RMP_LSB_Generic: "Value << 8(N - p) = 0".
LSB_Generic(N, w) ==
    LET p == Bisect(N, LAMBDA q : \A i \in 0..(q - 1) : w[i] = 0)
    IN  LSB_Table[1 + w[p]] + 8 * p

\* RMP_RBT_Generic.
RBT_Generic(N, w) == [i \in 0..(N - 1) |-> RBT_Table[1 + w[N - 1 - i]]]

\* Bit i of a word.
Bit(w, i) == (w[i \div 8] \div 2^(i % 8)) % 2

----------------------------------------------------------------------------
(* CRC16.                                                                  *)

\* RMP_CRC16: Temp_High and Temp_Low after each byte.
CRC16(data) ==
    LET step(d, c) ==
          LET i == 1 + (c[2] ^^ d)
          IN  <<CRC16_Low[i], c[1] ^^ CRC16_High[i]>>
        crc == FoldLeft(LAMBDA c, d : step(d, c), <<255, 255>>, data)
    IN  256 * crc[1] + crc[2]

\* Reference: bit by bit with the polynomial 0xA001, least bit first.
CRC16_Ref(data) ==
    LET shift(c) == IF c % 2 = 1 THEN (c \div 2) ^^ 40961 ELSE c \div 2
        bits[c \in 0..65535, n \in 0..8] ==
            IF n = 0 THEN c ELSE bits[shift(c), n - 1]
    IN  FoldLeft(LAMBDA c, d : bits[c ^^ d, 8], 65535, data)

----------------------------------------------------------------------------
(* Debug printing: the characters put out, a digit as its value.           *)

Minus == -1


\* The count of digits of n > 0 and the divisor 10^(count - 1) that the first
\* loop of RMP_Int_Print finds.
Digits[n \in Nat] ==
    IF n \div 10 = 0 THEN <<1, 1>>
    ELSE LET d == Digits[n \div 10] IN <<d[1] + 1, 10 * d[2]>>

\* What its second loop puts out.
Put[iter \in Nat, div \in Nat, count \in Nat] ==
    IF count = 0 THEN <<>>
    ELSE <<iter \div div>> \o Put[iter % div, div \div 10, count - 1]

\* RMP_Int_Print of an integer of which the negation fits in rmp_cnt_t.
Int_Print(n) ==
    LET abs == IF n < 0 THEN -n ELSE n
        d == Digits[abs]
    IN  IF n = 0 THEN [out |-> <<0>>, ret |-> 1]
        ELSE [out |-> (IF n < 0 THEN <<Minus>> ELSE <<>>) \o Put[abs, d[2], d[1]],
              ret |-> d[1] + (IF n < 0 THEN 1 ELSE 0)]

\* RMP_Hex_Print: from the first nibble that is not 0 on.
Nibble(w, i) == (w[i \div 2] \div 16^(i % 2)) % 16
Hex_Print(N, w) ==
    LET Count == Max({i \in 1..(2 * N) : Nibble(w, i - 1) # 0})
    IN  IF \A i \in DOMAIN w : w[i] = 0 THEN [out |-> <<0>>, ret |-> 1]
        ELSE [out |-> [i \in 1..Count |-> Nibble(w, Count - i)], ret |-> Count]

\* RMP_Str_Print of a string s (without its zero byte), up to
\* RMP_DEBUG_PRINT_MAX characters.
Str_Print(s, max) ==
    LET n == Min({Len(s), max}) IN [out |-> SubSeq(s, 1, n), ret |-> n]

----------------------------------------------------------------------------
(* What the functions promise.                                             *)

\* The scans find the highest and the lowest bit of every word but 0, for
\* every word size, and the reversal reverses: the scheduler, the allocator
\* and the ports rely on tables and shifts that differ per word size.  Of 0,
\* which they never ask, the highest is 0 and the lowest the first bit of the
\* last byte; the comment at rmp_kernel.c:214 has 0 for both (ScanOfZero).
ScansExact(N, w) ==
    LET ones == {i \in 0..(8 * N - 1) : Bit(w, i) = 1}
    IN  /\ MSB_Generic(N, w) = IF ones = {} THEN 0 ELSE Max(ones)
        /\ LSB_Generic(N, w) = IF ones = {} THEN 8 * (N - 1) ELSE Min(ones)
        /\ \A i \in 0..(8 * N - 1) : Bit(RBT_Generic(N, w), i) = Bit(w, 8 * N - 1 - i)

\* "0 will be returned for 0", says the comment of RMP_LSB_Generic (line 214).
\* It fails for every word size.
ScanOfZero(N, w) == (\A i \in DOMAIN w : w[i] = 0) => LSB_Generic(N, w) = 0

\* Characters read back as a number in a base.
Value(digits, base) == FoldLeft(LAMBDA v, d : base * v + d, 0, digits)

\* What is printed reads back as the number, without leading zeros, and the
\* length returned is that of the text.
PrintsBack(p, n, base) ==
    LET digits == SelectSeq(p.out, LAMBDA c : c # Minus)
    IN  /\ p.ret = Len(p.out)
        /\ n = (IF p.out[1] = Minus THEN -1 ELSE 1) * Value(digits, base)
        /\ Head(digits) = 0 => n = 0
============================================================================
