------------------------------- MODULE MCLib -------------------------------
(***************************************************************************)
(* The library on small instances: a memory pool of which the user asks    *)
(* everything in every order, and beside it, one per initial state, inputs *)
(* of the functions that keep no state.                                    *)
(***************************************************************************)
EXTENDS RmpMem, RmpLib, RmpDraw

VARIABLE input  \* of a pure function; "pool" in the states of the pool

\* Bytes of a word: one byte that takes every value, filler below and above.
Words(N, b) ==
    {[i \in 0..(N - 1) |-> IF i < p THEN lo ELSE IF i = p THEN b ELSE hi] :
       p \in 0..(N - 1), lo \in {0, 90}, hi \in {0, 165}}

Styles == {"L2R", "D2U", "R2L", "U2D"}

\* Numbers around the powers of ten, and the ends of 16 bits.
Numbers ==
    {s * (10^e + d) : s \in {-1, 1}, e \in 0..4, d \in -2..2} \cup {-32767, 32767, 12045}

Inputs ==
    [kind : {"byte"}, b : Byte] \cup
    [kind : {"number"}, n : Numbers] \cup
    [kind : {"line"}, x : -6..9, y : -9..6] \cup
    [kind : {"radius"}, r : 0..14] \cup
    [kind : {"box"}, l : 13..26, w : {5, 9, 14}] \cup
    [kind : {"bar"}, style : Styles, l : {9, 15}, w : {6, 12}, old : {0, 7, 33, 50, 95, 100}]

MCInit == MemInit /\ input \in {[kind |-> "pool"]} \cup Inputs
MCNext == input.kind = "pool" /\ MemNext /\ UNCHANGED input
MCSpec == MCInit /\ [][MCNext]_<<m, user, input>>

\* Words of blocks that were merged away no longer matter.
MCView ==
    LET heads == m.used \cup UNION {ToSet(m.table[l]) : l \in m.bitmap}
    IN  <<[m EXCEPT !.tail = Restrict(@, heads),
                    !.back = Restrict(@, {m.tail[h] : h \in heads})], user, input>>

\* The bit scans, the checksum and the conversions of printing are exact, for
\* every value of a byte at every place of words of 2, 4 and 8 bytes (0 too,
\* of which the scan from the bottom does not return what its comment says:
\* see ScansExact) and for numbers around the powers of ten; a text is cut at
\* the limit.
FunctionsExact ==
    CASE input.kind = "byte" ->
           /\ \A N \in {2, 4, 8} : \A w \in Words(N, input.b) : ScansExact(N, w)
           /\ \A w \in Words(2, input.b) :
                 /\ PrintsBack(Hex_Print(2, w), w[0] + 256 * w[1], 16)
                 /\ CRC16(<<w[1], w[0], 49>>) = CRC16_Ref(<<w[1], w[0], 49>>)
      [] input.kind = "number" ->
           /\ PrintsBack(Int_Print(input.n), input.n, 10)
           /\ LET out == Int_Print(input.n).out
              IN  Str_Print(out, 3) = [out |-> SubSeq(out, 1, Min({3, Len(out)})),
                                       ret |-> Min({3, Len(out)})]
      [] OTHER -> TRUE

\* Of MCLibZero.cfg, beside the runs: the sentence of RMP_LSB_Generic on 0,
\* which fails.
ZeroForZero ==
    input.kind = "byte" =>
       \A N \in {2, 4, 8} : \A w \in Words(N, input.b) : ScanOfZero(N, w)

\* Lines and filled circles are the best approximation on the grid and filling
\* leaves no holes (see LineExact and CircleSolid; a circle that is not filled
\* is not compared with the grid); a bit map is smoothed by the neighbours in
\* the picture (SmoothExact).
PicturesExact ==
    CASE input.kind = "line" -> LineExact(input.x, input.y)
      [] input.kind = "radius" -> CircleSolid(input.r)
      [] input.kind = "byte" ->
           \A big \in BOOLEAN :
              /\ SmoothExact(<<input.b, 90, 60>>, big, 8, 3)
              /\ SmoothExact(<<input.b, 129, 102, input.b>>, big, 16, 2)
      [] OTHER -> TRUE

\* A widget that is changed looks as one drawn so, and its pixels are those of
\* its box, with the exceptions that WidgetsReversible names; setting a
\* progress bar shows the progress (see ProgressExact).
WidgetsExact ==
    CASE input.kind = "box" -> WidgetsReversible(input.l, input.w)
      [] input.kind = "bar" ->
           /\ DrawnExact(input.l, input.w, input.style, input.old)
           /\ \A new \in {0, 20, 50, 71, 100} :
                 ProgressExact(input.l, input.w, input.style, input.old, new)
      [] OTHER -> TRUE
============================================================================
