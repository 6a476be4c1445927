------------------------------ MODULE RmpDraw ------------------------------
(***************************************************************************)
(* The built-in graphics: primitives and widgets.  They keep no state but  *)
(* the display, which they reach through the user's RMP_POINT.  A picture  *)
(* is a function from the points painted so far to their colours, and an   *)
(* operation maps a picture to the next, in the order of the calls.        *)
(***************************************************************************)
EXTENDS Integers, SequencesExt

\* Colours: RMP_TRANS and the RMP_CTL_ palette.
Trans == "trans"
White == "white"
LGrey == "lgrey"
Grey  == "grey"
DGrey == "dgrey"
Dark  == "dark"
DDark == "ddark"
Black == "black"

Blank == <<>>

\* RMP_POINT for all points of a set; nothing if the colour is RMP_TRANS.
Paint(pic, points, color) ==
    IF color = Trans THEN pic ELSE [p \in points |-> color] @@ pic

Apart(a, b) == Max({a - b, b - a})
Dir(a, b) == IF b > a THEN 1 ELSE -1

\* Mutant: the error is compared without doubling it.
Turns_Late(err, major) == err >= major

\* Whether the error makes the line step aside.
Turns(err, major) == 2 * err >= major

\* How far the walk along the longer direction has gone in the other one
\* after i steps: Error grows by minor and is brought back by major.
Offset(major, minor) ==
    LET walk[i \in Nat] ==
          IF i = 0 THEN <<0, 0>>
          ELSE LET o == walk[i - 1]
                   err == o[2] + minor
               IN  IF Turns(err, major) THEN <<o[1] + 1, err - major>> ELSE <<o[1], err>>
    IN  [i \in 0..major |-> walk[i][1]]

\* The points of a line between any two points, by the error term.
Walk(x1, y1, x2, y2) ==
    LET dx == Apart(x1, x2)
        dy == Apart(y1, y2)
        off == Offset(Max({dx, dy}), Min({dx, dy}))
    IN  IF dx > dy THEN {<<x1 + Dir(x1, x2) * i, y1 + Dir(y1, y2) * off[i]>> : i \in 0..dx}
        ELSE {<<x1 + Dir(x1, x2) * off[i], y1 + Dir(y1, y2) * i>> : i \in 0..dy}

Between(a, b) == Min({a, b})..Max({a, b})

\* RMP_Line: vertical and horizontal lines directly.
Line(x1, y1, x2, y2) ==
    IF x1 = x2 THEN {x1} \X Between(y1, y2)
    ELSE IF y1 = y2 THEN Between(x1, x2) \X {y1}
    ELSE Walk(x1, y1, x2, y2)

\* RMP_Dot_Line: a dot where the coordinate of the longer direction is odd.
Dot_Line(pic, x1, y1, x2, y2, dot, space) ==
    LET axis == IF Apart(x1, x2) > Apart(y1, y2) THEN 1 ELSE 2
        dots == {p \in Walk(x1, y1, x2, y2) : p[axis] % 2 = 1}
    IN  Paint(Paint(pic, dots, dot), Walk(x1, y1, x2, y2) \ dots, space)

\* The four sides of a box.
Top(x, y, l, w)    == Line(x, y, x + l - 1, y)
Right(x, y, l, w)  == Line(x + l - 1, y, x + l - 1, y + w - 1)
Bottom(x, y, l, w) == Line(x + l - 1, y + w - 1, x, y + w - 1)
Left(x, y, l, w)   == Line(x, y + w - 1, x, y)
Sides(x, y, l, w) ==
    Top(x, y, l, w) \cup Right(x, y, l, w) \cup Bottom(x, y, l, w) \cup Left(x, y, l, w)

\* RMP_Rectangle
Rectangle(pic, x, y, l, w, border, fill) ==
    Paint(Paint(pic, UNION {Line(x, y + k, x + l - 1, y + k) : k \in 0..(w - 1)}, fill),
          Sides(x, y, l, w), border)

\* One eighth of a circle from its top on: Cur_X and Cur_Y of each round of
\* the loop.  It adds 10 where it steps inwards if the circle is filled, and
\* 0 if it is not.
Arc(radius, inwards) ==
    LET from[x \in Nat, y \in Int, err \in Int] ==
          IF x > y THEN <<>>
          ELSE <<<<x, y>>>> \o
               IF err < 0 THEN from[x + 1, y, err + 4 * x + 6]
               ELSE from[x + 1, y - 1, err + 4 * (x - y) + inwards]
    IN  from[0, radius, 3 - 2 * radius]

\* A point of that eighth in all eight.
Signs == {-1, 1} \X {-1, 1}
Eight(cx, cy, a, b) ==
    {<<cx + s[1] * a, cy + s[2] * b>> : s \in Signs}
    \cup {<<cx + s[1] * b, cy + s[2] * a>> : s \in Signs}

\* Half the side of the square that a filled circle begins with.
Quick(radius) == (2 * radius) \div 3

\* RMP_Circle: a filled one begins with a square and fills, in each round,
\* what lies between the diagonal and the border outside that square.
Circle(pic, cx, cy, radius, border, fill) ==
    LET quick == Quick(radius)
        square == Rectangle(pic, cx - quick, cy - quick, 2 * quick + 1, 2 * quick + 1,
                            fill, fill)
        step(p, c) ==
          LET rest == {f \in c[1]..c[2] : ~(c[1] < quick /\ f < quick)}
          IN  Paint(Paint(p, UNION {Eight(cx, cy, c[1], f) : f \in rest}, fill),
                    Eight(cx, cy, c[1], c[2]), border)
    IN  IF fill # Trans THEN FoldLeft(step, square, Arc(radius, 10))
        ELSE FoldLeft(LAMBDA p, c : Paint(p, Eight(cx, cy, c[1], c[2]), border),
                      pic, Arc(radius, 0))

\* RMP_Round_Rect
Round_Rect(pic, x, y, l, w, round, color) ==
    LET x0 == x + round + 1
        x1 == x + l - round - 1
        y0 == y + round + 1
        y1 == y + w - round - 1
        il == l - 2 * round - 2
        iw == w - 2 * round - 2
        boxes == <<<<x0, y0, il, iw>>, <<x, y0, round + 1, iw>>, <<x1, y0, round + 1, iw>>,
                   <<x0, y1, il, round + 1>>, <<x0, y, il, round + 1>>>>
        body == FoldLeft(LAMBDA p, b : Rectangle(p, b[1], b[2], b[3], b[4], color, color),
                         pic, boxes)
    IN  FoldLeft(LAMBDA p, c : Circle(p, c[1], c[2], round, color, color), body,
                 <<<<x0, y0>>, <<x1, y0>>, <<x0, y1>>, <<x1, y1>>>>)

----------------------------------------------------------------------------
(* Bit maps: a sequence of bytes, eight columns of a row in each.          *)

\* RMP_MAT_BPOS, RMP_MAT_SPOS
Mat_Pos(mat, big, pos) ==
    (mat[1 + pos \div 8] \div 2^(IF big THEN 7 - (pos % 8) ELSE pos % 8)) % 2 = 1

\* RMP_Matrix
Matrix(pic, x, y, mat, big, l, w, color) ==
    IF l % 8 # 0 THEN pic
    ELSE Paint(pic, {<<x + (pos % l), y + pos \div l>> :
                       pos \in {q \in 0..(l * w - 1) : Mat_Pos(mat, big, q)}}, color)

\* AA_Val: the neighbours of an empty position that are set, by the tests of
\* the code on positions (the first and third are not made at the ends).
AA_Val(mat, big, l, w, pos) ==
    LET total == l * w
        set(q) == IF Mat_Pos(mat, big, q) THEN 1 ELSE 0
    IN  (IF pos - 1 >= 0 /\ (pos % l) # 0 THEN set(pos - 1) ELSE 0)
        + (IF pos - 1 >= 0 /\ pos - l >= 0 THEN set(pos - l) ELSE 0)
        + (IF pos + 1 < total /\ (pos % l) + 1 # l THEN set(pos + 1) ELSE 0)
        + (IF pos + 1 < total /\ pos + l < total THEN set(pos + l) ELSE 0)

\* RMP_Matrix_AA: as RMP_Matrix, and an empty point with one to three set
\* neighbours in a mixture of the colours.
Mix(color, back, n) == <<color, back, n>>
Matrix_AA(pic, x, y, mat, big, l, w, color, back) ==
    LET grey == [q \in 0..(l * w - 1) |->
                   IF Mat_Pos(mat, big, q) THEN 0 ELSE AA_Val(mat, big, l, w, q)]
        at(q) == <<x + (q % l), y + q \div l>>
        mixed(p, n) == Paint(p, {at(q) : q \in {r \in DOMAIN grey : grey[r] = n}},
                             Mix(color, back, n))
    IN  IF l % 8 # 0 THEN pic
        ELSE Matrix(mixed(mixed(mixed(pic, 1), 2), 3), x, y, mat, big, l, w, color)

----------------------------------------------------------------------------
(* Widgets.  Length and Width are those of the box, x and y its corner.    *)

\* Lines one after the other: <<points, colour>>.
Lines(pic, ls) == FoldLeft(LAMBDA p, d : Paint(p, d[1], d[2]), pic, ls)

\* The strokes of RMP_Checkbox_Set, and of RMP_Checkbox_Clr in white.
Tick(x, y, l) ==
    UNION {Line(x + (4 * l) \div 13 + c, y + (6 * l) \div 13 + c,
                x + (4 * l) \div 13 + c, y + (8 * l) \div 13 + c) : c \in 0..((2 * l) \div 13)}
    \cup
    UNION {Line(x + (6 * l) \div 13 + c, y + (8 * l) \div 13 - c,
                x + (6 * l) \div 13 + c, y + (10 * l) \div 13 - c) : c \in 0..((4 * l) \div 13)}
Checkbox_Set(pic, x, y, l) == Paint(pic, Tick(x, y, l), Black)
Checkbox_Clr(pic, x, y, l) == Paint(pic, Tick(x, y, l), White)

\* RMP_Checkbox: the lower line of the shadow begins at the border.
Checkbox(pic, x, y, l, status) ==
    LET box == Lines(Rectangle(pic, x, y, l, l, White, White),
                 <<<<Top(x, y, l, l), Dark>>, <<Right(x, y, l, l), White>>,
                   <<Bottom(x, y, l, l), White>>, <<Left(x, y, l, l), Dark>>,
                   <<Top(x + 1, y + 1, l - 2, l - 2), Black>>,
                   <<Right(x + 1, y + 1, l - 2, l - 2), Dark>>,
                   <<Line(x + l - 2, y + l - 2, x, y + l - 2), Dark>>,
                   <<Left(x + 1, y + 1, l - 2, l - 2), Black>>>>)
    IN  IF status # 0 THEN Checkbox_Set(box, x, y, l) ELSE box

\* Mutant: the old shadow is left.
Cmdbtn_Up_Shadow(pic, x, y, l, w) ==
    Lines(pic,
      <<<<Top(x, y, l, w), White>>, <<Right(x, y, l, w), Black>>,
        <<Bottom(x, y, l, w), Black>>, <<Left(x, y, l, w), White>>,
        <<Bottom(x + 1, y + 1, l - 2, w - 2), Dark>>,
        <<Right(x + 1, y + 1, l - 2, w - 2), Dark>>>>)

\* RMP_Cmdbtn_Down, RMP_Cmdbtn_Up: the old shadow is cleared first.
Cmdbtn_Down(pic, x, y, l, w) ==
    Lines(pic,
      <<<<Top(x, y, l, w), Black>>, <<Right(x, y, l, w), White>>,
        <<Bottom(x, y, l, w), White>>, <<Left(x, y, l, w), Black>>,
        <<Bottom(x + 1, y + 1, l - 2, w - 2), Grey>>,
        <<Right(x + 1, y + 1, l - 2, w - 2), Grey>>,
        <<Left(x + 1, y + 1, l - 2, w - 2), Dark>>,
        <<Top(x + 1, y + 1, l - 2, w - 2), Dark>>>>)
Cmdbtn_Up(pic, x, y, l, w) ==
    Lines(pic,
      <<<<Top(x, y, l, w), White>>, <<Right(x, y, l, w), Black>>,
        <<Bottom(x, y, l, w), Black>>, <<Left(x, y, l, w), White>>,
        <<Left(x + 1, y + 1, l - 2, w - 2), Grey>>,
        <<Top(x + 1, y + 1, l - 2, w - 2), Grey>>,
        <<Bottom(x + 1, y + 1, l - 2, w - 2), Dark>>,
        <<Right(x + 1, y + 1, l - 2, w - 2), Dark>>>>)

\* RMP_Cmdbtn
Cmdbtn(pic, x, y, l, w, status) ==
    LET box == Rectangle(pic, x, y, l, w, Grey, Grey)
    IN  IF status # 0 THEN Cmdbtn_Down(box, x, y, l, w) ELSE Cmdbtn_Up(box, x, y, l, w)

\* RMP_Lineedit_Clr, RMP_Lineedit
Lineedit_Clr(pic, x, len, y, w) == Rectangle(pic, x, y + 1, len, w - 2, White, White)
Lineedit(pic, x, y, l, w) ==
    Lines(Rectangle(pic, x, y, l, w, White, White),
      <<<<Top(x, y, l, w), Dark>>, <<Right(x, y, l, w), White>>,
        <<Bottom(x, y, l, w), White>>, <<Left(x, y, l, w), Dark>>,
        <<Left(x + 1, y + 1, l - 2, w - 2), Black>>,
        <<Top(x + 1, y + 1, l - 2, w - 2), Black>>>>)

\* One of the two circles of RMP_Radiobtn_Circle: in each round first the
\* upper left half, then the lower right one.
Half_Circles(pic, cx, cy, radius, upper, lower) ==
    LET step(p, c) ==
          Paint(Paint(p, {<<cx + c[1], cy - c[2]>>, <<cx - c[1], cy - c[2]>>,
                          <<cx - c[2], cy - c[1]>>, <<cx - c[2], cy + c[1]>>}, upper),
                {<<cx + c[1], cy + c[2]>>, <<cx - c[1], cy + c[2]>>,
                 <<cx + c[2], cy + c[1]>>, <<cx + c[2], cy - c[1]>>}, lower)
    IN  FoldLeft(step, pic, Arc(radius, 0))
Radiobtn_Circle(pic, x, y, l) ==
    LET r == l \div 2
    IN  Half_Circles(Half_Circles(pic, x + r, y + r, r - 1, DDark, LGrey),
                     x + r, y + r, r, DGrey, White)

\* RMP_Radiobtn_Set, RMP_Radiobtn_Clr, RMP_Radiobtn (RMP_RBTN_SEL is 1).
Radiobtn_Set(pic, x, y, l) ==
    Circle(pic, x + l \div 2, y + l \div 2, l \div 6, Black, Black)
Radiobtn_Clr(pic, x, y, l) ==
    Circle(pic, x + l \div 2, y + l \div 2, l \div 6, Grey, Grey)
Radiobtn(pic, x, y, l, status) ==
    LET box == Radiobtn_Circle(Rectangle(pic, x, y, l, l, Grey, Grey), x, y, l)
    IN  IF status = 1 THEN Radiobtn_Set(box, x, y, l) ELSE box

\* The part of a box that a progress bar fills, by style (RMP_PBAR_L2R, D2U,
\* R2L, U2D): from one pivot to a higher one, counted from its beginning.
Part(x, y, l, w, style, from, to) ==
    CASE style = "L2R" -> <<x + from, y, to - from, w>>
      [] style = "D2U" -> <<x, y + w - to, l, to - from>>
      [] style = "R2L" -> <<x + l - to, y, to - from, w>>
      [] style = "U2D" -> <<x, y + from, l, to - from>>
Extent(l, w, style) == IF style \in {"L2R", "R2L"} THEN l ELSE w
Pivot(l, w, style, prog) == (Extent(l, w, style) * prog) \div 100
Block(pic, b, color) == Rectangle(pic, b[1], b[2], b[3], b[4], color, color)

\* RMP_Progbar_Set: inside the border, only what changes.
Progbar_Set(pic, x, y, l, w, style, old, new, fore, back) ==
    LET a == Pivot(l - 2, w - 2, style, old)
        b == Pivot(l - 2, w - 2, style, new)
        part(f, t) == Part(x + 1, y + 1, l - 2, w - 2, style, f, t)
    IN  IF old = new THEN pic
        ELSE IF a > b THEN Block(pic, part(b, a), back)
        ELSE Block(pic, part(a, b), fore)

\* RMP_Progbar_Prog: the whole box.
Progbar_Prog(pic, x, y, l, w, style, prog, fore, back) ==
    LET p == Pivot(l, w, style, prog)
        done == IF prog = 0 THEN pic ELSE Block(pic, Part(x, y, l, w, style, 0, p), fore)
    IN  IF prog = 100 THEN done
        ELSE Block(done, Part(x, y, l, w, style, p, Extent(l, w, style)), back)

\* RMP_Progbar
Progbar(pic, x, y, l, w, style, prog, fore, back) ==
    Paint(Progbar_Prog(pic, x, y, l, w, style, prog, fore, back), Sides(x, y, l, w), Black)

----------------------------------------------------------------------------
(* What the pictures promise.                                              *)

Abs(n) == Max({n, -n})
Box(x, y, l, w) == (x..(x + l - 1)) \X (y..(y + w - 1))
In_Box(pic, x, y, l, w) == DOMAIN pic \subseteq Box(x, y, l, w)

\* A line from the origin to any point has both ends, one point for each
\* step along its longer direction, and no point more than half a pixel off:
\* the error term neither drifts nor loses a carry.  A dotted line has the
\* same points, also where RMP_Line takes a shorter way.
LineExact(x, y) ==
    LET line == Line(0, 0, x, y)
    IN  /\ {<<0, 0>>, <<x, y>>} \subseteq line
        /\ Cardinality(line) = Max({Abs(x), Abs(y)}) + 1
        /\ \A p \in line : 2 * Abs(x * p[2] - y * p[1]) <= Max({Abs(x), Abs(y)})
        /\ DOMAIN Dot_Line(Blank, 0, 0, x, y, Black, White) = line

\* A filled circle has no hole and nothing outside: it paints every point
\* half a pixel inside the radius and none half a pixel outside, and the
\* filling never overwrites the border, which closes every row.  A rounded
\* rectangle with such corners has no hole and stays in its box.
Rows(pic) == {p[2] : p \in DOMAIN pic}
Row(pic, y) == {p[1] : p \in {q \in DOMAIN pic : q[2] = y}}
Solid(pic) == \A y \in Rows(pic) : Row(pic, y) = Min(Row(pic, y))..Max(Row(pic, y))
CircleSolid(r) ==
    LET pic == Circle(Blank, 0, 0, r, Black, Grey)
        round == Round_Rect(Blank, 0, 0, 2 * r + 3, 2 * r + 5, r, Black)
    IN  /\ Solid(pic) /\ Solid(round)
        /\ Rows(round) = 0..(2 * r + 4) /\ In_Box(round, 0, 0, 2 * r + 3, 2 * r + 5)
        /\ \A y \in Rows(pic) : pic[<<Min(Row(pic, y)), y>>] = Black
                              /\ pic[<<Max(Row(pic, y)), y>>] = Black
        /\ \A p \in DOMAIN pic : p[1] * p[1] + p[2] * p[2] <= r * r + r
        /\ \A p \in Box(-r, -r, 2 * r + 1, 2 * r + 1) :
              p[1] * p[1] + p[2] * p[2] <= r * r - r => p \in DOMAIN pic

\* The position tests of the smoothing count the neighbours in the picture:
\* no row runs over into the next.
SmoothExact(mat, big, l, w) ==
    LET on(i, j) == i \in 0..(l - 1) /\ j \in 0..(w - 1) /\ Mat_Pos(mat, big, j * l + i)
        near(i, j) == Cardinality({d \in {<<0, 1>>, <<0, -1>>, <<1, 0>>, <<-1, 0>>} :
                                     on(i + d[1], j + d[2])})
        pic == Matrix_AA(Blank, 0, 0, mat, big, l, w, Black, White)
    IN  pic = [p \in {q \in Box(0, 0, l, w) :
                        on(q[1], q[2]) \/ near(q[1], q[2]) \in 1..3} |->
                 IF on(p[1], p[2]) THEN Black ELSE Mix(Black, White, near(p[1], p[2]))]

\* What a check box, a radio button or a button is changed to looks as if it
\* had been drawn so: neither a tick nor a dot nor a shadow stays.  Clearing a
\* portion of a line edit whitens that portion inside the border and nothing
\* else; with it goes the shadow, which only drawing the box anew brings back.
\* Every widget paints all of its box and nothing outside, but for the radio
\* button of an even length: its circle is l + 1 wide, although the comments
\* at rmp_kernel.c:6687 and 6813 give it the length as its width, so that it
\* reaches one column and one row too far.
WidgetsReversible(l, w) ==
    LET check(s)  == Checkbox(Blank, 0, 0, l, s)
        radio(s)  == Radiobtn(Blank, 0, 0, l, s)
        button(s) == Cmdbtn(Blank, 0, 0, l, w, s)
        edit      == Lineedit(Blank, 0, 0, l, w)
        clear(from, len) == Lineedit_Clr(edit, from, len, 0, w)
    IN  /\ Checkbox_Clr(check(1), 0, 0, l) = check(0)
        /\ Radiobtn_Clr(radio(1), 0, 0, l) = radio(0)
        /\ Cmdbtn_Up(button(1), 0, 0, l, w) = button(0)
        /\ Cmdbtn_Down(button(0), 0, 0, l, w) = button(1)
        /\ \A from \in {1, l \div 3} : \A len \in {l \div 2, l - 1 - from} :
              clear(from, len) = [p \in DOMAIN edit |-> IF p \in Box(from, 1, len, w - 2)
                                                       THEN White ELSE edit[p]]
        /\ DOMAIN check(1) = Box(0, 0, l, l)
        /\ \A s \in {0, 1} : DOMAIN button(s) = Box(0, 0, l, w)
        /\ DOMAIN edit = Box(0, 0, l, w)
        /\ Box(0, 0, l, l) \subseteq DOMAIN radio(1)
        /\ In_Box(radio(1), 0, 0, l + 1, l + 1)
        /\ In_Box(radio(1), 0, 0, l, l) <=> l % 2 = 1

\* A bar that shows one progress exactly shows the other after it is set,
\* whatever the style and the direction of the change, if the pivots differ
\* (if they do not, a rectangle of length 0 is painted two columns wide).  A
\* bar drawn anew covers its box, with the same exception.
Shown(l, w, style, prog) ==
    LET p == Pivot(l - 2, w - 2, style, prog)
        part(f, t) == Part(1, 1, l - 2, w - 2, style, f, t)
        of(b) == Box(b[1], b[2], b[3], b[4])
    IN  [q \in Box(1, 1, l - 2, w - 2) |->
           IF q \in of(part(0, p)) THEN Black ELSE White]
ProgressExact(l, w, style, old, new) ==
    Pivot(l - 2, w - 2, style, old) # Pivot(l - 2, w - 2, style, new) =>
       Progbar_Set(Shown(l, w, style, old), 0, 0, l, w, style, old, new, Black, White)
         = Shown(l, w, style, new)
DrawnExact(l, w, style, prog) ==
    prog = 0 \/ Pivot(l, w, style, prog) > 0 =>
       DOMAIN Progbar(Blank, 0, 0, l, w, style, prog, Black, White) = Box(0, 0, l, w)
============================================================================
