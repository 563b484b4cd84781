------------------------------- MODULE Sudoku -------------------------------
(***************************************************************************)
(* utility/sudoku.cpp: boards, the solver that keeps a stack of partly     *)
(* solved ones, and the tiling that grows boards next to each other, one   *)
(* solver step per request.  A cell is the set of its alternatives, which  *)
(* to_cell_type shifts into an unsigned: up to the rank 5, with 25 of      *)
(* them.  What the traits print for a cell is left out.                    *)
(***************************************************************************)
EXTENDS Integers, Sequences, SequencesExt, FiniteSets

CONSTANTS Rank,       \* S
          FirstBoards, \* boards a tiling may be made with
          Tiles       \* positions that are asked for

ASSUME RankAssumption == Rank \in 2..5

S == Rank

glyph_count == S * S

Glyphs == 0..glyph_count - 1

\* A board is the sequence of its cells in the order of for_each_coord.
BoardCells == 1..S * S * S * S

CoordSeq ==
    <<>> \o [n \in BoardCells |->
        LET k == n - 1
        IN  <<(k \div (S * S)) % S, k \div (S * S * S), k % S, (k \div S) % S>>]

\* _cell_val, _block and _cell: where the cell at <<bx, by, cx, cy>> is.
Cell(c) == 1 + c[2] * S * S * S + c[1] * S * S + c[4] * S + c[3]

invalid_coord == 0

is_single(cell) == Cardinality(cell) = 1

EmptyBoard == <<>> \o [n \in BoardCells |-> {}]

SameBlock(c, d) == c[1] = d[1] /\ c[2] = d[2]

SameRow(c, d) == c[2] = d[2] /\ c[4] = d[4]

SameColumn(c, d) == c[1] = d[1] /\ c[3] = d[3]

Peers ==
    <<>> \o [n \in BoardCells |->
        {m \in BoardCells \ {n} : LET c == CoordSeq[n]
                                 d == CoordSeq[m]
                             IN  SameBlock(c, d) \/ SameRow(c, d) \/ SameColumn(c, d)}]

IgnoresBlock(board, n, value) ==    \* mutant of is_possible
    {value} \notin {board[m] : m \in {k \in Peers[n] : ~SameBlock(CoordSeq[k], CoordSeq[n])}}

is_possible(board, n, value) == {value} \notin {board[m] : m \in Peers[n]}

is_solved(board) == \A n \in BoardCells : is_single(board[n])

has_empty(board) == \E n \in BoardCells : board[n] = {}

\* The glyphs that is_possible lets through.
available_alternatives(board, n) ==
    {v \in Glyphs : is_possible(board, n, v)}

set_available_alternatives(board, n) == [board EXCEPT ![n] = available_alternatives(board, n)]

\* Cell after cell, each seeing what was found for those before it.
calculate_alternatives(board) ==
    FoldLeft(LAMBDA b, n : IF is_single(b[n]) THEN b ELSE set_available_alternatives(b, n),
             board, [n \in BoardCells |-> n])

\* The first of the cells with the fewest alternatives, if more than one.
find_unsolved(board) ==
    LET many == {n \in BoardCells : Cardinality(board[n]) > 1}
        few == {n \in many : \A m \in many : Cardinality(board[n]) <= Cardinality(board[m])}
    IN  IF many = {} THEN invalid_coord ELSE Min(few)

\* The boards for_each_alternative calls its function with.
for_each_alternative(board, n) ==
    IF n = invalid_coord THEN <<>>
    ELSE LET ok == SetToSortSeq({v \in board[n] : is_possible(board, n, v)}, <)
             candidates == <<>> \o [i \in 1..Len(ok) |-> calculate_alternatives([board EXCEPT ![n] = {ok[i]}])]
         IN  SelectSeq(candidates, LAMBDA b : ~has_empty(b))

alternative_count(board) ==
    FoldLeft(LAMBDA sum, cell : IF is_single(cell) THEN sum ELSE sum + Cardinality(cell), 0, board)

\* The board with its block at <<bx, by>> taken from the block at <<fx, fy>> of another.
set_block(board, bx, by, other, fx, fy) ==
    <<>> \o [n \in BoardCells |->
        LET c == CoordSeq[n]
        IN  IF c[1] = bx /\ c[2] = by THEN other[Cell(<<fx, fy, c[3], c[4]>>)] ELSE board[n]]

make_diagonal ==
    calculate_alternatives(
        <<>> \o [n \in BoardCells |-> LET c == CoordSeq[n]
                                IN  IF c[1] = c[2] /\ c[3] = c[4] THEN {c[1] * S + c[3]} ELSE {}])

\* One round of generate: any cell that is not single gets any possible glyph.
generate(board) ==
    {calculate_alternatives([board EXCEPT ![nv[1]] = {nv[2]}]) :
        nv \in {c \in BoardCells \X Glyphs : ~is_single(board[c[1]]) /\ is_possible(board, c[1], c[2])}}

----------------------------------------------------------------------------
(* basic_sudoku_solver::solution_state *)

solution_state(board) == [solutions |-> <<board>>, done |-> FALSE]

is_done(s) == s.done \/ s.solutions = <<>>

solution_solved(s) == s.solutions # <<>> /\ is_solved(Last(s.solutions))

\* next: candidates are pushed until one of them is solved.
next(s) ==
    LET current == Last(s.solutions)
        found == for_each_alternative(current, find_unsolved(current))
        at == SelectInSeq(found, is_solved)
    IN  [solutions |-> Front(s.solutions) \o (IF at = 0 THEN found ELSE SubSeq(found, 1, at)),
         done |-> at # 0]

Solutions == [solutions : Seq(Seq(SUBSET Glyphs)), done : BOOLEAN]

Solving[s \in Solutions] == IF is_done(s) THEN s ELSE Solving[next(s)]

\* solve: the solved board, or nothing where board() would assert.
solve(board) ==
    LET s == Solving[solution_state(board)]
    IN  IF s.solutions = <<>> THEN <<>> ELSE <<Last(s.solutions)>>

----------------------------------------------------------------------------
(* basic_sudoku_tiling: boards maps a position to a solution or a board *)

VARIABLE boards

_do_enqueue(m, p, board) ==
    [m EXCEPT ![p] = [kind |-> "solution", is |-> solution_state(calculate_alternatives(board))]]

\* The blocks that a new board takes from its neighbour in x and in y, and the
\* ranges that leave the block they share to the solver.
FromX(board, p, b) ==
    LET rows == IF p[2] > 0 THEN 0..S - 2 ELSE IF p[2] < 0 THEN 1..S - 1 ELSE 0..S - 1
        here == IF p[1] > 0 THEN 0 ELSE S - 1
    IN  FoldLeft(LAMBDA a, by : set_block(a, here, by, b, S - 1 - here, by), board, SetToSeq(rows))

FromY(board, p, b) ==
    LET columns == IF p[1] > 0 THEN 1..S - 1 ELSE IF p[1] < 0 THEN 0..S - 2 ELSE 0..S - 1
        here == IF p[2] > 0 THEN S - 1 ELSE 0
    IN  FoldLeft(LAMBDA a, bx : set_block(a, bx, here, b, bx, S - 1 - here), board, SetToSeq(columns))

Toward0(n) == IF n > 0 THEN n - 1 ELSE n + 1

NoGlyph == <<>>

Tilings ==
    [Tiles -> {NoGlyph} \cup [kind : {"solution"}, is : Solutions]
                       \cup [kind : {"board"}, is : Seq(SUBSET Glyphs)]]

\* inx and iny: the map after the neighbour was asked for, and its board.
_enqueue(p, inx, iny) ==
    LET with_x == IF p[1] = 0 THEN EmptyBoard ELSE FromX(EmptyBoard, p, inx[2][1])
        added == IF p[2] = 0 THEN with_x ELSE FromY(with_x, p, iny[2][1])
    IN  IF /\ p # <<0, 0>>
           /\ p[1] # 0 => inx[2] # NoGlyph
           /\ p[2] # 0 => iny[2] # NoGlyph
        THEN _do_enqueue(iny[1], p, added)
        ELSE iny[1]

\* Both neighbours are asked for even when the first is not there yet.
_get[m \in Tilings, p \in Tiles] ==
    LET at == m[p]
        inx == IF p[1] = 0 THEN <<m, NoGlyph>> ELSE _get[m, <<Toward0(p[1]), p[2]>>]
        iny == IF p[2] = 0 THEN <<inx[1], NoGlyph>> ELSE _get[inx[1], <<p[1], Toward0(p[2])>>]
    IN  CASE at = NoGlyph -> <<_enqueue(p, inx, iny), NoGlyph>>
          [] at # NoGlyph /\ at.kind = "board" -> <<m, <<at.is>>>>
          [] OTHER ->
             <<[m EXCEPT ![p] =
                  IF ~is_done(at.is) THEN [at EXCEPT !.is = next(at.is)]
                  ELSE IF solution_solved(at.is)
                  THEN [kind |-> "board", is |-> Last(at.is.solutions)]
                  ELSE NoGlyph], NoGlyph>>

\* Where patch_fill_state finds the cell at <<kx, ky>>, on boards of
\* the rank R (patches need boards of the rank 3 or more).
Trunc(num, den) == IF num < 0 THEN -((-num) \div den) ELSE num \div den

Rem(num, den) == num - Trunc(num, den) * den

_flr_div(num, den) ==
    IF num * den > 0 THEN Trunc(num, den)
    ELSE IF Rem(num, den) # 0 THEN Trunc(num, den) - 1 ELSE Trunc(num, den)

_pos_mod(num, den) == Rem(Rem(num, den) + den, den)

_get_board_coord(R, k) == <<_flr_div(k[1], R * (R - 1)), _flr_div(k[2], R * (R - 1))>>

_get_in_board_coord(R, k) ==
    <<_pos_mod(_flr_div(k[1], R), R - 1), _pos_mod(_flr_div(k[2], R), R - 1),
      _pos_mod(k[1], R), _pos_mod(k[2], R)>>

\* basic_sudoku_tile_patch: sizes are rounded up, the height by the width.
tile_patch(R, w, h) ==
    LET M == R * (R - 2)
        Rounded(n) == IF n % M # 0 THEN (1 + w \div M) * M ELSE n
    IN  [width |-> Rounded(w), height |-> Rounded(h)]

\* patch_fill_state::_get_cell_coord
_get_cell_coord(patch, xmin, ymin, k) ==
    <<xmin + (k % patch.width), ymin + (k \div patch.width)>>

TilingInit ==
    \E board \in FirstBoards :
        boards = _do_enqueue([p \in Tiles |-> NoGlyph], <<0, 0>>, board)

\* generate and fill ask for one tile after another.
GetTile(p) == boards' = _get[boards, p][1]

TilingNext == \E p \in Tiles : GetTile(p)

TilingSpec == TilingInit /\ [][TilingNext]_boards

----------------------------------------------------------------------------
ValidBoard(board) ==
    \A n \in BoardCells : is_single(board[n]) => \A m \in Peers[n] : board[m] # board[n]

Known(p) == p \in Tiles /\ boards[p] # NoGlyph /\ boards[p].kind = "board"

\* Every board the tiling holds, finished or not, obeys the rules, finished
\* boards are full, and finished neighbours agree on the blocks they share
\* (those of a corner tile without the block both neighbours share).
TilesFit ==
    \A p \in Tiles :
        /\ boards[p] # NoGlyph /\ ~Known(p) => \A b \in ToSet(boards[p].is.solutions) : ValidBoard(b)
        /\ Known(p) =>
           /\ is_solved(boards[p].is) /\ ValidBoard(boards[p].is)
           /\ p[1] # 0 => FromX(boards[p].is, p, boards[<<Toward0(p[1]), p[2]>>].is) = boards[p].is
           /\ p[2] # 0 => FromY(boards[p].is, p, boards[<<p[1], Toward0(p[2])>>].is) = boards[p].is

\* Asking for tiles in any order makes progress: a finished board is never
\* taken back (a fill may keep a reference to it), and no tile that was begun
\* is given up, to be begun again in the same way for ever (_get erases a
\* solution that is done and not solved).  Corner tiles are left out: the
\* blocks they get from two neighbours may have no completion.
TilesStay ==
    [][\A p \in Tiles :
          /\ Known(p) => boards'[p] = boards[p]
          /\ boards[p] # NoGlyph /\ 0 \in {p[1], p[2]} => boards'[p] # NoGlyph]_boards

\* The same of corner tiles, which the code does not keep.
CornersStay ==
    [][\A p \in Tiles : boards[p] # NoGlyph => boards'[p] # NoGlyph]_boards

\* The solver returns a full valid board that extends the one given whenever
\* there is one, and nothing otherwise; full: all full valid boards.
SolveLaws(board, full) ==
    LET answer == solve(calculate_alternatives(board))
        Extends(b) == \A n \in BoardCells : is_single(board[n]) => b[n] = board[n]
    IN  \/ is_solved(calculate_alternatives(board))
        \/ IF \E b \in full : Extends(b)
           THEN answer # <<>> /\ answer[1] \in full /\ Extends(answer[1])
           ELSE answer = <<>>

\* One more glyph of the generator keeps the rules and what was known.
GenerateLaw(board) ==
    \A b \in generate(board) :
        /\ ValidBoard(board) => ValidBoard(b)
        /\ \A n \in BoardCells : is_single(board[n]) => b[n] = board[n]
        /\ alternative_count(b) < alternative_count(board)

\* A patch is at least as wide as was asked for (and as high, if it is not
\* higher than wide), the fill visits every cell of it once, and what it
\* finds there is one cell of one board: the boards lie side by side without
\* their last row and column of blocks.
PatchLaws(R, w, h, xmin, ymin) ==
    LET patch == tile_patch(R, w, h)
        At(k) == _get_cell_coord(patch, xmin, ymin, k)
        ks == 0..patch.width * patch.height - 1
        Side == R * (R - 1)
    IN  /\ patch.width >= w /\ patch.width % (R * (R - 2)) = 0
        /\ h <= w => patch.height >= h
        /\ {At(k) : k \in ks} =
              (xmin..xmin + patch.width - 1) \X (ymin..ymin + patch.height - 1)
        /\ \A k \in ks : \A i \in 1..2 :
              LET c == _get_in_board_coord(R, At(k))
              IN  /\ At(k)[i] = _get_board_coord(R, At(k))[i] * Side + c[i] * R + c[i + 2]
                  /\ c[i] \in 0..R - 2 /\ c[i + 2] \in 0..R - 1
============================================================================
