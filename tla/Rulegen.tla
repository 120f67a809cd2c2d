------------------------------ MODULE Rulegen -------------------------------
(***************************************************************************)
(* rulegen: figural puzzles from a seed. Pure. A draw is what one puzzle   *)
(* pulls from the generator's random stream: indices into the lists the    *)
(* code picks from, so the same stream gives the same puzzle. A drawing is *)
(* the name of what it shows.                                              *)
(*                                                                         *)
(* An operator named ...Bug is a plausible slip in the one it precedes,    *)
(* used only to show which property notices.                               *)
(***************************************************************************)
EXTENDS Items, Lists, SequencesExt

Shapes       == <<"circle", "square", "triangle", "pentagon">>
Asymmetric   == <<"triangle", "pentagon">>
Counts       == <<1, 2, 3, 4>>
Orientations == <<0, 90, 180, 270>>
MaxCount     == 1000

Figure(shape, count, turn, filled) ==
    [shape |-> shape, count |-> count, turn |-> turn, filled |-> filled]

(* visualKey: how a figure looks. *)
Looks(fig) == [fig EXCEPT !.turn = IF fig.shape \in {"circle", "square"} THEN 0 ELSE @ % 360]

FigureUri(figs) == DataUri(ToString([k \in DOMAIN figs |-> Looks(figs[k])]))

Others(vals, val) == Picked(vals, {k \in DOMAIN vals : vals[k] # val})

(* The base with one attribute changed. *)
Changed(base, turnable) ==
    LET shapes == Others(Shapes, base.shape)
        counts == Others(Counts, base.count)
        turns  == IF turnable THEN Others(Orientations, base.turn) ELSE <<>>
    IN  [k \in DOMAIN shapes |-> [base EXCEPT !.shape = shapes[k]]]
            \o [k \in DOMAIN counts |-> [base EXCEPT !.count = counts[k]]]
            \o << [base EXCEPT !.filled = ~@] >>
            \o [k \in DOMAIN turns |-> [base EXCEPT !.turn = turns[k]]]

(* Of those, what looks like neither the base nor one before it.           *)
Neighbors(base, turnable) ==
    LET all == Changed(base, turnable)
        looks == [k \in DOMAIN all |-> Looks(all[k])]
    IN  Picked(all, {k \in DOMAIN all : looks[k] # Looks(base) /\ \A l \in 1..(k - 1) : looks[l] # looks[k]})

(* Some of these, in the order drawn.                                      *)
DistinctNeighbors(base, turnable, drawn) ==
    LET uniq == Neighbors(base, turnable) IN [k \in DOMAIN drawn |-> uniq[drawn[k]]]

ClampBand(band, top) == IF band < 1 THEN 1 ELSE IF band > top THEN top ELSE band

(* The right figure goes to the place drawn for it.                        *)
Assemble(right, wrong, at) == SubSeq(wrong, 1, at - 1) \o <<right>> \o SubSeq(wrong, at, Len(wrong))

-----------------------------------------------------------------------------
(* The engines: what is shown, the options, where the right one is, and    *)
(* the band the puzzle really has.                                         *)

MatrixCell(band, d, r, c) ==
    LET rules == ClampBand(band, 3)
    IN  Figure(IF rules >= 2 THEN Shapes[d.rows[r]] ELSE Shapes[d.shape], c, 0,
               IF rules >= 3 THEN (r + c) % 2 = 0 ELSE d.fill)

Matrix(band, d) ==
    LET right == MatrixCell(band, d, 3, 3)
    IN  [seen    |-> [k \in 1..8 |-> MatrixCell(band, d, 1 + ((k - 1) \div 3), 1 + ((k - 1) % 3))],
         options |-> Assemble(right, DistinctNeighbors(right, FALSE, d.wrong), d.at),
         key     |-> d.at, band |-> ClampBand(band, 3), kind |-> "grid"]

SeriesFigure(band, d, step) ==
    Figure(IF band >= 2 THEN Asymmetric[d.asym] ELSE Shapes[d.shape],
           IF band = 1 \/ band >= 3 THEN step + 1 ELSE 1,
           IF band >= 2 THEN step * 90 ELSE 0, d.fill)

Series(band, d) ==
    LET right == SeriesFigure(band, d, 3)
    IN  [seen    |-> [k \in 1..3 |-> SeriesFigure(band, d, k - 1)],
         options |-> Assemble(right, DistinctNeighbors(right, band >= 2, d.wrong), d.at),
         key     |-> d.at, band |-> ClampBand(band, 3), kind |-> "svg"]

(* Turning shows only on an asymmetric shape, which this forgets. *)
OddBaseBug(attr, d) == Figure(Shapes[d.shape], Counts[d.count], 0, d.fill)

OddBase(attr, d) ==
    Figure(IF attr = 4 THEN Asymmetric[d.asym] ELSE Shapes[d.shape], Counts[d.count], 0, d.fill)

(* Four that share one attribute, made distinct by another, and one that   *)
(* breaks it.                                                              *)
OddOneOut(band, d) ==
    LET attr == ClampBand(band, 4)
        base == OddBase(attr, d)
        four == [k \in 1..4 |-> IF attr = 3 THEN [base EXCEPT !.shape = Shapes[k]]
                                ELSE [base EXCEPT !.count = Counts[k]]]
        odd  == CASE attr = 1 -> [base EXCEPT !.shape = Shapes[d.other], !.count = Counts[d.decoy]]
                  [] attr = 2 -> [base EXCEPT !.filled = ~@, !.count = Counts[d.decoy]]
                  [] attr = 3 -> [base EXCEPT !.count = Counts[d.other], !.shape = Shapes[d.decoy]]
                  [] attr = 4 -> [base EXCEPT !.turn = Orientations[d.turn], !.count = Counts[d.decoy]]
    IN  [seen |-> <<>>, options |-> Assemble(odd, four, d.at), key |-> d.at, band |-> attr, kind |-> ""]

EngineOf == [A1 |-> "series", A3 |-> "series", A2 |-> "matrix", A4 |-> "odd"]

Build(type, band, d) ==
    CASE EngineOf[type] = "series" -> Series(band, d)
      [] EngineOf[type] = "matrix" -> Matrix(band, d)
      [] EngineOf[type] = "odd"    -> OddOneOut(band, d)

-----------------------------------------------------------------------------
(* Generate: a batch from one stream, or nothing at all.                   *)

OptionIds == <<"a", "b", "c", "d", "e">>

GeneratedId(req, puzzle, i) ==
    <<"gen", req.type, puzzle.band, req.seed, i>>

GeneratedItem(req, puzzle, i) ==
    [id |-> GeneratedId(req, puzzle, i), source |-> "rulegen", origin |-> "generated", redist |-> "yes",
     type |-> req.type, band |-> puzzle.band, format |-> "multiple-choice",
     stimulus |-> << [text |-> EngineOf[req.type], kind |-> "", ref |-> NoMedia] >>
                    \o (IF puzzle.kind = "" THEN <<>>
                        ELSE << [text |-> "", kind |-> puzzle.kind, ref |-> FigureUri(puzzle.seen)] >>),
     options  |-> [k \in DOMAIN puzzle.options |->
                      [id |-> OptionIds[k], text |-> "", kind |-> "svg",
                       ref |-> FigureUri(<<puzzle.options[k]>>)]],
     key      |-> [BlankKey EXCEPT !.option = OptionIds[puzzle.key]]]

Generable(req) == req.count \in 1..MaxCount /\ req.difficulty >= 1 /\ req.type \in DOMAIN EngineOf

Generated(req, stream) ==
    [i \in 1..req.count |-> GeneratedItem(req, Build(req.type, req.difficulty, stream[i]), i)]

-----------------------------------------------------------------------------
(* A solver that knows only what a puzzle shows: the options it would      *)
(* accept.                                                                 *)

Attributes == {"shape", "count", "turn", "filled"}

(* The one that differs from all the others where they agree.              *)
Odd(opts, k) ==
    \E a \in Attributes : \A l, m \in DOMAIN opts \ {k} :
        opts[l][a] = opts[m][a] /\ opts[k][a] # opts[l][a]

(* The one that makes the same step the figures before it make.            *)
Continues(seen, fig) ==
    LET next == Append(seen, fig)
        step(f, g) == <<f.shape = g.shape, f.filled = g.filled, g.count - f.count, (g.turn - f.turn) % 360>>
    IN  \A k \in 2..3 : step(next[k], next[k + 1]) = step(next[1], next[2])

(* The one with which each attribute follows the row, the column or the    *)
(* checkerboard.                                                           *)
Completes(seen, fig) ==
    LET cells == Append(seen, fig)
        row(k) == (k - 1) \div 3
        column(k) == (k - 1) % 3
        follows(a, line(_)) == \A k, l \in 1..9 : line(k) = line(l) => cells[k][a] = cells[l][a]
    IN  \A a \in Attributes : follows(a, row) \/ follows(a, column) \/ follows(a, LAMBDA k : k % 2)

Accepted(puzzle) ==
    LET opts == [k \in DOMAIN puzzle.options |-> Looks(puzzle.options[k])]
        seen == [k \in DOMAIN puzzle.seen |-> Looks(puzzle.seen[k])]
    IN  {k \in DOMAIN opts : CASE puzzle.kind = ""     -> Odd(opts, k)
                               [] puzzle.kind = "svg"  -> Continues(seen, opts[k])
                               [] puzzle.kind = "grid" -> Completes(seen, opts[k])}

(* Every draw an engine can make, up to the order of the wrong options and *)
(* the place of the right one.                                             *)
Wrongs(n) == {w \in [1..4 -> 1..n] : w[1] < w[2] /\ w[2] < w[3] /\ w[3] < w[4]}

MatrixDraws ==
    [shape : 1..4, fill : BOOLEAN, wrong : Wrongs(7), at : {1},
     rows : {r \in [1..3 -> 1..4] : r[1] # r[2] /\ r[1] # r[3] /\ r[2] # r[3]}]

SeriesDraws(band) ==
    [shape : 1..4, asym : 1..2, fill : BOOLEAN, wrong : Wrongs(IF band >= 2 THEN 10 ELSE 7), at : {1}]

OddDraws(band) ==
    {d \in [shape : 1..4, asym : 1..2, fill : BOOLEAN, count : 1..4, other : 1..4, decoy : 1..4, turn : 2..4, at : {1}] :
        d.other # (IF ClampBand(band, 4) = 3 THEN d.count ELSE d.shape)}

Draws(type, band) ==
    CASE EngineOf[type] = "matrix" -> MatrixDraws
      [] EngineOf[type] = "series" -> SeriesDraws(band)
      [] EngineOf[type] = "odd"    -> OddDraws(band)

HasOneAnswer(puzzle) ==
    /\ Accepted(puzzle) = {puzzle.key}
    /\ \A k, l \in DOMAIN puzzle.options :
            Looks(puzzle.options[k]) = Looks(puzzle.options[l]) => k = l

EveryPuzzleHasOneAnswer ==
    \A type \in {"A1", "A2", "A4"}, band \in 1..4 : \A d \in Draws(type, band) :
        HasOneAnswer(Build(type, band, d))
=============================================================================
