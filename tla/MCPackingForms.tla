---------------------------- MODULE MCPackingForms ----------------------------
(* One case, found in several shapes, and one or two sessions.               *)
EXTENDS PackingForms
R(l, lot, s, n, b) == [line |-> l, lot |-> lot, src |-> s, qty |-> n, box |-> b]
L(name, n) == [name |-> name, need |-> n]
Shape(lines0, lots, rows0, held0, free0) ==
  [lines |-> lines0, lot |-> lots, product |-> [x |-> "p", y |-> "q"], rows |-> rows0,
   held |-> held0, free |-> free0]
Does(shape, products, names, on) ==
  shape @@ [products |-> products, names |-> names, on |-> on, others |-> FALSE, maxRow |-> Len(shape.rows) + 2]
Brief(w) == [w EXCEPT !.maxRow = @ - 1]
WithOthers(w) == [w EXCEPT !.others = TRUE, !.maxRow = @ + 1]
Split == Shape(<<L("p", 2)>>, <<"x", "x">>, <<R(1, "x", 1, 1, 1), R(1, "x", 1, 1, 0)>>, <<2, 0>>, <<0, 1>>)
Whole == Shape(<<L("p", 2)>>, <<"x", "x">>, <<R(1, "x", 1, 2, 0)>>, <<2, 0>>, <<0, 1>>)
Short == Shape(<<L("p", 3)>>, <<"x", "x">>, <<R(1, "x", 1, 1, 1), R(1, "x", 2, 1, 0)>>, <<1, 1>>, <<1, 1>>)
Twins == Shape(<<L("p", 2), L("pp", 1)>>, <<"x", "x">>, <<R(1, "x", 1, 1, 0), R(2, "x", 1, 1, 1)>>, <<2, 0>>, <<1, 0>>)
Legacy == Shape(<<L("p", 2)>>, <<"x", "y">>, <<R(1, "x", 0, 1, 1), R(1, "x", 0, 1, 0)>>, <<2, 0>>, <<0, 1>>)
Mixed == Shape(<<L("p", 2), L("q", 1)>>, <<"x", "y">>, <<R(1, "x", 1, 1, 0), R(2, "y", 2, 1, 1)>>, <<1, 1>>, <<1, 1>>)
Work ==
  { WithOthers(Does(Short, {"p"}, {"p"}, <<{"page"}>>)),
    Does(Short, {"p"}, {"p"}, <<{"page", "delete"}, {"page"}>>),
    Does(Short, {"p"}, {"p"}, <<{"page"}, {"draft"}>>),
    Does(Short, {"p"}, {"p"}, <<{"page", "pack"}>>),
    Does(Mixed, {"p", "q"}, {"p"}, <<{"page"}, {"dialog"}>>),
    Does(Mixed, {"p"}, {"p"}, <<{"dialog"}, {"draft"}>>),
    Does(Twins, {"p"}, {"p"}, <<{"page"}, {"dialog"}>>),
    Does(Legacy, {"p"}, {"p"}, <<{"dialog"}>>),
    Does(Split, {"p"}, {"p"}, <<{"dialog"}, {"dialog"}>>),
    Brief(Does(Whole, {"p"}, {"p"}, <<{"pack"}, {"dialog"}>>)),
    Does(Whole, {"p"}, {"p"}, <<{"pack"}, {"pack"}>>),
    Does(Whole, {"p"}, {"p"}, <<{"pack", "clone"}>>) }
=============================================================================
