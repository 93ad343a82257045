---------------------------- MODULE CCPPrograms ----------------------------
(***************************************************************************)
(* Families of small functions on which TLC runs the propagation.  Each is *)
(* a control-flow skeleton with holes, filled in every way.                *)
(***************************************************************************)
EXTENDS Integers, Sequences, SequencesExt

I(op, args) == [op |-> op, args |-> args, labels |-> << >>, lits |-> << >>]
Phi(args, labels) == [I("phi", args) EXCEPT !.labels = labels]
Br(label) == [I("br", << >>) EXCEPT !.labels = <<label>>]
BrCond(c, t, f) == [I("brcond", <<c>>) EXCEPT !.labels = <<t, f>>]
Switch(s, labels, lits) == [I("switch", <<s>>) EXCEPT !.labels = labels, !.lits = lits]
Ret == I("return", << >>)

Block(label, phis, others) == [label |-> label, phis |-> phis, others |-> others]

First(pairs) == [k \in DOMAIN pairs |-> pairs[k][1]]

\* The program record for a list of blocks, the entry first, and the ids of its
\* 64-bit values; instructions are pairs <<id, instruction>>.
WideProgram(bs, wide) ==
  LET all == FlattenSeq([k \in DOMAIN bs |->
               <<<<bs[k].label, I("label", << >>)>>>> \o bs[k].phis \o bs[k].others])
      named(l) == CHOOSE k \in DOMAIN bs : bs[k].label = l
      labels == {bs[k].label : k \in DOMAIN bs}
      ids == ToSet(First(all))
      home(i) == CHOOSE l \in labels :
                   i = l \/ i \in ToSet(First(bs[named(l)].phis \o bs[named(l)].others))
  IN  [blocks  |-> labels,
       entry   |-> bs[1].label,
       inst    |-> [i \in ids |-> all[CHOOSE k \in DOMAIN all : all[k][1] = i][2]],
       blockOf |-> [i \in ids |-> home(i)],
       phis    |-> [l \in labels |-> First(bs[named(l)].phis)],
       rest    |-> [l \in labels |-> <<l>> \o First(bs[named(l)].others)],
       order   |-> First(all),
       params  |-> {"P"},
       imports |-> {"glsl"},
       wide    |-> wide]

MCConsts == {"true", "false", "null", "wide"}

Program(bs) == WideProgram(bs, {"wide"})

\* A selection whose arms feed a phi that selects again.
Diamond(c, x, y, w) ==
  Program(<<
    Block("E", << >>, <<<<"e.br", BrCond(c, "L", "R")>>>>),
    Block("L", << >>, <<<<"x", x>>, <<"l.br", Br("M")>>>>),
    Block("R", << >>, <<<<"y", y>>, <<"st", I("effect", <<"y">>)>>, <<"r.br", Br("M")>>>>),
    Block("M", <<<<"z", Phi(<<"x", "y">>, <<"L", "R">>)>>>>,
               <<<<"w", w>>, <<"m.br", BrCond("w", "T", "X")>>>>),
    Block("T", << >>, <<<<"t.br", Br("X")>>>>),
    Block("X", <<<<"v", Phi(<<"z", "w">>, <<"M", "T">>)>>>>, <<<<"x.ret", Ret>>>>)>>)

Diamonds ==
  {Diamond(c, x, y, w) :
     c \in {"true", "false", "null", "P"},
     x \in {I("copy", <<"true">>), I("not", <<"false">>), I("copy", <<"P">>)},
     y \in {I("copy", <<"false">>), I("copy", <<"null">>), I("or", <<"P", "true">>)},
     w \in {I("and", <<"z", "P">>), I("select", <<"z", "true", "null">>),
            I("min32", <<"glsl", "z", "true">>), I("opaque", <<"z">>)}}

\* A loop with two rotating phis and a conditional assignment in its body.
Loop(a, b, c, d, n) ==
  Program(<<
    Block("E", << >>, <<<<"e.br", Br("H")>>>>),
    Block("H", <<<<"i", Phi(<<a, "n">>, <<"E", "K">>)>>,
                 <<"j", Phi(<<b, "i">>, <<"E", "K">>)>>>>,
               <<<<"c", c>>, <<"h.br", BrCond("c", "B", "X")>>>>),
    Block("B", << >>, <<<<"d", d>>, <<"b.br", BrCond("d", "T", "K")>>>>),
    Block("T", << >>, <<<<"u", n>>, <<"t.br", Br("K")>>>>),
    Block("K", <<<<"n", Phi(<<"i", "u">>, <<"B", "T">>)>>>>, <<<<"k.br", Br("H")>>>>),
    Block("X", << >>, <<<<"x.ret", Ret>>>>)>>)

Loops ==
  {Loop(a, b, c, d, n) :
     a \in {"true", "false", "P"},
     b \in {"true", "false"},
     c \in {I("opaque", << >>), I("or", <<"i", "j">>)},
     d \in {I("not", <<"i">>), I("and", <<"i", "j">>), I("copy", <<"j">>),
            I("select", <<"j", "i", "false">>)},
     n \in {I("copy", <<"j">>), I("or", <<"i", "P">>), I("not", <<"j">>),
            I("and", <<"j", "false">>)}}

\* A switch, with a case shared by two labels, inside a loop on one block.
SwitchLoop(a, m, m0, t, lits, sel, wide) ==
  WideProgram(<<
     Block("E", << >>, <<<<"e.br", Br("S")>>>>),
     Block("S", <<<<"s", Phi(<<a, "q">>, <<"E", "M">>)>>, <<"r", Phi(<<m0, "r">>, <<"E", "M">>)>>>>,
                <<<<"s.br", Switch("s", <<"D", "A", t>>, lits)>>>>),
     Block("A", << >>, <<<<"a.br", Br("M")>>>>),
     Block("D", << >>, <<<<"d.br", Switch(sel, <<"M">>, << >>)>>>>),
     Block("M", <<<<"q", Phi(<<a, m>>, <<"A", "D">>)>>>>,
                <<<<"o", I("opaque", << >>)>>, <<"m.br", BrCond("o", "S", "X")>>>>),
     Block("X", << >>, <<<<"x.ret", Ret>>>>)>>, wide)

\* Of 32 bits, and of 64 bits on a value that is not known.
Switches ==
  {SwitchLoop(a, m, m0, t, <<1, 0>>, sel, {"wide"}) :
     a \in {"true", "null", "P"}, m \in {"s", "r"}, m0 \in {"true", "P"}, t \in {"A", "D"},
     sel \in {"s", "true"}}
  \cup
  {SwitchLoop("P", m, "wide", t, lits, "s", {"wide", "P", "q", "r", "s"}) :
     m \in {"s", "r"}, t \in {"A", "D"}, lits \in {<<1, 2>>, <<3, 0>>}}

\* A switch on a 64-bit value that may be known, and a branch on where it went.
WideSwitch(c, x, y, lit) ==
  WideProgram(<<
    Block("E", << >>, <<<<"e.br", BrCond(c, "L", "R")>>>>),
    Block("L", << >>, <<<<"x", x>>, <<"l.br", Br("M")>>>>),
    Block("R", << >>, <<<<"y", y>>, <<"r.br", Br("M")>>>>),
    Block("M", <<<<"z", Phi(<<"x", "y">>, <<"L", "R">>)>>>>,
               <<<<"m.br", Switch("z", <<"D", "A">>, <<lit>>)>>>>),
    Block("A", << >>, <<<<"a.br", Br("X")>>>>),
    Block("D", << >>, <<<<"d.br", Br("X")>>>>),
    Block("X", <<<<"u", Phi(<<"true", "false">>, <<"A", "D">>)>>>>,
               <<<<"x.br", BrCond("u", "T", "F")>>>>),
    Block("T", << >>, <<<<"t.ret", Ret>>>>),
    Block("F", << >>, <<<<"f.ret", Ret>>>>)>>, {"wide", "x", "y", "z"})

WideSwitches(lits) ==
  {WideSwitch(c, x, y, lit) :
     c \in {"P", "true"}, lit \in lits,
     x \in {I("copy", <<"wide">>), I("copy", <<"true">>), I("opaque", <<"wide">>)},
     y \in {I("copy", <<"wide">>), I("copy", <<"true">>), I("copy", <<"null">>)}}

\* A function with the sine of a constant in 16-bit floating point, then a switch
\* on a 64-bit constant, one literal of which has the same first word.
HalfSineWideSwitch ==
  WideProgram(<<
    Block("E", << >>, <<<<"e.br", BrCond("P", "L", "M")>>>>),
    Block("L", << >>, <<<<"x", I("sin16", <<"glsl", "true">>)>>, <<"l.br", Br("M")>>>>),
    Block("M", <<<<"z", Phi(<<"x", "false">>, <<"L", "E">>)>>>>,
               <<<<"y", I("copy", <<"wide">>)>>,
                 <<"m.br", Switch("y", <<"D", "A">>, <<1>>)>>>>),
    Block("A", << >>, <<<<"a.br", Br("X")>>>>),
    Block("D", << >>, <<<<"d.br", Br("X")>>>>),
    Block("X", <<<<"u", Phi(<<"false", "true">>, <<"A", "D">>)>>>>,
               <<<<"w", I("and", <<"z", "u">>)>>, <<"x.br", BrCond("w", "T", "F")>>>>),
    Block("T", << >>, <<<<"t.ret", Ret>>>>),
    Block("F", << >>, <<<<"f.ret", Ret>>>>)>>, {"wide", "y"})
=============================================================================
