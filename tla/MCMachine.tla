------------------------------ MODULE MCMachine ------------------------------
(***************************************************************************)
(* Programs for Machine.  Each is a shape of code the compiler treats in   *)
(* its own way; numbers above 9 are bignums and live in the heap.          *)
(***************************************************************************)
EXTENDS Machine

LOCAL N(n) == Num(n)
LOCAL V(s) == <<"var", s>>
LOCAL Q(v) == <<"quote", v>>
LOCAL F(s, fs) == <<"call", s, fs>>
LOCAL Ps(fix) == [fix |-> fix, rest |-> "none"]
LOCAL PsRest(fix, r) == [fix |-> fix, rest |-> r]
LOCAL Lam(fix, body) == <<"lambda", Ps(fix), body>>
LOCAL Let(fix, inits, body) == <<"macro", <<"app", Lam(fix, body), inits>>>>
LOCAL Setq(s, f) == <<"setq", s, f>>
LOCAL If(a, b, c) == <<"if", a, b, c>>
LOCAL Def(s, fix, body) == [name |-> s, ps |-> Ps(fix), body |-> body]
LOCAL DefRest(s, fix, r, body) == [name |-> s, ps |-> PsRest(fix, r), body |-> body]
LOCAL Prog(defs, setup, args) == [defs |-> defs, setup |-> setup, args |-> args]
LOCAL List(fs) == F("list", fs)
LOCAL Uq(f) == <<"uq", f>>
LOCAL A(v) == <<"atom", v>>
LOCAL Tag(s) == <<"tag", s>>

(***************************************************************************)
(* Values: arithmetic, bignums, conses, errors of primitives.              *)
(***************************************************************************)
ValuePrograms == <<
  Prog(<<Def("f", <<"x", "y">>,
         <<List(<<F("+", <<F("*", <<V("x"), V("y")>>), F("-", <<V("x")>>), N(12)>>),
                  F("cons", <<F("cons", <<V("x"), N(20)>>), F("cons", <<V("y"), N(2)>>)>>),
                  F("+", <<>>), F("<", <<V("x"), V("y")>>), F("null", <<V("x")>>)>>)>>)>>,
       <<>>, <<N(5), N(7)>>),
  Prog(<<Def("f", <<"x", "y">>,
         <<F("note", <<V("y")>>),
           F("cons", <<F("+", <<V("x"), N(30)>>), F("car", <<V("y")>>)>>)>>)>>,
       <<>>, <<N(15), N(7)>>),
  Prog(<<Def("f", <<"x">>,
         <<List(<<V("x"), V("nowhere"), F("note", <<V("x")>>)>>)>>)>>, <<>>, <<N(15)>>),
  Prog(<<Def("f", <<"x", "y">>,
         <<<<"quasiquote", <<"list", <<A(Sym("a")), Uq(V("x")),
              <<"splice", List(<<V("x"), N(2)>>)>>,
              <<"list", <<A(Sym("b")), Uq(F("car", <<V("y")>>))>>, A(Nil)>> >>,
              Uq(F("cdr", <<V("y")>>))>>>>>>)>>, <<>>, <<N(15), ListOf(<<N(11), N(3)>>)>>),
  Prog(<<Def("f", <<"x">>,
         <<<<"quasiquote", <<"list", <<A(N(1)),
             <<"qq", <<"list", <<A(N(2)), <<"uq", <<"list", <<A(Sym("g")), <<"uq", V("x")>>>>, A(Nil)>>>>>>,
                       A(Nil)>>>>>>, A(Nil)>>>>>>)>>, <<>>, <<N(15)>>)
>>

(***************************************************************************)
(* Calls: fixed entries, lists, rest parameters, functions the compiler    *)
(* refuses, tail calls, wrong numbers of arguments.                        *)
(***************************************************************************)
CallPrograms == <<
  Prog(<<Def("f", <<"x">>, <<List(<<F("g", <<V("x"), N(20)>>), F("h", <<V("x"), N(1), V("x")>>),
                                    F("u", <<V("x")>>)>>)>>),
         Def("g", <<"a", "b">>, <<F("+", <<V("a"), V("b")>>)>>),
         DefRest("h", <<"a">>, "r", <<F("cons", <<V("r"), V("a")>>)>>),
         Def("u", <<"a">>, <<<<"defglobal", "z", V("a")>>, F("+", <<V("z"), V("z")>>)>>)>>,
       <<>>, <<N(15)>>),
  Prog(<<Def("f", <<"n", "x">>,
             <<If(F("<", <<V("n"), N(1)>>), F("h", <<V("x"), V("n")>>),
                  F("f", <<F("-", <<V("n"), N(1)>>), F("+", <<V("x"), N(10)>>)>>))>>),
         DefRest("h", <<>>, "r", <<F("note", <<V("r")>>)>>)>>, <<>>, <<N(2), N(3)>>),
  Prog(<<Def("f", <<"x">>, <<List(<<V("x"), F("g", <<V("x"), V("x")>>)>>)>>),
         Def("g", <<"a">>, <<V("a")>>)>>, <<>>, <<N(15)>>),
  Prog(<<Def("f", <<"x">>, <<F("funcall", <<<<"function", "g">>, V("x")>>)>>),
         Def("g", <<"a", "b">>, <<V("a")>>)>>, <<>>, <<N(15)>>),
  Prog(<<Def("f", <<"x">>, <<V("x")>>)>>, <<>>, <<N(15), N(1)>>),
  Prog(<<DefRest("f", <<"a", "b">>, "r", <<V("r")>>)>>, <<>>, <<N(15)>>),
  Prog(<<Def("f", <<"a", "b", "c", "d">>,
             <<F("%%apply", <<<<"function", "k">>, List(<<V("d"), V("c"), V("b"), V("a")>>)>>)>>),
         Def("k", <<"a", "b", "c", "d">>, <<F("cons", <<V("a"), V("d")>>)>>)>>,
       <<>>, <<N(11), N(12), N(13), N(14)>>),
  Prog(<<Def("f", <<"x">>, <<List(<<V("x"), F("missing", <<V("x")>>)>>)>>)>>, <<>>, <<N(15)>>),
  Prog(<<Def("f", <<"x">>, <<F("funcall", <<V("x"), N(1)>>)>>)>>, <<>>, <<N(15)>>),
  Prog(<<Def("f", <<"x">>, <<<<"app", <<"lambda", PsRest(<<"a">>, "r"), <<F("cons", <<V("r"), V("a")>>)>>>>,
                               <<V("x"), N(20)>>>>>>)>>, <<>>, <<N(15)>>)
>>

(***************************************************************************)
(* Variables: let, closures with and without shared boxes, flet and        *)
(* labels, global, constant and dynamic variables.                         *)
(***************************************************************************)
VariablePrograms == <<
  Prog(<<Def("f", <<"x">>,
     <<Let(<<"n", "k">>, <<N(0), N(20)>>,
        <<Let(<<"inc">>, <<Lam(<<"d">>, <<Setq("n", F("+", <<V("n"), V("d"), V("x")>>))>>)>>,
           <<F("funcall", <<V("inc"), V("k")>>), Setq("n", F("+", <<V("n"), N(1)>>)),
             F("funcall", <<V("inc"), V("n")>>), List(<<V("n"), V("k")>>)>>)>>)>>)>>, <<>>, <<N(15)>>),
  Prog(<<Def("f", <<"x">>,
     <<Let(<<"a">>, <<F("cons", <<V("x"), V("x")>>)>>,
        <<Setq("a", F("cons", <<F("car", <<V("a")>>), V("a")>>)), F("g", <<V("a")>>)>>)>>),
         Def("g", <<"p">>, <<F("cdr", <<V("p")>>)>>)>>, <<>>, <<N(15)>>),
  Prog(<<Def("f", <<"x">>,
     <<<<"flet", <<<<"g", Ps(<<"a">>), <<F("+", <<V("a"), V("x")>>)>>>>,
                   <<"g2", Ps(<<>>), <<V("x")>>>>>>,
         <<F("cons", <<F("g", <<F("g", <<N(1)>>)>>), F("g2", <<>>)>>)>>>>>>),
         Def("g", <<"a">>, <<V("a")>>)>>, <<>>, <<N(15)>>),
  Prog(<<Def("f", <<"x">>,
     <<<<"labels", <<<<"ev", Ps(<<"n">>), <<If(F("<", <<V("n"), N(1)>>), Q(T),
                                              F("od", <<F("-", <<V("n"), N(1)>>)>>))>>>>,
                    <<"od", Ps(<<"n">>), <<If(F("<", <<V("n"), N(1)>>), <<"nil">>,
                                              F("ev", <<F("-", <<V("n"), N(1)>>)>>))>>>>>>,
         <<F("cons", <<F("ev", <<V("x")>>), F("ev", <<N(1)>>)>>)>>>>>>)>>, <<>>, <<N(2)>>),
  Prog(<<Def("f", <<"x">>,
     <<<<"defdynamic", "d", F("cons", <<V("x"), V("x")>>)>>, Setq("glob", F("car", <<<<"dynamic", "d">>>>)),
       F("cons", <<F("cons", <<V("x"), V("x")>>), V("glob")>>)>>)>>,
     <<<<"defglobal", "glob", N(1)>>>>, <<N(15)>>),
  Prog(<<Def("f", <<"x">>, <<Setq("k", V("x"))>>)>>, <<<<"defconstant", "k", N(1)>>>>, <<N(15)>>)
>>

(***************************************************************************)
(* Transfers: block, catch, unwind-protect, tagbody, and what a condition  *)
(* does on its way to the top level.                                       *)
(***************************************************************************)
TransferPrograms == <<
  Prog(<<Def("f", <<"x">>,
     <<F("cons", <<<<"catch", Q(Sym("a")),
                     <<<<"unwind-protect", F("g", <<V("x")>>), <<F("note", <<F("cons", <<V("x"), N(1)>>)>>)>>>>>>>>,
                   <<"catch", Q(Sym("a")), <<V("x")>>>>>>)>>),
         Def("g", <<"y">>, <<<<"throw", Q(Sym("a")), F("cons", <<V("y"), N(20)>>)>>>>)>>, <<>>, <<N(15)>>),
  Prog(<<Def("f", <<"x">>,
     <<<<"block", "b", <<F("cons", <<V("x"), F("funcall", <<Lam(<<"y">>, <<<<"return-from", "b", V("y")>>>>), V("x")>>)>>)>>>>>>)>>,
       <<>>, <<N(15)>>),
  Prog(<<Def("f", <<"x">>,
     <<<<"block", "b", <<<<"unwind-protect", <<"return-from", "b", V("x")>>,
                           <<<<"return-from", "b", N(2)>>>>>>>>>>>>)>>, <<>>, <<N(15)>>),
  Prog(<<Def("f", <<"x">>,
     <<<<"unwind-protect", F("note", <<V("x")>>), <<<<"throw", Q(Sym("c")), V("x")>>>>>>>>)>>, <<>>, <<N(15)>>),
  Prog(<<Def("f", <<"x">>,
     <<Let(<<"i">>, <<N(0)>>,
       <<<<"tagbody", <<Tag("loop"), Setq("i", F("+", <<V("i"), N(1)>>)), F("note", <<V("i")>>),
            <<"block", "b", <<If(F("<", <<V("i"), N(2)>>), <<"go", "loop">>, N(0))>>>>,
            F("note", <<V("x")>>)>>>>, V("i")>>)>>)>>, <<>>, <<N(15)>>),
  Prog(<<Def("f", <<"x">>,
     <<<<"tagbody", <<Tag("a"), If(V("x"), <<"go", "out">>, N(0)), F("note", <<V("x")>>), Tag("out")>>>>,
       V("x")>>)>>, <<>>, <<N(15)>>),
  Prog(<<Def("f", <<"x">>,
     <<Let(<<"i">>, <<N(0)>>,
       <<<<"tagbody", <<Tag("a"), Tag("top"), Setq("i", F("+", <<V("i"), N(1)>>)),
            F("funcall", <<Lam(<<>>, <<If(F("<", <<V("i"), N(3)>>), <<"go", "top">>, N(0))>>)>>)>>>>, V("i")>>)>>)>>, <<>>, <<N(15)>>),
  Prog(<<Def("f", <<"x">>,
     <<<<"tagbody", <<Tag("top"), F("funcall", <<Lam(<<>>, <<<<"go", "away">>>>)>>)>>>>>>)>>, <<>>, <<N(15)>>),
  Prog(<<Def("f", <<"x">>,
     <<<<"catch", F("car", <<V("x")>>), <<<<"throw", Q(Sym("no")), N(1)>>>>>>>>)>>, <<>>, <<N(15)>>),
  Prog(<<Def("f", <<"x">>,
     <<<<"catch", V("x"), <<<<"throw", V("x"), F("car", <<V("x")>>)>>>>>>>>)>>, <<>>, <<N(15)>>)
>>

(***************************************************************************)
(* Forms inside others: the cells of a form must not be those of one that  *)
(* is open around it.  Hole(k, f) is a form with f in it.                  *)
(***************************************************************************)
Hole(k, f) ==
    CASE k = 1  -> List(<<V("x"), f>>)
      [] k = 2  -> F("g", <<f, V("x")>>)
      [] k = 3  -> F("cons", <<f, N(11)>>)
      [] k = 4  -> F("cons", <<F("cons", <<V("x"), N(1)>>), f>>)
      [] k = 5  -> F("null", <<f>>)
      [] k = 6  -> Let(<<"a", "b">>, <<f, F("cons", <<V("x"), V("x")>>)>>, <<F("cons", <<V("a"), V("b")>>)>>)
      [] k = 7  -> Let(<<"a">>, <<F("cons", <<V("x"), V("x")>>)>>, <<F("cons", <<f, V("a")>>)>>)
      [] k = 8  -> If(f, F("cons", <<f, N(11)>>), V("x"))
      [] k = 9  -> <<"block", "b", <<F("cons", <<<<"return-from", "b", f>>, N(1)>>)>>>>
      [] k = 10 -> <<"catch", Q(Sym("c")), <<F("note", <<V("x")>>), F("cons", <<V("x"), <<"throw", Q(Sym("c")), f>>>>)>>>>
      [] k = 11 -> <<"catch", f, <<V("x")>>>>
      [] k = 12 -> <<"unwind-protect", f, <<F("note", <<V("x")>>)>>>>
      [] k = 13 -> <<"unwind-protect", F("cons", <<V("x"), V("x")>>), <<f>>>>
      [] k = 14 -> <<"quasiquote", <<"list", <<A(Sym("a")), Uq(V("x")), Uq(f)>>, A(Nil)>>>>
      [] k = 15 -> <<"flet", <<<<"h", Ps(<<"p">>), <<F("cons", <<V("p"), V("x")>>)>>>>>>, <<F("h", <<f>>)>>>>
      [] k = 16 -> <<"progn", <<<<"tagbody", <<f, If(V("x"), <<"go", "end">>, N(0)), f, Tag("end")>>>>, V("x")>>>>
      [] k = 17 -> F("funcall", <<Lam(<<"p">>, <<F("cons", <<V("p"), V("x")>>)>>), f>>)
      [] k = 18 -> <<"defdynamic", "d", f>>

Holes == 1..18
LOCAL PairsIn(S) ==
    SelectSeq([i \in 1..(18 * 18) |-> <<(i - 1) \div 18 + 1, ((i - 1) % 18) + 1>>], LAMBDA p : p \in S)
Filled(f) == Prog(<<Def("f", <<"x">>, f), Def("g", <<"a", "b">>, <<F("cons", <<V("b"), V("a")>>)>>)>>,
                  <<>>, <<N(15)>>)

\* Every pair of them, except a quasiquote in a quasiquote and an flet in an
\* flet, which the compiler gives the cells of the one around it.
NestedPrograms ==
    LET pairs == PairsIn((Holes \X Holes) \ {<<14, 14>>, <<15, 15>>})
    IN  [i \in 1..Len(pairs) |-> Filled(<<Hole(pairs[i][1], Hole(pairs[i][2], V("x")))>>)]

(***************************************************************************)
(* A go leaves a form that is open, before the tag or after it.            *)
(***************************************************************************)
\* The forms a go may leave: a catch, an unwind-protect and an flet around it
\* make the compiler give the function up.
Left == Holes \ {10, 12, 13, 15}
Leaving(k, c, tag, f) == Hole(k, If(c, <<"go", tag>>, f))

\* A go leaves the form and another one follows the tag, except where that
\* one links the cells the go has left linked (GoPrograms).
ForwardPrograms ==
    LET linked == ({1, 17} \X {1, 2, 10, 12, 15, 17}) \cup ({4} \X {3, 8, 10})
                    \cup ({7} \X {6, 7}) \cup {<<14, 14>>}
        pairs == PairsIn((Left \X Holes) \ linked)
    IN  [i \in 1..Len(pairs) |->
           Filled(<<<<"tagbody", <<Leaving(pairs[i][1], V("x"), "end", N(0)), Tag("end")>>>>,
                    Hole(pairs[i][2], V("x"))>>)]

\* A tag, a count up to 3 and a form that a go to the tag leaves.
Loop(k) == Let(<<"i">>, <<N(0)>>,
             <<<<"tagbody", <<Tag("top"), Setq("i", F("+", <<V("i"), N(1)>>)),
                              Leaving(k, F("<", <<V("i"), N(3)>>), "top", V("x"))>>>>, V("i")>>)

\* The forms that have linked none of their cells when the go leaves them.
BackwardPrograms ==
    LET ks == <<2, 3, 5, 6, 8, 9, 11, 18>>
    IN  [i \in 1..Len(ks) |-> Filled(<<Loop(ks[i])>>)]

\* The go leaves a let or a list of arguments with a cell on the list of
\* roots, and the next turn, or the next form, links that cell again.
GoPrograms == <<Filled(<<Loop(7)>>), Filled(<<Loop(1)>>),
                Filled(<<<<"tagbody", <<Leaving(1, V("x"), "end", N(0)), Tag("end")>>>>, Hole(1, V("x"))>>)>>

(***************************************************************************)
(* A let among the initial values of another one, after the first.         *)
(***************************************************************************)
LetPrograms == <<
  Prog(<<Def("f", <<"x">>,
     <<Let(<<"a", "b">>, <<V("x"), Let(<<"c">>, <<N(5)>>, <<V("c")>>)>>, <<V("a")>>)>>)>>, <<>>, <<N(15)>>)
>>

(***************************************************************************)
(* An flet that assigns a variable of the let around it.                   *)
(***************************************************************************)
FletPrograms == <<
  Prog(<<Def("f", <<"x">>,
     <<Let(<<"a">>, <<N(1)>>,
        <<<<"flet", <<<<"g", Ps(<<>>), <<Setq("a", V("x"))>>>>>>, <<F("g", <<>>)>>>>, V("a")>>)>>)>>,
       <<>>, <<N(15)>>)
>>

MCPrograms ==
    ValuePrograms \o CallPrograms \o VariablePrograms \o TransferPrograms
      \o NestedPrograms \o ForwardPrograms \o BackwardPrograms

=============================================================================
