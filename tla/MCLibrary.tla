----------------------------- MODULE MCLibrary -----------------------------
(***************************************************************************)
(* Integers, sequences and the text of objects on small instances.  The    *)
(* three machines share nothing, so each behaviour runs one of them and    *)
(* leaves the others as they start.                                        *)
(***************************************************************************)
EXTENDS Text

CONSTANTS
    Operands, MaxInteger,
    Symbols, Chars, Shapes, MaxHeld, MaxElements

VARIABLES
    machine,
    acc, exact, failed, mustFail,
    store, expected

integerVars == <<acc, exact, failed, mustFail>>
sequenceVars == <<store, expected>>

A == INSTANCE Arithmetic
V == INSTANCE Vectors

MCOperands == {-17, -8, -7, -1, 0, 1, 7, 8, 33}
MCShapes == {<<>>, <<0, 2>>, <<1, 2>>, <<2, 2>>}

(* Objects to print, with whether their text ends in a delimiter.          *)
Sym(c) == Symbol(<<c>>)
Atoms == {ObjectOf(-12), ObjectOf(5), ObjectOf(205), Sym("A"), Symbol(<<"1", "+">>),
          Nil, Char(" "), Char("("), Char("x")}
Closed == {Str(<<"\"", "a", "\\">>), Str(<<>>),
           List(<<Sym("A"), ObjectOf(5)>>), Pair(Sym("A"), ObjectOf(5)),
           List(<<Nil, List(<<Char("\n")>>)>>),
           Array(<<2>>, <<Sym("A"), Str(<<"x">>)>>),
           Array(<<2, 2>>, <<Sym("A"), ObjectOf(-1), Nil, Sym("B")>>)}

Form(fmt, obj, means, closed) == [fmt |-> fmt, objs |-> <<obj>>, means |-> means, closed |-> closed]
Prefixed(fmt, name) ==
    Form(fmt \o <<"~", "S", "~", "%">>, Sym("A"), <<List(<<Symbol(<<name>>), Sym("A")>>)>>, FALSE)
MCForms ==
    {Form(<<"~", "S">>, v, <<v>>, v \in Closed) : v \in Atoms \cup Closed}
    \cup {Form(<<"~", "S", "~", "%">>, v, <<v>>, FALSE) : v \in Atoms}
    \cup {Form(<<"~", "&", "#", "x", "~", "X", "~", "5", "T">>, ObjectOf(5), <<ObjectOf(5)>>, FALSE),
          Form(<<"#", "b", "~", "2", "R", " ">>, ObjectOf(-5), <<ObjectOf(-5)>>, FALSE),
          Form(<<";", "~", "A", "~", "%">>, Str(<<"(", "\"">>), <<>>, FALSE),
          Form(<<"1", ".", "5", "e", "-", "1", " ">>, Nil,
               << <<"float", <<"1", ".", "5", "e", "-", "1">> >> >>, FALSE),
          Form(<<"#", "0", "A", " ", "~", "S", "~", "&">>, Sym("A"),
               <<Array(<<>>, <<Sym("A")>>)>>, FALSE),
          Prefixed(<<"'">>, "QUOTE"), Prefixed(<<Backquote>>, "QUASIQUOTE"),
          Prefixed(<<",">>, "UNQUOTE"), Prefixed(<<",", "@">>, "UNQUOTE-SPLICING"),
          Prefixed(<<"#", "'">>, "FUNCTION")}

LibraryInit == machine \in {"integers", "sequences", "text"} /\ A!Init /\ V!Init /\ Init

LibraryNext ==
    \/ machine = "integers" /\ A!Next /\ UNCHANGED <<machine, sequenceVars, vars>>
    \/ machine = "sequences" /\ V!Next /\ UNCHANGED <<machine, integerVars, vars>>
    \/ machine = "text" /\ Next /\ UNCHANGED <<machine, integerVars, sequenceVars>>

LibrarySpec == LibraryInit /\ [][LibraryNext]_<<machine, integerVars, sequenceVars, vars>>

(* Every integer result is exact, in its one representation (runtime.c).   *)
IntegersExact == A!IntegersExact

(* Lists, strings and arrays read as written, and share nothing that was   *)
(* not shared (runtime.c).                                                 *)
SequencesExact == V!SequencesExact
=============================================================================
