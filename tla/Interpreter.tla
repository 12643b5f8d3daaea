----------------------------- MODULE Interpreter -----------------------------
(***************************************************************************)
(* The evaluator of eval.c.  A form is a tuple whose first field names     *)
(* what it is: <<"num", n>> and <<"nil">> stand for themselves,            *)
(* <<"var", s>> is a variable, <<"call", s, forms>> calls the function     *)
(* named s, <<"app", lambda, forms>> a lambda form in operator position    *)
(* (what let becomes), <<"macro", f>> is a macro call, given by its        *)
(* expansion f, and the others are the special forms.  Parameters are a    *)
(* record: the fixed ones and the one that takes the rest, or "none".      *)
(*                                                                         *)
(* Every evaluation takes and returns a store; its value may be a control  *)
(* transfer, which everything on the way out hands on.                     *)
(***************************************************************************)
EXTENDS Lisp

\* Continue with the value and the store of r, unless it is a transfer
\* (is_control_transfer).  The sets have one member: r is evaluated once.
Bind(r, k(_, _)) ==
    CHOOSE y \in {IF IsTransfer(x[1]) THEN x ELSE k(x[1], x[2]) : x \in {r}} : TRUE

\* Continue with the value of r, whatever it is.
Then(r, k(_, _)) == CHOOSE y \in {k(x[1], x[2]) : x \in {r}} : TRUE

RECURSIVE bind_params(_, _, _, _, _)
bind_params(fix, rest, args, e, st) ==
    IF fix = <<>>
    THEN IF rest = "none" THEN <<args = Nil, st>>
         ELSE <<TRUE, os_set_variable(rest, args, e, st)>>
    ELSE IF args = Nil THEN <<FALSE, st>>
    ELSE bind_params(Tail(fix), rest, args[3], e,
                     os_set_variable(Head(fix), args[2], e, st))

make_interpreted_function(ps, fs, e) == <<"clo", ps, fs, e>>

\* The template wrapped in a quasiquote or an unquote that stays.
qq_wrap(s, v) == ListOf(<<Sym(s), v>>)

RECURSIVE qq_append(_, _)
qq_append(list, tail) ==
    IF ~IsCons(list) THEN tail ELSE Cons(list[2], qq_append(list[3], tail))

RECURSIVE Eval(_, _, _)
RECURSIVE eval_args(_, _, _)
RECURSIVE eval_progn(_, _, _)
RECURSIVE apply_function(_, _, _, _)
RECURSIVE qq_expand(_, _, _, _)
RECURSIVE qq_items(_, _, _, _, _)
RECURSIVE eval_tagbody(_, _, _, _)
RECURSIVE DefineAll(_, _, _, _)

eval_args(fs, e, st) ==
    IF fs = <<>> THEN <<Nil, st>>
    ELSE Bind(Eval(Head(fs), e, st), LAMBDA h, s1 :
           Bind(eval_args(Tail(fs), e, s1), LAMBDA t, s2 : <<Cons(h, t), s2>>))

eval_progn(fs, e, st) ==
    IF fs = <<>> THEN <<Nil, st>>
    ELSE IF Len(fs) = 1 THEN Eval(fs[1], e, st)
    ELSE Bind(Eval(fs[1], e, st), LAMBDA v, s : eval_progn(Tail(fs), e, s))

\* The interpreted body fs of a function closed over env e.
apply_interpreted(ps, fs, args, e, st) ==
    Then(bind_params(ps.fix, ps.rest, args, NewEnv(st), os_make_frame(e, st)),
         LAMBDA ok, s : IF ok THEN eval_progn(fs, NewEnv(st), s)
                        ELSE <<os_signal_arity_error, s>>)

\* A compiled function called from interpreted code is taken at its
\* definition, which the compiler has to agree with.
apply_function(fn, args, e, st) ==
    CASE fn[1] = "clo" -> apply_interpreted(fn[2], fn[3], args, fn[4], st)
      [] fn[1] = "cmp" -> apply_interpreted(fn[3], fn[4], args, 1, st)
      [] fn = <<"nat", "funcall">> -> apply_function(cc_car(args), cc_cdr(args), e, st)
      [] fn = <<"nat", "%%apply">> -> apply_function(cc_car(args), cc_car(cc_cdr(args)), e, st)
      [] fn[1] = "nat" /\ fn[2] \notin {"funcall", "%%apply"} ->
           <<ApplyNative(fn[2], args), Effect(fn[2], args, st)>>
      [] OTHER -> <<os_signal_domain_error, st>>

\* The function is looked up before its arguments are evaluated.
eval_form(s, fs, e, st) ==
    IF os_get_function(s, e, st) = Nil THEN <<os_signal_undefined_function, st>>
    ELSE Bind(eval_args(fs, e, st), LAMBDA args, s1 :
           apply_function(os_get_function(s, e, st), args, e, s1))

eval_if(f, e, st) ==
    Bind(Eval(f[2], e, st), LAMBDA v, s : Eval(IF v # Nil THEN f[3] ELSE f[4], e, s))

eval_setq(s, f, e, st) ==
    IF os_is_constant(s, e, st) THEN <<os_signal_immutable_binding, st>>
    ELSE Bind(Eval(f, e, st), LAMBDA v, s1 : <<v, os_setq_variable(s, v, e, s1)>>)

eval_defvar(s, f, e, st) ==
    IF s \in DOMAIN st.envs[os_definition_env(e, st)].vars THEN <<Sym(s), st>>
    ELSE Bind(Eval(f, e, st), LAMBDA v, s1 :
           <<Sym(s), os_set_variable(s, v, os_definition_env(e, st), s1)>>)

eval_defglobal(s, f, e, st) ==
    Bind(Eval(f, e, st), LAMBDA v, s1 :
        <<Sym(s), os_set_variable(s, v, os_definition_env(e, st), s1)>>)

eval_defconstant(s, f, e, st) ==
    Bind(eval_defglobal(s, f, e, st), LAMBDA v, s1 :
        <<v, os_mark_constant(s, os_definition_env(e, st), s1)>>)

eval_defdynamic(s, f, e, st) ==
    Bind(Eval(f, e, st), LAMBDA v, s1 : <<Sym(s), os_set_dynamic(s, v, s1)>>)

\* defun, where the compiler refused the body.
eval_defun(s, ps, fs, e, st) ==
    <<Sym(s), os_set_function(s, make_interpreted_function(ps, fs, e),
                              os_definition_env(e, st), st)>>

eval_function(s, e, st) ==
    IF os_get_function(s, e, st) = Nil THEN <<os_signal_undefined_function, st>>
    ELSE <<os_get_function(s, e, st), st>>

\* The bindings bs, closed over e, become functions of the frame n.
DefineAll(bs, e, n, st) ==
    IF bs = <<>> THEN st
    ELSE DefineAll(Tail(bs), e, n,
           os_set_function(bs[1][1], make_interpreted_function(bs[1][2], bs[1][3], e),
                           n, st))

eval_flet(bs, fs, e, st) ==
    eval_progn(fs, NewEnv(st), DefineAll(bs, e, NewEnv(st), os_make_frame(e, st)))

eval_labels(bs, fs, e, st) ==
    eval_progn(fs, NewEnv(st), DefineAll(bs, NewEnv(st), NewEnv(st), os_make_frame(e, st)))

(***************************************************************************)
(* Quasiquote.  A template is <<"atom", v>>, <<"uq", x>>, <<"qq", t>> or   *)
(* <<"list", items, tail>>, where an item may also be <<"splice", x>>; x   *)
(* is a form where it is evaluated (depth 0) and a template deeper down.   *)
(* A transfer that an unquoted form yields is an element like any other.   *)
(***************************************************************************)
qq_expand(t, e, depth, st) ==
    CASE t[1] = "atom" -> <<t[2], st>>
      [] t[1] = "qq"   -> Then(qq_expand(t[2], e, depth + 1, st), LAMBDA v, s :
                            <<qq_wrap("quasiquote", v), s>>)
      [] t[1] = "uq" /\ depth = 0 -> Eval(t[2], e, st)
      [] t[1] \in {"uq", "splice"} /\ depth > 0 ->
           Then(qq_expand(t[2], e, depth - 1, st), LAMBDA v, s :
             <<qq_wrap(IF t[1] = "uq" THEN "unquote" ELSE "unquote-splicing", v), s>>)
      [] t[1] = "list" -> qq_items(t[2], t[3], e, depth, st)

qq_items(items, tail, e, depth, st) ==
    IF items = <<>> THEN qq_expand(tail, e, depth, st)
    ELSE IF items[1][1] = "splice" /\ depth = 0
    THEN Then(Eval(items[1][2], e, st), LAMBDA v, s :
           Then(qq_items(Tail(items), tail, e, depth, s), LAMBDA w, s2 :
             <<qq_append(v, w), s2>>))
    ELSE Then(qq_expand(items[1], e, depth, st), LAMBDA v, s :
           Then(qq_items(Tail(items), tail, e, depth, s), LAMBDA w, s2 :
             <<Cons(v, w), s2>>))

(***************************************************************************)
(* Non-local exits.  A block, like the top level, takes any transfer that  *)
(* carries its name; a catch only a throw to its tag.                      *)
(***************************************************************************)
Caught(r, name, saved) ==
    Then(r, LAMBDA v, s :
        <<IF IsTransfer(v) /\ v[3] = name THEN v[4] ELSE v,
          os_live_block_restore(saved, s)>>)

eval_block(name, fs, e, st) ==
    Caught(eval_progn(fs, e, os_live_block_push(name, st)), Sym(name), st.live)

eval_return_from(name, f, e, st) ==
    Bind(Eval(f, e, st), LAMBDA v, s :
        IF ~os_live_block_p(name, s) THEN <<os_signal_control_error, s>>
        ELSE <<Transfer("block", Sym(name), v), s>>)

eval_unwind_protect(f, fs, e, st) ==
    Then(Eval(f, e, st), LAMBDA v, s :
      Then(eval_progn(fs, e, s), LAMBDA c, s2 :
        IF ~IsTransfer(c) THEN <<v, s2>>
        ELSE IF IsTransfer(v) THEN <<os_signal_control_error, s2>>
        ELSE <<c, s2>>))

eval_catch(tf, fs, e, st) ==
    Bind(Eval(tf, e, st), LAMBDA tag, s :
      Then(eval_progn(fs, e, s), LAMBDA v, s2 :
        IF IsTransfer(v) /\ v[2] = "catch" /\ v[3] = tag THEN <<v[4], s2>> ELSE <<v, s2>>))

eval_throw(tf, f, e, st) ==
    Bind(Eval(tf, e, st), LAMBDA tag, s :
      Bind(Eval(f, e, s), LAMBDA v, s2 : <<Transfer("catch", tag, v), s2>>))

TagAt(items, tag) ==
    {i \in 1..Len(items) : items[i][1] = "tag" /\ Sym(items[i][2]) = tag}

\* From item i on.  Any instance ends the body, a function value too.
eval_tagbody(items, i, e, st) ==
    IF i > Len(items) THEN <<Nil, st>>
    ELSE IF items[i][1] = "tag" THEN eval_tagbody(items, i + 1, e, st)
    ELSE Then(Eval(items[i], e, st), LAMBDA v, s :
      IF ~IsInstance(v) THEN eval_tagbody(items, i + 1, e, s)
      ELSE IF IsTransfer(v) /\ v[2] = "go" /\ TagAt(items, v[3]) # {}
      THEN eval_tagbody(items, CHOOSE j \in TagAt(items, v[3]) :
                                 \A k \in TagAt(items, v[3]) : j <= k, e, s)
      ELSE <<v, s>>)

Eval(f, e, st) ==
    CASE f[1] \in {"num", "nil"}  -> <<f, st>>
      [] f[1] = "var"             -> IF f[2] = "t" THEN <<T, st>>
                                     ELSE <<os_get_variable_checked(f[2], e, st), st>>
      [] f[1] = "quote"           -> <<f[2], st>>
      [] f[1] = "if"              -> eval_if(f, e, st)
      [] f[1] = "progn"           -> eval_progn(f[2], e, st)
      [] f[1] = "setq"            -> eval_setq(f[2], f[3], e, st)
      [] f[1] = "defvar"          -> eval_defvar(f[2], f[3], e, st)
      [] f[1] = "defglobal"       -> eval_defglobal(f[2], f[3], e, st)
      [] f[1] = "defconstant"     -> eval_defconstant(f[2], f[3], e, st)
      [] f[1] = "defdynamic"      -> eval_defdynamic(f[2], f[3], e, st)
      [] f[1] = "dynamic"         -> <<os_get_dynamic(f[2], st), st>>
      [] f[1] = "defun"           -> eval_defun(f[2], f[3], f[4], e, st)
      [] f[1] = "lambda"          -> <<make_interpreted_function(f[2], f[3], e), st>>
      [] f[1] = "function"        -> eval_function(f[2], e, st)
      [] f[1] = "flet"            -> eval_flet(f[2], f[3], e, st)
      [] f[1] = "labels"          -> eval_labels(f[2], f[3], e, st)
      [] f[1] = "quasiquote"      -> qq_expand(f[2], e, 0, st)
      [] f[1] = "block"           -> eval_block(f[2], f[3], e, st)
      [] f[1] = "return-from"     -> eval_return_from(f[2], f[3], e, st)
      [] f[1] = "unwind-protect"  -> eval_unwind_protect(f[2], f[3], e, st)
      [] f[1] = "catch"           -> eval_catch(f[2], f[3], e, st)
      [] f[1] = "throw"           -> eval_throw(f[2], f[3], e, st)
      [] f[1] = "tagbody"         -> eval_tagbody(f[2], 1, e, st)
      [] f[1] = "go"              -> <<Transfer("go", Sym(f[2]), Nil), st>>
      [] f[1] = "macro"           -> Eval(f[2], e, st)
      [] f[1] = "call"            -> eval_form(f[2], f[3], e, st)
      [] f[1] = "app"             ->
           Bind(eval_args(f[3], e, st), LAMBDA args, s :
             apply_function(make_interpreted_function(f[2][2], f[2][3], e), args, e, s))

os_eval_top_level(f, st) ==
    Caught(Eval(f, 1, os_live_block_push("top", st)), Sym("top"), st.live)

=============================================================================
