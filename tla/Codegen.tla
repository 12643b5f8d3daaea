------------------------------- MODULE Codegen -------------------------------
(***************************************************************************)
(* The za_compile_* functions: each takes a form and its context and       *)
(* returns the instructions that leave the form's value in rax.  Besides   *)
(* those of Compiler there are                                             *)
(*   <<"popblock">>            os_live_block_pop, rax kept                 *)
(*   <<"blockval", name>>      rax := the value of a transfer to name      *)
(*   <<"catchval", off>>       rax := the value of a throw to frame[off]   *)
(*   <<"goexit", off, tag, n>> a go to tag that came as a transfer: unlink *)
(*                             the cell and jump                           *)
(*   <<"swap", off>>           exchange rax and frame[off]                 *)
(*   <<"iffixed", n, k>>       skip k unless the function in FN_VAL is     *)
(*                             compiled with a fixed entry for n arguments *)
(*   <<"callfixed", offs>> <<"tailfixed", offs>>  call that entry          *)
(*   <<"applycell">> <<"tailcons">>  call it with the list in ACC_VAL      *)
(*   <<"arity", n, rest, k>>   skip k if the number of arguments is wrong  *)
(*   <<"jnn", n>>              skip n if rax is not nil                    *)
(*   <<"ret">>                 leave the frame                             *)
(***************************************************************************)
EXTENDS Compiler

RECURSIVE Compile(_, _)
RECURSIVE CompileBody(_, _)

NonTail(c) == [c EXCEPT !.tail = FALSE]
Deeper(c) == [c EXCEPT !.tail = FALSE, !.nlx = @ + 1]

Concat(codes) ==
    LET g[i \in 0..Len(codes)] == IF i = 0 THEN <<>> ELSE g[i - 1] \o codes[i]
    IN  g[Len(codes)]

za_compile_operand(f, c) ==
    IF IsLeaf(f) THEN za_emit_operand(f, c) ELSE Compile(f, NonTail(c))

\* The forms of a body: a transfer ends it.
CompileBody(fs, c) ==
    IF fs = <<>> THEN Mov(Imm(Nil))
    ELSE IF Len(fs) = 1 THEN Compile(fs[1], c)
    ELSE IF Len(fs) > ZA_MAX_OPERANDS + 1 THEN Bail
    ELSE Unless(Compile(fs[1], NonTail(c)), CompileBody(Tail(fs), c))

za_compile_if(f, c) ==
    LET a == Compile(f[3], c)
        b == Compile(f[4], c)
    IN  Unless(Compile(f[2], NonTail(c)),
               <<<<"jnil", Len(a) + 1>>>> \o a \o Jmp(Len(b)) \o b)

(***************************************************************************)
(* Primitives.                                                             *)
(***************************************************************************)
za_compile_unary(op, fs, c) ==
    IF Len(fs) # 1 THEN Bail
    ELSE Unless(za_compile_operand(fs[1], c), Call(op, <<Rax, Slot(ENV_VAL)>>, 0))

\* The first operand waits in a cell.  What an operation returns is stored
\* for the next one without a look.
za_compile_fold(op, fs, c) ==
    IF c.arith >= ZA_MAX_ARITH_DEPTH \/ Len(fs) \notin 2..ZA_MAX_OPERANDS THEN Bail
    ELSE
    LET off == za_arith_val_off(c.arith)
        skip_protect == \A i \in 2..Len(fs) : za_operand_is_safe_leaf(fs[i], c)
        rest[i \in 2..Len(fs)] ==
          Unless(za_compile_operand(fs[i], [c EXCEPT !.arith = @ + 1]),
                 Call(op, <<Slot(off), Rax>>, 0)
                   \o IF i = Len(fs) THEN <<>> ELSE St(off) \o rest[i + 1])
    IN  Unless(za_compile_operand(fs[1], c),
               IF skip_protect THEN St(off) \o rest[2]
               ELSE Keep(off) \o rest[2] \o UnlinkNode(off))

za_compile_binary(op, fs, c) ==
    IF Len(fs) # 2 THEN Bail ELSE za_compile_fold(op, fs, c)

za_compile_minus(fs, c) ==
    IF Len(fs) = 1 THEN za_compile_fold("*", <<Num(-1), fs[1]>>, c)
    ELSE za_compile_fold("-", fs, c)

(***************************************************************************)
(* Closures.  The environment of a closure is a new frame: parameters and  *)
(* plain locals are copied into it, boxed locals share their pair.  The    *)
(* rest parameter is not put there.                                        *)
(***************************************************************************)
za_emit_build_capture_env(w, c) ==
    SaveHead(w.head)
    \o Call("os_make_frame", <<Slot(ENV_VAL)>>, 0) \o Keep(w.env)
    \o Mov(Imm(Nil)) \o Keep(w.tmp)
    \o Concat([i \in 1..Len(c.ps.fix) |->
         EmitParam(i - 1, c) \o St(w.tmp)
           \o Call("os_set_variable", <<Slot(w.tmp), Slot(w.env)>>, c.ps.fix[i])])
    \o Concat([d \in 1..Len(c.locals) |-> Concat([i \in 1..Len(c.locals[d]) |->
         Mov(Slot(za_local_val_off(d - 1, i - 1))) \o St(w.tmp)
           \o Call(IF c.locals[d][i].boxed THEN "os_env_add_binding_pair" ELSE "os_set_variable",
                   <<Slot(w.tmp), Slot(w.env)>>, c.locals[d][i].sym)])])

MakeClosure(w, ps, fs) == Call("make_interpreted_function", <<Slot(w.env)>>, <<ps, fs>>)

za_compile_lambda(ps, fs, c) ==
    za_emit_build_capture_env(LAMBDA_SLOTS, c)
    \o MakeClosure(LAMBDA_SLOTS, ps, fs) \o Unlink(LAMBDA_SLOTS.head)

(***************************************************************************)
(* let.  Its slots are chosen by the number of scopes around it, and its   *)
(* init forms are compiled with just those scopes.                         *)
(***************************************************************************)
za_local_validate_lambda_vars(ps) ==
    /\ Len(ps.fix) <= ZA_MAX_LOCALS_PER_LET
    /\ \A i, j \in 1..Len(ps.fix) : i # j => ps.fix[i] # ps.fix[j]

NewScope(ps, body) ==
    [i \in 1..Len(ps.fix) |-> [sym |-> ps.fix[i], boxed |-> Boxed(ps.fix[i], body)]]

za_compile_let(ps, body, inits, c) ==
    LET d == Len(c.locals)
        n == Len(ps.fix)
        scope == NewScope(ps, body)
        from[i \in 1..(n + 1)] ==
          IF i > n THEN CompileBody(body, [c EXCEPT !.locals = Append(@, scope)])
          ELSE Unless(Compile(inits[i], NonTail(c)),
                 Keep(za_local_val_off(d, i - 1))
                 \o (IF scope[i].boxed
                     THEN Call("box", <<Slot(za_local_val_off(d, i - 1))>>, 0)
                            \o St(za_local_val_off(d, i - 1))
                     ELSE <<>>)
                 \o from[i + 1])
    IN  IF za_local_validate_lambda_vars(ps) /\ n = Len(inits) /\ d < ZA_MAX_LET_DEPTH
        THEN Scoped(za_let_saved_head_off(d), from[1])
        ELSE Bail

(***************************************************************************)
(* Calls.  The arguments wait in cells; then the function's cell is looked *)
(* up.  A compiled function that takes as many arguments in slots is       *)
(* called directly, any other with a list.                                 *)
(***************************************************************************)
za_emit_fn_resolve(s, c) ==
    IF FnScopesOf(s, c) # {}
    THEN Call("os_get_function_cell", <<Imm(<<"env", 1>>)>>, za_fn_scope_lookup(s, c))
    ELSE Call("os_get_function_cell", <<Slot(ENV_VAL)>>, s)

za_emit_call_build_acc_and_unlink(d, n) ==
    Mov(Imm(Nil)) \o Keep(ACC_VAL)
    \o Concat([i \in 1..n |->
         Call("cons", <<Slot(za_arg_val_off(d, n - i)), Slot(ACC_VAL)>>, 0) \o St(ACC_VAL)])
    \o Unlink(za_call_saved_head_off(d))

\* A tail call leaves the frame's cells on the list of roots.
SlowCallKeepsRoots(c, n) ==
    za_emit_call_build_acc_and_unlink(c.call, n)
    \o (IF c.tail THEN <<<<"tailcons">>>> ELSE <<<<"applycell">>>>)

\* A call through the list in ACC_VAL, and one of the fixed entry.
SlowCall(c, n) ==
    za_emit_call_build_acc_and_unlink(c.call, n)
    \o (IF c.tail THEN Unlink(ENV_SAVED_HEAD) \o <<<<"tailcons">>>> ELSE <<<<"applycell">>>>)

FastCall(c, n) ==
    LET offs == [i \in 1..n |-> za_arg_val_off(c.call, i - 1)]
    IN  Unlink(za_call_saved_head_off(c.call))
        \o (IF c.tail THEN Unlink(ENV_SAVED_HEAD) \o <<<<"tailfixed", offs>>>>
            ELSE <<<<"callfixed", offs>>>> \o Jmp(Len(SlowCall(c, n))))

za_compile_call(s, fs, c) ==
    IF c.call >= ZA_MAX_CALL_DEPTH \/ Len(fs) > ZA_MAX_OPERANDS THEN Bail
    ELSE
    LET d == c.call
        n == Len(fs)
        fast == FastCall(c, n)
        from[i \in 1..(n + 1)] ==
          IF i > n
          THEN za_emit_fn_resolve(s, c) \o Keep(FN_VAL)
                 \o (IF n <= ZA_MAX_FIXED_ENTRY_PARAMS
                     THEN <<<<"iffixed", n, Len(fast)>>>> \o fast ELSE <<>>)
                 \o SlowCall(c, n) \o Jmp(1)
          ELSE Unless(Compile(fs[i], [c EXCEPT !.tail = FALSE, !.call = @ + 1]),
                      Keep(za_arg_val_off(d, i - 1)) \o from[i + 1])
    IN  Scoped(za_call_saved_head_off(d), from[1])

(***************************************************************************)
(* Quasiquote.  q chooses the slots; a list is built from its end, which   *)
(* is evaluated first.                                                     *)
(***************************************************************************)
RECURSIVE za_qq_contains_unquote(_)
za_qq_contains_unquote(t) ==
    \/ t[1] \in {"uq", "splice"}
    \/ t[1] = "qq" /\ za_qq_contains_unquote(t[2])
    \/ t[1] = "list" /\ \E u \in RangeOf(t[2]) \cup {t[3]} : za_qq_contains_unquote(u)

RECURSIVE Quoted(_)
Quoted(t) ==
    CASE t[1] = "atom" -> t[2]
      [] t[1] = "qq"   -> ListOf(<<Sym("quasiquote"), Quoted(t[2])>>)
      [] t[1] = "list" ->
           LET g[i \in 1..(Len(t[2]) + 1)] ==
                 IF i > Len(t[2]) THEN Quoted(t[3]) ELSE Cons(Quoted(t[2][i]), g[i + 1])
           IN  g[1]

\* The elements of a template that stays a list: what each is, and by how
\* much its level differs.
Atom(s) == [t |-> <<"atom", Sym(s)>>, delta |-> 0]
QqItems(t, level) ==
    CASE t[1] = "qq"     -> <<Atom("quasiquote"), [t |-> t[2], delta |-> 1]>>
      [] t[1] = "uq"     -> <<Atom("unquote"), [t |-> t[2], delta |-> -1]>>
      [] t[1] = "splice" -> <<Atom("unquote-splicing"), [t |-> t[2], delta |-> -1]>>
      [] t[1] = "list"   -> [i \in 1..Len(t[2]) |-> [t |-> t[2][i], delta |-> 0]]
                             \o IF level = 0 \/ t[3][1] # "uq" THEN <<>>
                                ELSE <<Atom("unquote"), [t |-> t[3][2], delta |-> -1]>>

\* The end of the list: an atom, or unquoted.
QqTail(t, c, level) ==
    IF t[1] # "list" THEN Mov(Imm(Nil))
    ELSE IF t[3][1] = "atom" THEN Mov(Imm(t[3][2]))
    ELSE IF level = 0 THEN za_compile_operand(t[3][2], c) ELSE Mov(Imm(Nil))

RECURSIVE za_compile_quasiquote(_, _, _, _)
za_compile_quasiquote(t, c, q, level) ==
    IF ~za_qq_contains_unquote(t) THEN Mov(Imm(Quoted(t)))
    ELSE IF level = 0 /\ t[1] \in {"uq", "splice"} THEN za_compile_operand(t[2], c)
    ELSE IF q >= ZA_MAX_QQ_DEPTH THEN Bail
    ELSE
    LET items == QqItems(t, level)
        n == Len(items)
        IsSplice(i) == level = 0 /\ items[i].t[1] = "splice"
        acc == za_qq_acc_val_off(q)
        from[i \in 1..(n + 1)] ==
          IF i > n
          THEN Concat([j \in 1..n |->
                 Call(IF IsSplice(n + 1 - j) THEN "qq_append" ELSE "cons",
                      <<Slot(za_qq_elem_val_off(q, n - j)), Slot(acc)>>, 0) \o St(acc)])
               \o Unlink(za_qq_saved_head_off(q)) \o Mov(Slot(acc)) \o Jmp(1)
          ELSE Unless(IF IsSplice(i) THEN za_compile_operand(items[i].t[2], c)
                      ELSE za_compile_quasiquote(items[i].t, c, q + 1, level + items[i].delta),
                      Keep(za_qq_elem_val_off(q, i - 1)) \o from[i + 1])
    IN  IF n > ZA_MAX_OPERANDS THEN Bail
        ELSE Scoped(za_qq_saved_head_off(q), Unless(QqTail(t, c, level), Keep(acc) \o from[1]))

(***************************************************************************)
(* Non-local exits.  Their cell is that of the depth nlx.                  *)
(***************************************************************************)
NoLevelLeft(c) == c.nlx >= ZA_MAX_NLX_DEPTH

za_compile_block(name, fs, c) ==
    Call("os_live_block_push", <<>>, name)
    \o CompileBody(fs, [Deeper(c) EXCEPT !.blocks = @ \cup {c.nlx}])
    \o <<<<"popblock">>, <<"blockval", name>>>>

za_compile_return_from(name, f, c) ==
    LET off == za_nlx_val_off(c.nlx)
    IN  IF NoLevelLeft(c) THEN Bail
        ELSE Unless(Compile(f, NonTail(c)),
                    Keep(off) \o Call("make_block_exit", <<Slot(off)>>, name) \o UnlinkNode(off))

za_compile_defdynamic(s, f, c) ==
    LET off == za_nlx_val_off(c.nlx)
    IN  IF NoLevelLeft(c) THEN Bail
        ELSE Unless(Compile(f, NonTail(c)),
                    Keep(off) \o Call("os_set_dynamic", <<Slot(off)>>, s)
                      \o UnlinkNode(off) \o Mov(Imm(Sym(s))))

\* A parameter cannot be assigned, nor anything but a local in a function
\* with a rest parameter.
za_compile_setq(s, f, c) ==
    LET v == Compile(f, NonTail(c))
    IN  IF IsLocal(s, c)
        THEN LET l == za_local_lookup(s, c)
             IN  Unless(v, IF l.boxed THEN Call("os_setcdr", <<Slot(l.off), Rax>>, 0) ELSE St(l.off))
        ELSE IF IsParam(s, c) \/ c.ps.rest # "none" THEN Bail
        ELSE Unless(v, Keep(SETQ_TMP_VAL)
               \o Call("os_setq_variable_checked", <<Slot(SETQ_TMP_VAL), Slot(ENV_VAL)>>, s)
               \o UnlinkNode(SETQ_TMP_VAL))

za_compile_catch(tf, fs, c) ==
    LET off == za_nlx_val_off(c.nlx)
    IN  IF NoLevelLeft(c) THEN Bail
        ELSE Unless(Compile(tf, NonTail(c)),
                    Keep(off) \o CompileBody(fs, Deeper(c))
                      \o <<<<"catchval", off>>>> \o UnlinkNode(off))

za_compile_throw(tf, f, c) ==
    LET off == za_nlx_val_off(c.nlx)
    IN  IF NoLevelLeft(c) THEN Bail
        ELSE Unless(Compile(tf, NonTail(c)),
                    Keep(off) \o Compile(f, Deeper(c)) \o <<<<"jct", 3>>>>
                      \o UnlinkNode(off) \o Call("make_catch_exit", <<Slot(off), Rax>>, 0)
                      \o Jmp(1) \o UnlinkNode(off))

za_compile_unwind_protect(f, fs, c) ==
    LET off == za_nlx_val_off(c.nlx)
    IN  IF NoLevelLeft(c) THEN Bail
        ELSE Compile(f, Deeper(c)) \o Keep(off) \o CompileBody(fs, Deeper(c))
             \o <<<<"jct", 3>>>> \o Mov(Slot(off)) \o UnlinkNode(off) \o Jmp(7)
             \o <<<<"swap", off>>, <<"jct", 3>>>> \o Mov(Slot(off)) \o UnlinkNode(off) \o Jmp(2)
             \o Call("os_signal_control_error", <<Slot(ENV_VAL)>>, 0) \o UnlinkNode(off)

\* Every go jumps to the first tag.
ItemOfAnyTag(tag, items) ==
    CHOOSE i \in 1..Len(items) :
       items[i][1] = "tag" /\ \A j \in 1..(i - 1) : items[j][1] # "tag"

\* A tag stands for the place in the code where the items after it begin.
\* The jumps to it are resolved once the whole is known.
ItemOf(tag, items) ==
    CHOOSE i \in 1..Len(items) : items[i] = <<"tag", tag>>

za_compile_tagbody(items, c) ==
    LET n == Len(items)
        tags == {i \in 1..n : items[i][1] = "tag"}
        off == za_nlx_val_off(c.nlx)
        inner == [NonTail(c) EXCEPT !.tb = <<c.nlx>>]
        end == IF tags = {} \/ NoLevelLeft(c) THEN <<>>
               ELSE Keep(off)
                    \o Concat([i \in 1..n |-> IF i \in tags THEN <<<<"goexit", off, items[i][2], 0>>>> ELSE <<>>])
                    \o Mov(Slot(off)) \o UnlinkNode(off)
        from[i \in 1..(n + 1)] ==
          IF i > n THEN Mov(Imm(Nil)) \o Jmp(Len(end))
          ELSE IF i \in tags THEN from[i + 1]
          ELSE Unless(Compile(items[i], inner), from[i + 1])
        code == from[1] \o end
        PlaceOf(tag) == Len(from[1]) - Len(from[ItemOf(tag, items)]) + 1
        Known(tag) == \E i \in tags : items[i][2] = tag
    IN  IF \/ Len(items) > ZA_MAX_TAGBODY_FORMS
           \/ Len(SelectSeq(items, LAMBDA x : x[1] = "tag")) > ZA_MAX_TAGBODY_TAGS
        THEN Bail
        ELSE [k \in 1..Len(code) |->
               IF code[k][1] = "goto"
               THEN IF Known(code[k][2]) THEN <<"jmp", PlaceOf(code[k][2]) - (k + 1)>> ELSE <<"BAIL">>
               ELSE IF code[k][1] = "goexit" /\ k > Len(from[1])
               THEN <<"goexit", code[k][2], code[k][3], PlaceOf(code[k][3]) - (k + 1)>>
               ELSE code[k]]

\* Out of the tagbody around it, through blocks only.  Nothing is unlinked.
za_compile_go(tag, c) ==
    IF c.tb = <<>> \/ ~(c.tb[1]..(c.nlx - 1) \subseteq c.blocks) THEN Bail
    ELSE [i \in 1..(c.nlx - c.tb[1]) |-> <<"popblock">>] \o <<<<"goto", tag>>>>

(***************************************************************************)
(* flet and labels: interpreted closures under uninterned names, which are *)
(* given back what they meant before at the end.                           *)
(***************************************************************************)
Gensym(s, c) == s \o "#" \o ToString(Len(c.fns))

FnMap(c) ==
    [s \in UNION {DOMAIN c.fns[i] : i \in 1..Len(c.fns)} |-> za_fn_scope_lookup(s, c)]

\* What the name meant before waits in a cell.
BindFunctions(bs, map, c) ==
    Concat([i \in 1..Len(bs) |->
       MakeClosure(FLET_SLOTS, bs[i][2], za_rewrite_body_list(bs[i][3], map)) \o St(FLET_SLOTS.tmp)
       \o Call("os_get_function", <<Imm(<<"env", 1>>)>>, Gensym(bs[i][1], c))
       \o Keep(za_flet_old_val_off(c.nlx, i - 1))
       \o Call("os_set_function", <<Slot(FLET_SLOTS.tmp)>>, Gensym(bs[i][1], c))])

RestoreFunctions(bs, c) ==
    Concat([i \in 1..Len(bs) |->
       Call("os_set_function", <<Slot(za_flet_old_val_off(c.nlx, i - 1))>>, Gensym(bs[i][1], c))])

za_compile_flet_labels(kind, bs, fs, c) ==
    LET n == Len(bs)
        names == {bs[i][1] : i \in 1..n}
        new == [c EXCEPT !.fns = Append(@, [s \in names |-> Gensym(s, c)])]
        map == FnMap(IF kind = "labels" THEN new ELSE c)
        nlx == za_nlx_val_off(c.nlx)
    IN  IF \/ NoLevelLeft(c) \/ n > ZA_MAX_FLET_BINDINGS
           \/ \E f \in BodiesOf(bs) : RefersTo(f, map)
        THEN Bail
        ELSE za_emit_build_capture_env(FLET_SLOTS, c)
             \o BindFunctions(bs, map, c)
             \o CompileBody(fs, Deeper(new))
             \o Keep(nlx) \o RestoreFunctions(bs, c)
             \o Mov(Slot(nlx)) \o Unlink(FLET_SLOTS.head)

(***************************************************************************)
(* Any form.                                                               *)
(***************************************************************************)
Unaries == {"car", "cdr", "null"}
Binaries == {"<", "eq", "cons"}

Primitives == {"+", "*", "-"} \cup Binaries \cup Unaries

CompilePrimitive(op, fs, c) ==
    CASE op \in {"+", "*"}  -> IF fs = <<>> THEN Mov(Imm(Num(IF op = "+" THEN 0 ELSE 1)))
                              ELSE za_compile_fold(op, fs, c)
      [] op = "-"           -> za_compile_minus(fs, c)
      [] op \in Binaries    -> za_compile_binary(op, fs, c)
      [] op \in Unaries     -> za_compile_unary(op, fs, c)

CompileSpecial(f, c) ==
    CASE f[1] = "block"          -> za_compile_block(f[2], f[3], c)
      [] f[1] = "return-from"    -> za_compile_return_from(f[2], f[3], c)
      [] f[1] = "catch"          -> za_compile_catch(f[2], f[3], c)
      [] f[1] = "throw"          -> za_compile_throw(f[2], f[3], c)
      [] f[1] = "unwind-protect" -> za_compile_unwind_protect(f[2], f[3], c)
      [] f[1] = "tagbody"        -> za_compile_tagbody(f[2], c)
      [] f[1] = "go"             -> za_compile_go(f[2], c)
      [] f[1] \in {"flet", "labels"} -> za_compile_flet_labels(f[1], f[2], f[3], c)
      [] f[1] = "dynamic"        -> Call("os_get_dynamic", <<>>, f[2])
      [] f[1] = "defdynamic"     -> za_compile_defdynamic(f[2], f[3], c)
      [] f[1] = "setq"           -> za_compile_setq(f[2], f[3], c)
      [] f[1] = "quasiquote"     -> za_compile_quasiquote(f[2], c, 0, 0)
      [] f[1] \in {"defun", "defvar", "defconstant", "defglobal"} -> Bail

za_compile_expr_inner(f, c) ==
    CASE IsLeaf(f)               -> za_emit_operand(f, c)
      [] f[1] = "macro"          -> Compile(f[2], c)
      [] f[1] = "app"            -> IF f[2][2].rest # "none"
                                    THEN Compile(<<"call", "funcall", <<f[2]>> \o f[3]>>, c)
                                    ELSE za_compile_let(f[2][2], f[2][3], f[3], c)
      [] f[1] = "progn"          -> CompileBody(f[2], c)
      [] f[1] = "call"           -> IF f[2] \in Primitives THEN CompilePrimitive(f[2], f[3], c)
                                    ELSE za_compile_call(f[2], f[3], c)
      [] f[1] = "lambda"         -> za_compile_lambda(f[2], f[3], c)
      [] f[1] = "if"             -> za_compile_if(f, c)
      [] OTHER                   -> CompileSpecial(f, c)

Compile(f, c) ==
    IF c.nest >= ZA_MAX_COMPILE_NEST THEN Bail
    ELSE za_compile_expr_inner(f, [c EXCEPT !.nest = @ + 1])

(***************************************************************************)
(* A function: two entries, the body, the exits.                           *)
(***************************************************************************)
za_emit_epilogue == Unlink(ENV_SAVED_HEAD) \o <<<<"ret">>>>

\* Do the parameters live in slots, which the fixed entry fills?
UseParamSlots(ps, form) ==
    /\ Len(ps.fix) <= ZA_MAX_FIXED_ENTRY_PARAMS
    /\ ps.rest = "none"
    /\ ~za_form_disables_param_slots(form)

FixedEntryCode(n, skip) ==
    SaveHead(ENV_SAVED_HEAD) \o Link(ENV_VAL)
    \o Concat([i \in 1..n |-> Link(za_param_val_off(i - 1))]) \o Jmp(skip)

\* The list of arguments is taken apart, or only counted; a wrong number
\* jumps over the body.
ConsEntryCode(ps, slots, len) ==
    LET n == Len(ps.fix)
        pops[i \in 1..(n + 1)] ==
          IF i > n THEN Mov(Slot(ARGS_VAL)) \o <<<<"jnn", len>>>>
          ELSE LET pop == Call("car0", <<Slot(ARGS_VAL)>>, 0) \o Keep(za_param_val_off(i - 1))
                            \o Call("cdr0", <<Slot(ARGS_VAL)>>, 0) \o St(ARGS_VAL) \o pops[i + 1]
               IN  IF i < n THEN pop
                   ELSE Mov(Slot(ARGS_VAL)) \o <<<<"jnil", Len(pop) + len>>>> \o pop
    IN  SaveHead(ENV_SAVED_HEAD) \o Link(ENV_VAL) \o Link(ARGS_VAL)
        \o IF slots THEN pops[1] ELSE <<<<"arity", n, ps.rest # "none", len>>>>

ArityErrorCode == Call("os_signal_arity_error", <<>>, 0) \o za_emit_epilogue

za_try_compile_defun(ps, fs) ==
    LET n == Len(ps.fix)
        form == IF Len(fs) = 1 THEN fs[1] ELSE <<"progn", fs>>
        slots == UseParamSlots(ps, form)
        body == Compile(form, [ps |-> ps, slots |-> slots, locals |-> <<>>, tail |-> TRUE,
                               nlx |-> 0, call |-> 0, arith |-> 0, tb |-> <<>>, blocks |-> {},
                               fns |-> <<>>, nest |-> 0]) \o za_emit_epilogue
        cons == ConsEntryCode(ps, slots, Len(body))
        fixed == IF slots THEN FixedEntryCode(n, Len(cons)) ELSE <<>>
    IN  [ok    |-> fs # <<>> /\ n <= ZA_MAX_OPERANDS /\ ~Bails(body),
         code  |-> fixed \o cons \o body \o ArityErrorCode,
         fixed |-> IF slots THEN n ELSE -1,
         cons  |-> Len(fixed) + 1]

=============================================================================
