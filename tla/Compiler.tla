------------------------------ MODULE Compiler ------------------------------
(***************************************************************************)
(* The compiler of za.c: a function's body becomes a sequence of           *)
(* instructions over one register, rax, and one stack frame.  An           *)
(* instruction stands for the few machine instructions that always come    *)
(* together in the generated code:                                         *)
(*                                                                         *)
(*   <<"mov", src>>          rax := src                                    *)
(*   <<"st", off>>           frame[off] := rax                             *)
(*   <<"link", off>>         the cell at off becomes a root of the         *)
(*                           collector: its node, at off + 8, is pushed on *)
(*                           the process's list of roots                   *)
(*   <<"unlinknode", off>>   the list goes back to what followed that node *)
(*   <<"head", off>>         frame[off] := the list                        *)
(*   <<"unlink", off>>       the list := frame[off]                        *)
(*   <<"call", h, srcs, x>>  rax := what the runtime's h returns           *)
(*   <<"jct", n>> <<"jnil", n>> <<"jmp", n>>  skip n instructions: if rax  *)
(*                           is a transfer, if it is nil, always           *)
(*   <<"goto", tag>>         a jump that the tagbody around it resolves    *)
(*   <<"BAIL">>              the compiler gives up: the function stays     *)
(*                           interpreted                                   *)
(*                                                                         *)
(* The context of a form: the function's parameters ps, whether they live  *)
(* in slots, the let scopes around it (outermost first), whether it is in  *)
(* tail position, the depths nlx, call and arith that choose its slots,    *)
(* the tagbody around it, the nlx levels that are blocks, and the          *)
(* functions flet and labels have bound.                                   *)
(***************************************************************************)
EXTENDS Lisp

(***************************************************************************)
(* The frame.  A cell is a word for the value and two for its node.        *)
(***************************************************************************)
ZA_MAX_OPERANDS == 16
ZA_MAX_NLX_DEPTH == 8
ZA_MAX_LET_DEPTH == 16
ZA_MAX_LOCALS_PER_LET == 4
ZA_MAX_CALL_DEPTH == 4
ZA_MAX_ARITH_DEPTH == 4
ZA_MAX_FIXED_ENTRY_PARAMS == 3
ZA_MAX_FLET_BINDINGS == 4
ZA_MAX_QQ_DEPTH == 6
ZA_MAX_TAGBODY_TAGS == 16
ZA_MAX_TAGBODY_FORMS == 64
ZA_MAX_COMPILE_NEST == 60

ENV_SAVED_HEAD == 0
ENV_VAL == 16
ARGS_VAL == 40
FN_VAL == 64
ACC_VAL == 88
LAMBDA_SLOTS == [head |-> 112, env |-> 120, tmp |-> 144]
za_nlx_val_off(d) == 168 + 24 * d
za_local_val_off(d, i) == 656 + d * (ZA_MAX_LOCALS_PER_LET * 24) + i * 24
za_let_saved_head_off(d) == za_local_val_off(ZA_MAX_LET_DEPTH, 0) + 8 * d
za_call_saved_head_off(d) ==
    za_let_saved_head_off(ZA_MAX_LET_DEPTH) + d * (8 + ZA_MAX_OPERANDS * 24)
za_arg_val_off(d, i) == za_call_saved_head_off(d) + 8 + 24 * i
za_arith_val_off(d) == za_call_saved_head_off(ZA_MAX_CALL_DEPTH) + 24 * d
SETQ_TMP_VAL == za_arith_val_off(ZA_MAX_ARITH_DEPTH)
za_param_val_off(i) == SETQ_TMP_VAL + 32 + 24 * i
FLET_BASE == za_param_val_off(0) + 96
FLET_SLOTS == [head |-> FLET_BASE, env |-> FLET_BASE + 8, tmp |-> FLET_BASE + 32]
za_flet_old_val_off(nlx, i) == FLET_BASE + 64 + nlx * (ZA_MAX_FLET_BINDINGS * 24) + 24 * i
za_qq_saved_head_off(q) ==
    za_flet_old_val_off(ZA_MAX_NLX_DEPTH, 0) + q * (8 + (ZA_MAX_OPERANDS + 1) * 24)
za_qq_elem_val_off(q, i) == za_qq_saved_head_off(q) + 8 + 24 * i
za_qq_acc_val_off(q) == za_qq_elem_val_off(q, ZA_MAX_OPERANDS)

NodeOf(off) == off + 8

(***************************************************************************)
(* Instructions.                                                           *)
(***************************************************************************)
Rax == <<"rax">>
Imm(v) == <<"imm", v>>
Slot(off) == <<"slot", off>>

Bail == <<<<"BAIL">>>>
Bails(code) == \E i \in 1..Len(code) : code[i][1] \in {"BAIL", "goto"}

Mov(src) == <<<<"mov", src>>>>
St(off) == <<<<"st", off>>>>
Link(off) == <<<<"link", off>>>>
Keep(off) == St(off) \o Link(off)
UnlinkNode(off) == <<<<"unlinknode", off>>>>
SaveHead(off) == <<<<"head", off>>>>
Unlink(off) == <<<<"unlink", off>>>>
Call(h, srcs, x) == <<<<"call", h, srcs, x>>>>
Jmp(n) == <<<<"jmp", n>>>>

\* b, unless the value of a is a transfer: then that is the value.
Unless(a, b) == a \o <<<<"jct", Len(b)>>>> \o b

\* After the cells linked since off was saved have been used by code, or an
\* operand on the way transferred: its jct lands on the unlink.
Scoped(off, code) == SaveHead(off) \o code \o Unlink(off)

(***************************************************************************)
(* Names: local variables innermost first, then parameters, then the rest  *)
(* parameter; anything else is a variable of the environment.              *)
(***************************************************************************)
LocalsNamed(s, c) ==
    {p \in (1..Len(c.locals)) \X (0..(ZA_MAX_LOCALS_PER_LET - 1)) :
        p[2] < Len(c.locals[p[1]]) /\ c.locals[p[1]][p[2] + 1].sym = s}
IsLocal(s, c) == LocalsNamed(s, c) # {}
za_local_lookup(s, c) ==
    LET p == CHOOSE p \in LocalsNamed(s, c) : \A q \in LocalsNamed(s, c) : q[1] <= p[1]
    IN  [off   |-> za_local_val_off(p[1] - 1, p[2]),
         boxed |-> c.locals[p[1]][p[2] + 1].boxed]

ParamsNamed(s, c) == {i \in 1..Len(c.ps.fix) : c.ps.fix[i] = s}
IsParam(s, c) == ParamsNamed(s, c) # {}
za_param_index(s, c) == (CHOOSE i \in ParamsNamed(s, c) : TRUE) - 1

EmitParam(i, c) ==
    IF c.slots THEN Mov(Slot(za_param_val_off(i)))
    ELSE Call("nth", <<Slot(ARGS_VAL)>>, i)

EmitVariable(s, c) ==
    IF IsLocal(s, c)
    THEN LET l == za_local_lookup(s, c)
         IN  IF l.boxed THEN Call("unbox", <<Slot(l.off)>>, 0) ELSE Mov(Slot(l.off))
    ELSE IF IsParam(s, c) THEN EmitParam(za_param_index(s, c), c)
    ELSE IF s = c.ps.rest THEN Call("nthcdr", <<Slot(ARGS_VAL)>>, Len(c.ps.fix))
    ELSE IF s = "t" THEN Mov(Imm(T))
    ELSE Call("os_get_variable_checked", <<Slot(ENV_VAL)>>, s)

\* The functions of flet and labels, innermost first, have an uninterned
\* name each, in the global environment.
FnScopesOf(s, c) == {i \in 1..Len(c.fns) : s \in DOMAIN c.fns[i]}
za_fn_scope_lookup(s, c) ==
    c.fns[CHOOSE i \in FnScopesOf(s, c) : \A j \in FnScopesOf(s, c) : j <= i][s]

IsLeaf(f) == f[1] \in {"num", "nil", "var", "quote", "function"}
za_emit_operand(f, c) ==
    CASE f[1] \in {"num", "nil"} -> Mov(Imm(f))
      [] f[1] = "quote"    -> Mov(Imm(f[2]))
      [] f[1] = "var"      -> EmitVariable(f[2], c)
      [] f[1] = "function" -> IF FnScopesOf(f[2], c) # {} THEN Bail
                              ELSE Call("os_get_function", <<Slot(ENV_VAL)>>, f[2])

\* Any variable is taken for one: a global one may be signalled about.
SafeLeafAnyVariable(f, c) ==
    f[1] \in {"num", "var"}

\* An operand that cannot collect: the value before it needs no root.
za_operand_is_safe_leaf(f, c) ==
    \/ f[1] = "num" /\ f[2] <= MAX_FIXNUM
    \/ f[1] = "var" /\ IF IsLocal(f[2], c) THEN ~za_local_lookup(f[2], c).boxed
                       ELSE IsParam(f[2], c) /\ c.slots

(***************************************************************************)
(* What a form contains.  Kids: its subforms, whatever its kind.           *)
(***************************************************************************)
BodiesOf(bs) == UNION {{bs[i][3][j] : j \in 1..Len(bs[i][3])} : i \in 1..Len(bs)}
RangeOf(fs) == {fs[i] : i \in 1..Len(fs)}

RECURSIVE Unquoted(_, _)
Unquoted(t, depth) ==
    CASE t[1] = "atom" -> {}
      [] t[1] = "qq" -> Unquoted(t[2], depth + 1)
      [] t[1] \in {"uq", "splice"} -> IF depth = 0 THEN {t[2]} ELSE Unquoted(t[2], depth - 1)
      [] t[1] = "list" -> UNION {Unquoted(u, depth) : u \in RangeOf(t[2]) \cup {t[3]}}

Kids(f) ==
    CASE f[1] \in {"num", "nil", "var", "quote", "function", "dynamic", "go", "tag"} -> {}
      [] f[1] = "if"     -> {f[2], f[3], f[4]}
      [] f[1] \in {"progn", "tagbody"} -> RangeOf(f[2])
      [] f[1] = "macro"  -> {f[2]}
      [] f[1] \in {"setq", "return-from", "defdynamic", "defvar", "defglobal", "defconstant"} -> {f[3]}
      [] f[1] \in {"call", "block", "lambda"} -> RangeOf(f[3])
      [] f[1] = "app"    -> RangeOf(f[3]) \cup RangeOf(f[2][3])
      [] f[1] \in {"catch", "unwind-protect"} -> {f[2]} \cup RangeOf(f[3])
      [] f[1] = "throw"  -> {f[2], f[3]}
      [] f[1] \in {"flet", "labels"} -> RangeOf(f[3]) \cup BodiesOf(f[2])
      [] f[1] = "defun"  -> RangeOf(f[4])
      [] f[1] = "quasiquote" -> Unquoted(f[2], 0)

\* A form that mentions lambda, flet or labels.  Macro calls are not
\* expanded for this: the lambda that let expands to is not seen.
RECURSIVE za_form_disables_param_slots(_)
za_form_disables_param_slots(f) ==
    \/ f[1] \in {"lambda", "flet", "labels", "app"}
    \/ IF f[1] = "macro"
       THEN \E k \in Kids(f[2]) : za_form_disables_param_slots(k)
       ELSE \E k \in Kids(f) : za_form_disables_param_slots(k)

(***************************************************************************)
(* Is s assigned, is it used by a closure, in f?  A lambda in operator     *)
(* position is no closure; the bodies of flet and labels are not taken for *)
(* closures either.                                                        *)
(***************************************************************************)
Shadows(ps, s) == s \in RangeOf(ps.fix) \cup {ps.rest}

RECURSIVE za_assigned(_, _)
za_assigned(f, s) ==
    \/ f[1] = "setq" /\ f[2] = s
    \/ IF f[1] = "app"
       THEN \/ \E k \in RangeOf(f[3]) : za_assigned(k, s)
            \/ ~Shadows(f[2][2], s) /\ \E k \in RangeOf(f[2][3]) : za_assigned(k, s)
       ELSE (f[1] = "lambda" => ~Shadows(f[2], s)) /\ \E k \in Kids(f) : za_assigned(k, s)

RECURSIVE za_captured(_, _, _)
za_captured(f, s, escaping) ==
    \/ escaping /\ f[1] \in {"var", "setq"} /\ f[2] = s
    \/ IF f[1] = "app"
       THEN \/ \E k \in RangeOf(f[3]) : za_captured(k, s, escaping)
            \/ ~Shadows(f[2][2], s) /\ \E k \in RangeOf(f[2][3]) : za_captured(k, s, escaping)
       ELSE IF f[1] = "lambda"
       THEN ~Shadows(f[2], s) /\ \E k \in RangeOf(f[3]) : za_captured(k, s, TRUE)
       ELSE \E k \in Kids(f) : za_captured(k, s, escaping)

\* A variable is copied into the closures although it is assigned.
BoxedNever(s, fs) == FALSE

Boxed(s, fs) ==
    /\ \E f \in RangeOf(fs) : za_assigned(f, s)
    /\ \E f \in RangeOf(fs) : za_captured(f, s, FALSE)

(***************************************************************************)
(* The bodies of labels, and of an flet inside another, stay interpreted   *)
(* and call the functions by their uninterned names.  A reference          *)
(* #'name to one of them cannot be rewritten: the compiler gives up.  A    *)
(* parameter list is rewritten as if it were a call, a quasiquote is left  *)
(* alone, and inner flets hide the names they bind.                        *)
(***************************************************************************)
NewName(s, map) == IF s \in DOMAIN map THEN map[s] ELSE s
Hide(map, bs) == [s \in DOMAIN map \ {bs[i][1] : i \in 1..Len(bs)} |-> map[s]]
RewriteParams(ps, map) ==
    IF ps.fix = <<>> THEN ps ELSE [ps EXCEPT !.fix[1] = NewName(@, map)]

RECURSIVE za_rewrite_fn_refs(_, _)
za_rewrite_body_list(fs, map) ==
    [i \in 1..Len(fs) |-> IF fs[i][1] = "tag" THEN fs[i] ELSE za_rewrite_fn_refs(fs[i], map)]
za_rewrite_binding_list(bs, map) ==
    [i \in 1..Len(bs) |-> <<bs[i][1], bs[i][2], za_rewrite_body_list(bs[i][3], map)>>]
za_rewrite_fn_refs(f, map) ==
    CASE IsLeaf(f) \/ f[1] \in {"quasiquote", "dynamic", "go"} -> f
      [] f[1] = "macro"  -> za_rewrite_fn_refs(f[2], map)
      [] f[1] = "if"     -> <<"if", za_rewrite_fn_refs(f[2], map),
                              za_rewrite_fn_refs(f[3], map), za_rewrite_fn_refs(f[4], map)>>
      [] f[1] \in {"progn", "tagbody"} -> <<f[1], za_rewrite_body_list(f[2], map)>>
      [] f[1] \in {"setq", "return-from", "defdynamic", "defvar", "defglobal", "defconstant"} ->
           <<f[1], f[2], za_rewrite_fn_refs(f[3], map)>>
      [] f[1] = "call"   -> <<"call", NewName(f[2], map), za_rewrite_body_list(f[3], map)>>
      [] f[1] = "block"  -> <<"block", f[2], za_rewrite_body_list(f[3], map)>>
      [] f[1] = "lambda" -> <<"lambda", RewriteParams(f[2], map), za_rewrite_body_list(f[3], map)>>
      [] f[1] = "app"    -> <<"app", za_rewrite_fn_refs(f[2], map), za_rewrite_body_list(f[3], map)>>
      [] f[1] = "throw"  -> <<"throw", za_rewrite_fn_refs(f[2], map), za_rewrite_fn_refs(f[3], map)>>
      [] f[1] \in {"catch", "unwind-protect"} ->
           <<f[1], za_rewrite_fn_refs(f[2], map), za_rewrite_body_list(f[3], map)>>
      [] f[1] = "defun"  -> <<"defun", f[2], RewriteParams(f[3], map), za_rewrite_body_list(f[4], map)>>
      [] f[1] \in {"flet", "labels"} ->
           <<f[1], za_rewrite_binding_list(f[2], IF f[1] = "labels" THEN Hide(map, f[2]) ELSE map),
             za_rewrite_body_list(f[3], Hide(map, f[2]))>>

RECURSIVE RefersTo(_, _)
RefersTo(f, map) ==
    \/ f[1] = "function" /\ f[2] \in DOMAIN map
    \/ \E k \in IF f[1] = "quasiquote" THEN {} ELSE Kids(f) :
         RefersTo(k, IF f[1] \in {"flet", "labels"} /\ (f[1] = "labels" \/ k \notin BodiesOf(f[2]))
                     THEN Hide(map, f[2]) ELSE map)

=============================================================================
