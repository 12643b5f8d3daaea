-------------------------------- MODULE Lisp --------------------------------
(***************************************************************************)
(* Lisp values, environments and the operations of runtime.c that the      *)
(* evaluator (eval.c) and compiled code (za.c) share.                      *)
(*                                                                         *)
(* A value is a tuple whose first field is its kind:                       *)
(*   <<"nil">>  <<"num", n>>  <<"sym", s>>  <<"cons", a, d>>               *)
(*   <<"clo", params, body, env>>   an interpreted function                *)
(*   <<"cmp", k, params, body>>     the k-th function of the program,      *)
(*                                  compiled                               *)
(*   <<"nat", s>>                   a function written in C                *)
(*   <<"pair", i>>                  the binding pair of a variable         *)
(*   <<"env", e>>                   an environment                         *)
(*   <<"cell", e, s>>               the function cell of s in e            *)
(*   <<"ct", kind, name, value>>    a control transfer on its way: kind is *)
(*                                  "block", "catch" or "go"               *)
(* Fixnums, symbols, cells and nil do not live in the heap the collector   *)
(* moves.  Conses are never changed in place here.                         *)
(*                                                                         *)
(* The store holds the environments, the pairs of the variables, the       *)
(* blocks that are live, the dynamic variables and the effects so far.     *)
(***************************************************************************)
EXTENDS Integers, Sequences, TLC

Nil == <<"nil">>
T == <<"sym", "t">>
Num(n) == <<"num", n>>
Sym(s) == <<"sym", s>>
Cons(a, d) == <<"cons", a, d>>
Bool(b) == IF b THEN T ELSE Nil

MAX_FIXNUM == 9          \* a number above it is a bignum, in the heap

IsCons(v) == v[1] = "cons"
IsTransfer(v) == v[1] = "ct"
IsInstance(v) == v[1] \in {"clo", "cmp", "nat", "ct"}
IsFunction(v) == v[1] \in {"clo", "cmp", "nat"}
InHeap(v) ==
    \/ v[1] \in {"cons", "clo", "cmp", "nat", "ct", "pair", "env"}
    \/ v[1] = "num" /\ v[2] > MAX_FIXNUM

cc_car(v) == IF IsCons(v) THEN v[2] ELSE Nil
cc_cdr(v) == IF IsCons(v) THEN v[3] ELSE Nil

Transfer(kind, name, v) == <<"ct", kind, name, v>>

(***************************************************************************)
(* Environments.  Environment 1 is the global one and env.parent = 0 ends  *)
(* the chain.  A frame is an environment that definitions skip.            *)
(***************************************************************************)
EmptyMap == [s \in {} |-> Nil]

EmptyStore ==
    [envs  |-> <<[parent |-> 0, frame |-> FALSE, vars |-> [s \in {} |-> 0],
                  fns |-> EmptyMap, consts |-> {}]>>,
     pairs |-> <<>>,
     live  |-> <<>>,
     dyn   |-> EmptyMap,
     out   |-> <<>>]

NewEnv(st) == Len(st.envs) + 1

os_make_frame(parent, st) ==
    [st EXCEPT !.envs = Append(@, [parent |-> parent, frame |-> TRUE,
                                   vars |-> [s \in {} |-> 0],
                                   fns |-> EmptyMap, consts |-> {}])]

\* The environments from e outward, nearest first.
Chain(e, st) ==
    LET c[i \in 0..Len(st.envs)] ==
          IF i = 0 THEN <<>> ELSE <<i>> \o c[st.envs[i].parent]
    IN  c[e]

\* The nearest environment whose field maps s, or 0.
Owner(s, e, st, maps(_, _)) ==
    LET c == Chain(e, st)
        at == {i \in 1..Len(c) : maps(s, st.envs[c[i]])}
    IN  IF at = {} THEN 0 ELSE c[CHOOSE i \in at : \A j \in at : i <= j]

VarOwner(s, e, st) == Owner(s, e, st, LAMBDA x, env : x \in DOMAIN env.vars)
FnOwner(s, e, st) == Owner(s, e, st, LAMBDA x, env : x \in DOMAIN env.fns)
os_is_constant(s, e, st) ==
    Owner(s, e, st, LAMBDA x, env : x \in env.consts) # 0

os_definition_env(e, st) ==
    LET c == Chain(e, st)
        at == {i \in 1..Len(c) : ~st.envs[c[i]].frame}
    IN  IF at = {} THEN 1 ELSE c[CHOOSE i \in at : \A j \in at : i <= j]

PairOf(s, e, st) == st.envs[VarOwner(s, e, st)].vars[s]

os_get_function(s, e, st) ==
    LET o == FnOwner(s, e, st) IN IF o = 0 THEN Nil ELSE st.envs[o].fns[s]

os_get_function_cell(s, e, st) ==
    LET o == FnOwner(s, e, st) IN IF o = 0 THEN Nil ELSE <<"cell", o, s>>

CellValue(c, st) == st.envs[c[2]].fns[c[3]]

os_set_function(s, fn, e, st) == [st EXCEPT !.envs[e].fns = (s :> fn) @@ @]

os_set_variable(s, v, e, st) ==
    IF s \in DOMAIN st.envs[e].vars
    THEN [st EXCEPT !.pairs[st.envs[e].vars[s]] = v]
    ELSE [st EXCEPT !.pairs = Append(@, v),
                    !.envs[e].vars = (s :> Len(st.pairs) + 1) @@ @]

os_setq_variable(s, v, e, st) ==
    IF VarOwner(s, e, st) # 0
    THEN [st EXCEPT !.pairs[PairOf(s, e, st)] = v]
    ELSE os_set_variable(s, v, e, st)

os_env_add_binding_pair(s, pair, e, st) ==
    [st EXCEPT !.envs[e].vars = (s :> pair) @@ @]

os_setcdr(pair, v, st) == [st EXCEPT !.pairs[pair] = v]

os_mark_constant(s, e, st) == [st EXCEPT !.envs[e].consts = @ \cup {s}]

os_get_dynamic(s, st) == IF s \in DOMAIN st.dyn THEN st.dyn[s] ELSE Nil
os_set_dynamic(s, v, st) == [st EXCEPT !.dyn = (s :> v) @@ @]

(***************************************************************************)
(* The blocks that are live, innermost first.                              *)
(***************************************************************************)
os_live_block_push(name, st) == [st EXCEPT !.live = <<name>> \o @]
os_live_block_restore(saved, st) == [st EXCEPT !.live = saved]
os_live_block_pop(st) == [st EXCEPT !.live = IF @ = <<>> THEN @ ELSE Tail(@)]
os_live_block_p(name, st) == \E i \in 1..Len(st.live) : st.live[i] = name

(***************************************************************************)
(* A condition nobody handles becomes a transfer to the top level; the     *)
(* handlers themselves are Lisp code (signal-condition).                   *)
(***************************************************************************)
os_signal_condition(kind) == Transfer("block", Sym("top"), <<"err", kind>>)
os_signal_undefined_function == os_signal_condition("undefined-function")
os_signal_unbound_variable == os_signal_condition("unbound-variable")
os_signal_arity_error == os_signal_condition("program-error")
os_signal_immutable_binding == os_signal_condition("program-error")
os_signal_control_error == os_signal_condition("control-error")
os_signal_domain_error == os_signal_condition("domain-error")

os_get_variable_checked(s, e, st) ==
    IF VarOwner(s, e, st) # 0 THEN st.pairs[PairOf(s, e, st)]
    ELSE os_signal_unbound_variable

(***************************************************************************)
(* Functions written in C.  They get a list of values and do not look at   *)
(* its length: a missing argument reads as nil.  note stands for a         *)
(* function with an effect outside the heap: it records its argument.      *)
(***************************************************************************)
Natives == {"+", "-", "*", "<", "eq", "cons", "car", "cdr", "null", "list",
            "note", "funcall", "%%apply"}

ListOf(seq) ==
    LET l[i \in 1..(Len(seq) + 1)] ==
          IF i > Len(seq) THEN Nil ELSE Cons(seq[i], l[i + 1])
    IN  l[1]

IsNumber(v) == v[1] = "num"

Arith2(op, x, y) ==
    IF ~IsNumber(x) \/ ~IsNumber(y) THEN os_signal_domain_error
    ELSE CASE op = "+" -> Num(x[2] + y[2])
           [] op = "-" -> Num(x[2] - y[2])
           [] op = "*" -> Num(x[2] * y[2])
           [] op = "<" -> Bool(x[2] < y[2])

\* A fold stops at the first operand that is no number.
RECURSIVE FoldArgs(_, _, _)
FoldArgs(op, acc, args) ==
    IF ~IsCons(args) \/ IsTransfer(acc) THEN acc
    ELSE FoldArgs(op, Arith2(op, acc, args[2]), args[3])

primitive_minus(args) ==
    IF ~IsCons(args) \/ ~IsNumber(args[2]) THEN os_signal_domain_error
    ELSE IF args[3] = Nil THEN Num(0 - args[2][2])
    ELSE FoldArgs("-", args[2], args[3])

os_car_checked(v) == IF IsCons(v) THEN v[2] ELSE os_signal_domain_error
os_cdr_checked(v) == IF IsCons(v) THEN v[3] ELSE os_signal_domain_error

\* What a native other than funcall and %%apply returns.
ApplyNative(name, args) ==
    LET a == cc_car(args)
        b == cc_car(cc_cdr(args))
    IN  CASE name = "+"    -> FoldArgs("+", Num(0), args)
          [] name = "*"    -> FoldArgs("*", Num(1), args)
          [] name = "-"    -> primitive_minus(args)
          [] name = "<"    -> Arith2("<", a, b)
          [] name = "eq"   -> Bool(a = b)
          [] name = "cons" -> Cons(a, b)
          [] name = "car"  -> os_car_checked(a)
          [] name = "cdr"  -> os_cdr_checked(a)
          [] name = "null" -> Bool(a = Nil)
          [] name = "list" -> args
          [] name = "note" -> a

Effect(name, args, st) ==
    IF name = "note" THEN [st EXCEPT !.out = Append(@, cc_car(args))] ELSE st

=============================================================================
