------------------------------- MODULE Machine -------------------------------
(***************************************************************************)
(* Compiled code at work: a process runs a program whose functions the     *)
(* compiler has accepted, calls the runtime, interpreted closures and      *)
(* other compiled functions, and the collector may run whenever the        *)
(* runtime allocates.                                                      *)
(*                                                                         *)
(* A collection moves every object.  It updates the cells on the process's *)
(* list of roots and nothing else: a heap value in any other cell of a     *)
(* frame is stale afterwards.  A value in rax never waits across a call.   *)
(*                                                                         *)
(* A program is [defs, setup, args]: functions [name, ps, body], forms     *)
(* evaluated at the top level before, and the arguments of the first       *)
(* function, which is called at the top level.                             *)
(***************************************************************************)
EXTENDS Interpreter, Codegen

CONSTANTS
    Programs,          \* a sequence of programs
    MaxCollections     \* bound: collections during one program

VARIABLES
    prog,      \* the program that runs
    code,      \* its functions, as the compiler left them in memory
    expected,  \* what the evaluator makes of the program
    acts,      \* the stack: [fn, pc, fr]; fr maps offsets to words
    rax,
    head,      \* the list of roots: the first cell, by activation and offset
    st,        \* the store of the runtime
    gcs,       \* collections so far
    done

program == <<prog, code, expected>>
vars == <<program, acts, rax, head, st, gcs, done>>

Ref(a, off) == <<"root", a, off>>
NoRoots == Ref(0, 0)
Stale == <<"stale">>

(***************************************************************************)
(* Programs and what the evaluator makes of them.                          *)
(***************************************************************************)
Ids == 1..Len(Programs)

Code == [p \in Ids |-> [k \in 1..Len(Programs[p].defs) |->
           za_try_compile_defun(Programs[p].defs[k].ps, Programs[p].defs[k].body)]]

NativeFns == [s \in Natives |-> <<"nat", s>>]

RECURSIVE SetUp(_, _)
SetUp(fs, s) == IF fs = <<>> THEN s ELSE SetUp(Tail(fs), os_eval_top_level(fs[1], s)[2])

\* The store in which the functions of program p are defined, each compiled
\* if its number is in compiled.
RECURSIVE Defined(_, _, _, _)
Defined(p, k, s, compiled) ==
    IF k > Len(Programs[p].defs) THEN s
    ELSE LET d == Programs[p].defs[k]
         IN  Defined(p, k + 1,
               os_set_function(d.name, IF k \in compiled THEN <<"cmp", k, d.ps, d.body>>
                                       ELSE <<"clo", d.ps, d.body, 1>>, 1, s), compiled)

StoreOf(p, compiled) ==
    SetUp(Programs[p].setup,
          Defined(p, 1, [EmptyStore EXCEPT !.envs[1].fns = NativeFns], compiled))

InitialStore == [p \in Ids |-> StoreOf(p, {k \in 1..Len(Code[p]) : Code[p][k].ok})]

\* What can be seen of a value: functions all look alike.
RECURSIVE Seen(_)
Seen(v) == IF IsFunction(v) THEN <<"fn">>
           ELSE IF IsCons(v) THEN Cons(Seen(v[2]), Seen(v[3]))
           ELSE IF IsTransfer(v) THEN <<"ct", v[2], v[3], Seen(v[4])>>
           ELSE v

Outcome(v, s) ==
    [value   |-> Seen(v),
     out     |-> [i \in 1..Len(s.out) |-> Seen(s.out[i])],
     globals |-> [x \in DOMAIN s.envs[1].vars |-> Seen(s.pairs[s.envs[1].vars[x]])],
     dynamic |-> [x \in DOMAIN s.dyn |-> Seen(s.dyn[x])],
     live    |-> s.live]

TopCall(p) ==
    <<"call", Programs[p].defs[1].name,
      [i \in 1..Len(Programs[p].args) |-> <<"quote", Programs[p].args[i]>>]>>

Expected ==
    [p \in Ids |->
       Then(os_eval_top_level(TopCall(p), StoreOf(p, {})), LAMBDA v, s : Outcome(v, s))]

(***************************************************************************)
(* The frame of the running function and the list of roots.                *)
(***************************************************************************)
Depth == Len(acts)
Top == acts[Depth]
Word(a, off) == IF off \in DOMAIN acts[a].fr THEN acts[a].fr[off] ELSE Stale
Instr == code[Top.fn].code[Top.pc]

Value(src) ==
    CASE src[1] = "rax"  -> rax
      [] src[1] = "imm"  -> src[2]
      [] src[1] = "slot" -> Word(Depth, src[2])

\* The cells on the list from ref on; fewer than Words, unless it is a ring.
Words == 64
Lost == Ref(-1, -1)
RECURSIVE RootsFrom(_, _)
RootsFrom(ref, n) ==
    IF ref = NoRoots THEN {}
    ELSE IF n = 0 \/ ref[1] # "root" \/ ref[2] > Depth \/ NodeOf(ref[3]) \notin DOMAIN acts[ref[2]].fr
    THEN {Lost}
    ELSE {ref} \cup RootsFrom(acts[ref[2]].fr[NodeOf(ref[3])], n - 1)

Roots == RootsFrom(head, Words)

\* The frames after a collection.
Moved ==
    LET roots == Roots
    IN  [a \in 1..Depth |->
          [acts[a] EXCEPT !.fr =
             [o \in DOMAIN @ |->
                IF Ref(a, o) \notin roots /\ InHeap(@[o]) THEN Stale ELSE @[o]]]]

(***************************************************************************)
(* What the runtime's functions return: the value and the store.           *)
(***************************************************************************)
RECURSIVE nthcdr(_, _)
nthcdr(n, list) == IF n = 0 THEN list ELSE nthcdr(n - 1, cc_cdr(list))

os_setq_variable_checked(s, v, e, s0) ==
    IF os_is_constant(s, e, s0) THEN <<os_signal_immutable_binding, s0>>
    ELSE <<v, os_setq_variable(s, v, e, s0)>>

Helper(h, a, x) ==
    CASE h \in Unaries \cup Binaries \cup {"+", "-", "*"} ->
                                 <<ApplyNative(h, ListOf(a)), st>>
      [] h = "car0"           -> <<cc_car(a[1]), st>>
      [] h = "cdr0"           -> <<cc_cdr(a[1]), st>>
      [] h = "nth"            -> <<cc_car(nthcdr(x, a[1])), st>>
      [] h = "nthcdr"         -> <<nthcdr(x, a[1]), st>>
      [] h = "box"            -> <<<<"pair", Len(st.pairs) + 1>>, [st EXCEPT !.pairs = Append(@, a[1])]>>
      [] h = "unbox"          -> <<st.pairs[a[1][2]], st>>
      [] h = "os_setcdr"      -> <<a[2], os_setcdr(a[1][2], a[2], st)>>
      [] h = "qq_append"      -> <<qq_append(a[1], a[2]), st>>
      [] h = "os_make_frame"  -> <<<<"env", NewEnv(st)>>, os_make_frame(a[1][2], st)>>
      [] h = "os_set_variable" -> <<a[1], os_set_variable(x, a[1], a[2][2], st)>>
      [] h = "os_env_add_binding_pair" ->
           <<a[1], os_env_add_binding_pair(x, a[1][2], a[2][2], st)>>
      [] h = "make_interpreted_function" ->
           <<make_interpreted_function(x[1], x[2], a[1][2]), st>>
      [] h = "os_get_variable_checked" -> <<os_get_variable_checked(x, a[1][2], st), st>>
      [] h = "os_setq_variable_checked" -> os_setq_variable_checked(x, a[1], a[2][2], st)
      [] h = "os_get_function" -> <<os_get_function(x, a[1][2], st), st>>
      [] h = "os_get_function_cell" -> <<os_get_function_cell(x, a[1][2], st), st>>
      [] h = "os_set_function" -> <<a[1], os_set_function(x, a[1], 1, st)>>
      [] h = "os_get_dynamic" -> <<os_get_dynamic(x, st), st>>
      [] h = "os_set_dynamic" -> <<a[1], os_set_dynamic(x, a[1], st)>>
      [] h = "os_live_block_push" -> <<Nil, os_live_block_push(x, st)>>
      [] h = "make_block_exit" -> <<Transfer("block", Sym(x), a[1]), st>>
      [] h = "make_catch_exit" -> <<Transfer("catch", a[1], a[2]), st>>
      [] h = "os_signal_control_error" -> <<os_signal_control_error, st>>
      [] h = "os_signal_arity_error" -> <<os_signal_arity_error, st>>

\* The others only look.
Allocates(h) ==
    h \notin {"car0", "cdr0", "nth", "nthcdr", "unbox", "os_setcdr", "null", "eq",
              "os_get_function", "os_get_function_cell", "os_get_dynamic"}

(***************************************************************************)
(* Steps.                                                                  *)
(***************************************************************************)
At(op) == ~done /\ Instr[1] = op

Goto(n) == [acts EXCEPT ![Depth].pc = @ + 1 + n]
Advance == Goto(0)
Write(off, v) == [Advance EXCEPT ![Depth].fr = (off :> v) @@ @]

MovRax ==
    /\ At("mov")
    /\ rax' = Value(Instr[2]) /\ acts' = Advance
    /\ UNCHANGED <<program, head, st, gcs, done>>

StoreRax ==
    /\ At("st")
    /\ acts' = Write(Instr[2], rax)
    /\ UNCHANGED <<program, rax, head, st, gcs, done>>

Swap ==
    /\ At("swap")
    /\ rax' = Word(Depth, Instr[2]) /\ acts' = Write(Instr[2], rax)
    /\ UNCHANGED <<program, head, st, gcs, done>>

za_gc_link ==
    /\ At("link")
    /\ acts' = Write(NodeOf(Instr[2]), head)
    /\ head' = Ref(Depth, Instr[2])
    /\ UNCHANGED <<program, rax, st, gcs, done>>

za_gc_unlink_node ==
    /\ At("unlinknode")
    /\ head' = Word(Depth, NodeOf(Instr[2])) /\ acts' = Advance
    /\ UNCHANGED <<program, rax, st, gcs, done>>

za_gc_current_head ==
    /\ At("head")
    /\ acts' = Write(Instr[2], head)
    /\ UNCHANGED <<program, rax, head, st, gcs, done>>

za_gc_unlink ==
    /\ At("unlink")
    /\ head' = Word(Depth, Instr[2]) /\ acts' = Advance
    /\ UNCHANGED <<program, rax, st, gcs, done>>

\* A call of the runtime, with or without a collection.
CallHelper ==
    /\ At("call")
    /\ \E r \in {Helper(Instr[2], [i \in 1..Len(Instr[3]) |-> Value(Instr[3][i])], Instr[4])} :
         rax' = r[1] /\ st' = r[2]
    /\ \/ acts' = Advance /\ gcs' = gcs
       \/ /\ Allocates(Instr[2]) /\ gcs < MaxCollections
          /\ acts' = [Moved EXCEPT ![Depth].pc = @ + 1]
          /\ gcs' = gcs + 1
    /\ UNCHANGED <<program, head, done>>

Jumps(op) ==
    CASE op = "jmp"  -> TRUE
      [] op = "jct"  -> IsTransfer(rax)
      [] op = "jnil" -> rax = Nil
      [] op = "jnn"  -> rax # Nil

Jump ==
    /\ ~done /\ Instr[1] \in {"jmp", "jct", "jnil", "jnn"}
    /\ acts' = Goto(IF Jumps(Instr[1]) THEN Instr[2] ELSE 0)
    /\ UNCHANGED <<program, rax, head, st, gcs, done>>

CheckArity ==
    /\ At("arity")
    /\ LET args == Word(Depth, ARGS_VAL)
           n == Instr[2]
           ok == /\ n > 0 => nthcdr(n - 1, args) # Nil
                 /\ Instr[3] \/ nthcdr(n, args) = Nil
       IN  acts' = Goto(IF ok THEN 0 ELSE Instr[4])
    /\ UNCHANGED <<program, rax, head, st, gcs, done>>

PopBlock ==
    /\ At("popblock")
    /\ st' = os_live_block_pop(st) /\ acts' = Advance
    /\ UNCHANGED <<program, rax, head, gcs, done>>

BlockValue ==
    /\ At("blockval")
    /\ rax' = IF IsTransfer(rax) /\ rax[3] = Sym(Instr[2]) THEN rax[4] ELSE rax
    /\ acts' = Advance
    /\ UNCHANGED <<program, head, st, gcs, done>>

CatchValue ==
    /\ At("catchval")
    /\ rax' = IF IsTransfer(rax) /\ rax[2] = "catch" /\ rax[3] = Word(Depth, Instr[2])
              THEN rax[4] ELSE rax
    /\ acts' = Advance
    /\ UNCHANGED <<program, head, st, gcs, done>>

GoExit ==
    /\ At("goexit")
    /\ LET go == rax[2] = "go" /\ rax[3] = Sym(Instr[3])
       IN  /\ acts' = Goto(IF go THEN Instr[4] ELSE 0)
           /\ head' = IF go THEN Word(Depth, NodeOf(Instr[2])) ELSE head
    /\ UNCHANGED <<program, rax, st, gcs, done>>

(***************************************************************************)
(* Calls.                                                                  *)
(***************************************************************************)
Undefined == <<"undefined">>
Callee ==
    LET cell == Word(Depth, FN_VAL)
    IN  IF cell[1] = "cell" THEN CellValue(cell, st) ELSE Undefined

IfFixed ==
    /\ At("iffixed")
    /\ acts' = Goto(IF Callee[1] = "cmp" /\ code[Callee[2]].fixed = Instr[2]
                    THEN 0 ELSE Instr[3])
    /\ UNCHANGED <<program, rax, head, st, gcs, done>>

FixedEntry(k, args) ==
    [fn |-> k, pc |-> 1,
     fr |-> (ENV_VAL :> <<"env", 1>>)
              @@ [o \in {za_param_val_off(i - 1) : i \in 1..Len(args)} |->
                    args[(o - za_param_val_off(0)) \div 24 + 1]]]

ConsEntry(k, args) ==
    [fn |-> k, pc |-> code[k].cons,
     fr |-> (ENV_VAL :> <<"env", 1>>) @@ (ARGS_VAL :> args)]

ArgValues == [i \in 1..Len(Instr[2]) |-> Word(Depth, Instr[2][i])]

CallFixed ==
    /\ At("callfixed")
    /\ acts' = Append(Advance, FixedEntry(Callee[2], ArgValues))
    /\ UNCHANGED <<program, rax, head, st, gcs, done>>

TailFixed ==
    /\ At("tailfixed")
    /\ acts' = [acts EXCEPT ![Depth] = FixedEntry(Callee[2], ArgValues)]
    /\ UNCHANGED <<program, rax, head, st, gcs, done>>

\* The function that a chain of funcall and apply ends in, and its arguments.
RECURSIVE Target(_, _)
Target(fn, args) ==
    IF fn = <<"nat", "funcall">> THEN Target(cc_car(args), cc_cdr(args))
    ELSE IF fn = <<"nat", "%%apply">> THEN Target(cc_car(args), cc_car(cc_cdr(args)))
    ELSE <<fn, args>>

\* Leave the frame: the result goes to the caller, or to the top level.
Leave(v, stack, s) ==
    /\ rax' = v
    /\ acts' = stack
    /\ st' = IF stack = <<>> THEN os_live_block_restore(<<>>, s) ELSE s
    /\ done' = (stack = <<>>)

\* os_apply_via_cell on the list in ACC_VAL; stack is what is left of ours.
Apply(stack) ==
    LET fn == Callee
        args == Word(Depth, ACC_VAL)
    IN  \E t \in {Target(fn, args)} :
          IF t[1][1] = "cmp"
          THEN /\ acts' = Append(stack, ConsEntry(t[1][2], t[2]))
               /\ UNCHANGED <<rax, st, done>>
          ELSE \E r \in {IF fn = Undefined THEN <<os_signal_undefined_function, st>>
                         ELSE apply_function(t[1], t[2], 1, st)} : Leave(r[1], stack, r[2])

\* With a collection while the callee runs, or none.
ApplyCell ==
    /\ At("applycell")
    /\ \/ Apply(Advance) /\ gcs' = gcs
       \/ /\ gcs < MaxCollections /\ gcs' = gcs + 1
          /\ Apply([Moved EXCEPT ![Depth].pc = @ + 1])
    /\ UNCHANGED <<program, head>>

TailCons ==
    /\ At("tailcons")
    /\ \/ Apply(SubSeq(acts, 1, Depth - 1)) /\ gcs' = gcs
       \/ /\ gcs < MaxCollections /\ gcs' = gcs + 1
          /\ Apply(SubSeq(Moved, 1, Depth - 1))
    /\ UNCHANGED <<program, head>>

Return ==
    /\ At("ret")
    /\ Leave(rax, SubSeq(acts, 1, Depth - 1), st)
    /\ UNCHANGED <<program, head, gcs>>

Init ==
    /\ prog \in Ids
    /\ code = Code[prog] /\ expected = Expected[prog]
    /\ acts = <<[fn |-> 1, pc |-> code[1].cons,
                 fr |-> (ENV_VAL :> <<"env", 1>>) @@ (ARGS_VAL :> ListOf(Programs[prog].args))]>>
    /\ rax = Nil /\ head = NoRoots
    /\ st = os_live_block_push("top", InitialStore[prog])
    /\ gcs = 0 /\ done = FALSE

Finished == done /\ UNCHANGED vars

Next ==
    \/ MovRax \/ StoreRax \/ Swap \/ CallHelper \/ Jump \/ CheckArity
    \/ za_gc_link \/ za_gc_unlink_node \/ za_gc_current_head \/ za_gc_unlink
    \/ PopBlock \/ BlockValue \/ CatchValue \/ GoExit
    \/ IfFixed \/ CallFixed \/ TailFixed \/ ApplyCell \/ TailCons \/ Return
    \/ Finished

Spec == Init /\ [][Next]_vars /\ WF_vars(Next)

(***************************************************************************)
(* Properties.                                                             *)
(***************************************************************************)

\* The first function of every program is one the compiler accepts, and no
\* cell ever holds a word of the wrong kind.
TypeOK ==
    /\ prog \in Ids /\ code[1].ok
    /\ gcs \in 0..MaxCollections /\ done \in BOOLEAN
    /\ done <=> acts = <<>>
    /\ \A a \in 1..Depth : acts[a].pc \in 1..Len(code[acts[a].fn].code)

\* A compiled function does what the evaluator does with its definition:
\* the same value or error, the same effects in the same order, the same
\* global and dynamic variables, and no block is left live.
ResultAgrees ==
    done => Outcome(IF IsTransfer(rax) /\ rax[3] = Sym("top") THEN rax[4] ELSE rax, st)
              = expected

\* No instruction uses a value that a collection has left behind.
Sources ==
    CASE Instr[1] = "mov"  -> {Instr[2]}
      [] Instr[1] = "call" -> RangeOf(Instr[3])
      [] Instr[1] \in {"swap", "catchval"} -> {Slot(Instr[2])}
      [] Instr[1] \in {"callfixed", "tailfixed"} -> {Slot(o) : o \in RangeOf(Instr[2])} \cup {Slot(FN_VAL)}
      [] Instr[1] \in {"applycell", "tailcons"} -> {Slot(FN_VAL), Slot(ACC_VAL)}
      [] Instr[1] = "iffixed" -> {Slot(FN_VAL)}
      [] Instr[1] = "arity" -> {Slot(ARGS_VAL)}
      [] OTHER -> {}
NoStaleUse == ~done => \A s \in Sources : Value(s) # Stale

\* A cell that is on the list of roots is not linked again: two forms that
\* are open at the same time have cells of their own.
LinkedOnce == At("link") => Ref(Depth, Instr[2]) \notin Roots

\* The list of roots ends, its cells belong to frames that are still on the
\* stack (none is left when the program has returned), and none of them holds
\* a value a collection has left behind.
RootsEnd ==
    LET roots == Roots
    IN  Lost \notin roots /\ \A r \in roots : Word(r[2], r[3]) # Stale

\* Compiled code returns.
Terminates == <>done

=============================================================================
