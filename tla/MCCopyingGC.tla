----------------------------- MODULE MCCopyingGC -----------------------------
(* Heaps for CopyingGC.  The second family fills the half-space.           *)
EXTENDS CopyingGC, TLC

B == 8192
Fix == 48                      \* a fixnum: tag 0

(***************************************************************************)
(* Two conses, a vector of two elements and a string of 15 characters,     *)
(* whose length word ends in TAG_FORWARD; every way to link them.          *)
(***************************************************************************)
C1 == B + TAG_CONS
C2 == B + 16 + TAG_CONS
V  == B + 32 + TAG_INSTANCE
S  == B + 96 + TAG_STRING
Anything == {NIL, C1, C2, V, S}

LinkedMem(a, b, c, d, e, block) ==
  (B :> <<a, b>>) @@ (B + 16 :> <<c, Fix>>)
  @@ (B + 32 :> <<MAGIC_VECTOR, block, NIL, NIL>>)
  @@ (B + 64 :> <<1, 2, d, e>>)
  @@ (B + 96 :> <<15, 7>>)

LinkedKinds ==
  (B :> TAG_CONS) @@ (B + 16 :> TAG_CONS) @@ (B + 32 :> TAG_INSTANCE)
  @@ (B + 64 :> VECTOR_BLOCK) @@ (B + 96 :> TAG_STRING)

LinkedHeaps ==
  {[mem |-> LinkedMem(a, b, c, d, e, block), roots |-> r, cells |-> <<NIL>>,
    kind |-> LinkedKinds] :
     a \in {NIL, C1, C2, S}, b \in Anything, c \in {C1, V, S}, d \in Anything, e \in {NIL, C1, V},
     block \in {0, B + 64}, r \in {<<C1>>, <<S, V>>, <<NIL, C2, S, C2>>}}

(***************************************************************************)
(* A stream, a symbol, a bignum, functions and an instance of any kind.    *)
(***************************************************************************)
St == B + TAG_INSTANCE          \* stream, struct at +32, buffer at +80
Sy == B + 112 + TAG_SYMBOL      \* symbol, name at +144
Nm == B + 144 + TAG_STRING
Bn == B + 160 + TAG_INSTANCE    \* bignum, limbs at +192
Fn == B + 208 + TAG_INSTANCE    \* native function
Cn == B + 240 + TAG_CONS
X  == B + 256 + TAG_INSTANCE    \* an instance of any other kind

\* Word 3 of a PCB is a stack address and word 2 of a float its bits, which
\* may look like a reference.
OtherKinds(a, b) ==
  {<<m, a, b, Sy>> : m \in {MAGIC_FUNCTION_INTERPRETED, MAGIC_MACRO,
                            MAGIC_BUILTIN_CLASS, MAGIC_STANDARD_CLASS}}
  \cup {<<m, a, b, NIL>> : m \in {MAGIC_BLOCK_EXIT, MAGIC_CLASS_INSTANCE, MAGIC_CATCH_EXIT}}
  \cup {<<MAGIC_PROCESS, Fix, Cn, Sy>>, <<MAGIC_FLOAT, Cn, NIL, NIL>>,
        <<MAGIC_GO_EXIT, Sy, NIL, NIL>>}

KindsMem(buffer, node, pending, limbs, env, x) ==
  (B :> <<MAGIC_STREAM, B + 32, NIL, NIL>>)
  @@ (B + 32 :> <<buffer, IF buffer = 1 THEN B + 80 ELSE 0, 20, node, St, pending>>)
  @@ (B + 80 :> <<5>>)
  @@ (B + 112 :> <<Nm, NIL, NIL, NIL>>) @@ (B + 144 :> <<3, 9>>)
  @@ (B + 160 :> <<MAGIC_BIGNUM, 1, limbs, IF limbs = 0 THEN 0 ELSE B + 192>>)
  @@ (B + 192 :> <<C1, 4>>)
  @@ (B + 208 :> <<MAGIC_FUNCTION_NATIVE, 4096, Fix, env>>)
  @@ (B + 240 :> <<Bn, X>>)
  @@ (B + 256 :> x)

KindsKinds ==
  (B :> TAG_INSTANCE) @@ (B + 32 :> STREAM_STRUCT) @@ (B + 80 :> RAW_BLOCK)
  @@ (B + 112 :> TAG_SYMBOL) @@ (B + 144 :> TAG_STRING)
  @@ (B + 160 :> TAG_INSTANCE) @@ (B + 192 :> RAW_BLOCK)
  @@ (B + 208 :> TAG_INSTANCE) @@ (B + 240 :> TAG_CONS) @@ (B + 256 :> TAG_INSTANCE)

KindsHeaps ==
  UNION {{[mem |-> KindsMem(buffer, node, pending, limbs, env, x), roots |-> r, cells |-> f,
           kind |-> KindsKinds] :
            buffer \in {0, 1}, node \in {NIL, Cn}, pending \in {NIL, X},
            limbs \in {0, 2}, env \in {NIL, Cn}, r \in {<<Sy, St>>, <<X, NIL>>},
            f \in {<<Fn>>, <<NIL, Fn>>}} :
         x \in OtherKinds(Sy, Cn) \cup OtherKinds(St, Fn)}

MCHeaps == LinkedHeaps \cup KindsHeaps
=============================================================================
