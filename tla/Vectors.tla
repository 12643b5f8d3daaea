------------------------------ MODULE Vectors ------------------------------
(***************************************************************************)
(* Lists, strings and arrays (runtime.c): elt, set-elt, aref, set-aref,    *)
(* subseq, string-append and the functions that make them.                 *)
(*                                                                         *)
(* store holds the objects as the code lays them out: a cons cell, the     *)
(* characters of a string, the dimensions and the data of an array, row    *)
(* after row.  expected says what each object a program holds should       *)
(* contain: a value at each tuple of indices.  Allocation never fails here *)
(* (Heap models that); lists are proper and without cycles, and a string   *)
(* is given characters, as the code does not check either.                 *)
(***************************************************************************)
EXTENDS Fixnum, Sequences, SequencesExt

CONSTANTS
    Symbols,      \* elements of lists and arrays
    Chars,        \* codes of characters
    Shapes,       \* the lists of dimensions programs ask for
    MaxHeld,      \* bound: objects a program holds
    MaxElements   \* bound: elements of all of them

VARIABLES store, expected

vars == <<store, expected>>

Nil == <<"nil">>
Sym(s) == <<"symbol", s>>
Char(c) == <<"char", c>>
Ref(id) == <<"ref", id>>
OutOfRange == <<"error", "index-out-of-range">>
DomainError == <<"error", "domain-error">>

Index(i) == os_make_fixnum_signed(i < 0, IF i < 0 THEN -i ELSE i) \div TAGS
IsRef(v) == v[1] = "ref"
KindOf(v) == IF IsRef(v) THEN store[v[2]].kind ELSE "atom"
car(v) == store[v[2]].car
cdr(v) == store[v[2]].cdr
Total(dims) == FoldLeft(LAMBDA n, d : n * d, 1, dims)

-----------------------------------------------------------------------------
(* Reading.  NthCell is the cell after n cdrs, Nil when the list is over.  *)
RECURSIVE NthCell(_, _)
NthCell(v, n) == IF n = 0 \/ v = Nil THEN v ELSE NthCell(cdr(v), n - 1)

RECURSIVE ListLength(_)
ListLength(v) == IF v = Nil THEN 0 ELSE 1 + ListLength(cdr(v))

primitive_length(v) ==
    CASE v = Nil             -> 0
      [] KindOf(v) = "cons"   -> ListLength(v)
      [] KindOf(v) = "string" -> Len(store[v[2]].chars)
      [] KindOf(v) = "array"  -> Total(store[v[2]].dims)

primitive_elt(v, i) ==
    LET idx == Index(i)
        cell == NthCell(v, idx)
        o == store[v[2]]
    IN  CASE KindOf(v) = "atom"   -> DomainError
          [] KindOf(v) = "cons"   -> IF cell = Nil THEN OutOfRange ELSE car(cell)
          [] KindOf(v) = "string" -> IF idx >= Len(o.chars) THEN OutOfRange ELSE Char(o.chars[idx + 1])
          [] KindOf(v) = "array"  -> IF idx >= Total(o.dims) THEN OutOfRange ELSE o.data[idx + 1]

(* <<offset, whether an index is out of bounds>>.  A missing index is the  *)
(* word of nil, beyond every dimension; further indices are not looked at. *)
array_offset(dims, indices) ==
    LET idx(k) == IF k <= Len(indices) THEN Index(indices[k]) ELSE FIXNUM_SIGN_BIT
        offset[k \in 0 .. Len(dims)] == IF k = 0 THEN 0 ELSE offset[k - 1] * dims[k] + idx(k)
    IN  <<offset[Len(dims)], \E k \in 1 .. Len(dims) : idx(k) >= dims[k]>>

primitive_aref(v, indices) ==
    LET o == store[v[2]]
        at == array_offset(o.dims, indices)
    IN  IF at[2] THEN OutOfRange ELSE o.data[at[1] + 1]

primitive_array_dimensions(v) ==
    CASE KindOf(v) = "string" -> <<Len(store[v[2]].chars)>>
      [] KindOf(v) = "array"  -> store[v[2]].dims
      [] OTHER                -> DomainError

RECURSIVE values_equal(_, _)
values_equal(a, b) ==
    \/ a = b
    \/ /\ IsRef(a) /\ IsRef(b)
       /\ KindOf(a) = KindOf(b)
       /\ LET oa == store[a[2]]
              ob == store[b[2]]
          IN  CASE KindOf(a) = "cons"   -> values_equal(car(a), car(b)) /\ values_equal(cdr(a), cdr(b))
                [] KindOf(a) = "string" -> oa.chars = ob.chars
                [] KindOf(a) = "array"  ->
                     /\ oa.dims = ob.dims
                     /\ \A i \in 1 .. Total(oa.dims) : values_equal(oa.data[i], ob.data[i])

(* Negative, zero or positive, as the first difference says, else by the   *)
(* lengths.                                                                *)
string_compare(a, b) ==
    LET shorter == IF Len(a) < Len(b) THEN Len(a) ELSE Len(b)
        differ == {i \in 1 .. shorter : a[i] # b[i]}
        first == CHOOSE i \in differ : \A j \in differ : i <= j
    IN  IF differ = {} THEN Len(a) - Len(b) ELSE a[first] - b[first]

(* string= and the rest, char= and the rest: each argument and the next.   *)
Relation(name, c) == CASE name = "=" -> c = 0 [] name = "/=" -> c # 0 [] name = "<" -> c < 0
                       [] name = ">" -> c > 0 [] name = "<=" -> c <= 0 [] name = ">=" -> c >= 0
StringsAre(name, strings) ==
    \A k \in 1 .. Len(strings) - 1 : Relation(name, string_compare(strings[k], strings[k + 1]))
char_compare(a, b) == a - b
CharsAre(name, codes) ==
    \A k \in 1 .. Len(codes) - 1 : Relation(name, char_compare(codes[k], codes[k + 1]))

(* The first place at or after start where sub lies in str, or Nil.        *)
primitive_string_index(sub, str, start) ==
    LET at == {i \in start .. Len(str) - Len(sub) : \A j \in 1 .. Len(sub) : str[i + j] = sub[j]}
    IN  IF start > Len(str) \/ Len(sub) > Len(str) - start \/ at = {} THEN Nil
        ELSE <<"fixnum", CHOOSE i \in at : \A j \in at : i <= j>>

primitive_char_index(c, str, start) ==
    LET at == {i \in start .. Len(str) - 1 : str[i + 1] = c}
    IN  IF at = {} THEN Nil ELSE <<"fixnum", CHOOSE i \in at : \A j \in at : i <= j>>

-----------------------------------------------------------------------------
(* Making and writing: the store afterwards, new objects at its end.       *)
Cell(a, d) == [kind |-> "cons", car |-> a, cdr |-> d]
StringOf(chars) == [kind |-> "string", chars |-> chars]
ArrayOf(dims, data) == [kind |-> "array", dims |-> dims, data |-> data]
Cells(vals) == [k \in 1 .. Len(vals) |->
                  Cell(vals[k], IF k = Len(vals) THEN Nil ELSE Ref(Len(store) + k + 1))]

alloc_vector_block(dims, data) == Append(store, ArrayOf(dims, data))
primitive_make_array(dims, init) ==
    alloc_vector_block(dims, [k \in 1 .. Total(dims) |-> init])
primitive_create_string(n, c) == Append(store, StringOf([k \in 1 .. n |-> c]))

Elements(v) == [k \in 1 .. primitive_length(v) |-> primitive_elt(v, k - 1)]
os_make_vector_from_list(v) == alloc_vector_block(<<primitive_length(v)>>, Elements(v))

(* An array of the given rank from lists in lists: the dimensions are      *)
(* those of the first lists, and every list must have them.                *)
RECURSIVE DimsOf(_, _)
DimsOf(rank, v) ==
    IF rank = 0 THEN <<>>
    ELSE <<primitive_length(v)>> \o DimsOf(rank - 1, IF v = Nil THEN Nil ELSE car(v))

RECURSIVE AreLists(_, _)
AreLists(rank, v) ==
    rank > 0 => /\ v = Nil \/ KindOf(v) = "cons"
                /\ v # Nil => AreLists(rank - 1, car(v))

(* The leaves of the lists in order, with Bad for a list of another length.*)
Bad == <<"error", "eval-error">>
RECURSIVE fill_array_from_nested(_, _)
fill_array_from_nested(v, dims) ==
    IF dims = <<>> THEN <<v>>
    ELSE IF (v # Nil /\ KindOf(v) # "cons") \/ primitive_length(v) # Head(dims) THEN <<Bad>>
    ELSE LET below == [k \in 1 .. Head(dims) |-> fill_array_from_nested(Elements(v)[k], Tail(dims))]
         IN  FlattenSeq(below)

NestedIsArray(rank, v) == AreLists(rank, v)
    /\ LET data == fill_array_from_nested(v, DimsOf(rank, v))
       IN  \A k \in DOMAIN data : data[k] # Bad
os_make_array_from_nested_list(rank, v) ==
    alloc_vector_block(DimsOf(rank, v), fill_array_from_nested(v, DimsOf(rank, v)))

primitive_set_elt(obj, v, i) ==
    LET idx == Index(i)
        cell == NthCell(v, idx)
        o == store[v[2]]
    IN  CASE KindOf(v) = "cons"   -> IF cell = Nil THEN store ELSE [store EXCEPT ![cell[2]].car = obj]
          [] KindOf(v) = "string" -> IF idx >= Len(o.chars) THEN store
                                     ELSE [store EXCEPT ![v[2]].chars[idx + 1] = obj[2]]
          [] KindOf(v) = "array"  -> IF idx >= Total(o.dims) THEN store
                                     ELSE [store EXCEPT ![v[2]].data[idx + 1] = obj]

primitive_set_aref(obj, v, indices) ==
    LET at == array_offset(store[v[2]].dims, indices)
    IN  IF at[2] THEN store ELSE [store EXCEPT ![v[2]].data[at[1] + 1] = obj]

(* Mutant: the part of a list that reaches its end is its last cells.      *)
SubseqSharesTail(v, z1, z2) ==
    LET part == [k \in 1 .. z2 - z1 |-> primitive_elt(v, z1 + k - 1)]
    IN  CASE KindOf(v) = "cons"   -> IF z2 # primitive_length(v) THEN store \o Cells(part)
                                     ELSE Append(store, store[NthCell(v, z1)[2]])
          [] KindOf(v) = "string" -> Append(store, StringOf([k \in DOMAIN part |-> part[k][2]]))
          [] KindOf(v) = "array"  -> alloc_vector_block(<<z2 - z1>>, part)

(* A list, string or vector of its own with the elements from z1 up to z2. *)
primitive_subseq(v, z1, z2) ==
    LET part == [k \in 1 .. z2 - z1 |-> primitive_elt(v, z1 + k - 1)]
    IN  CASE KindOf(v) = "cons"   -> store \o Cells(part)
          [] KindOf(v) = "string" -> Append(store, StringOf([k \in DOMAIN part |-> part[k][2]]))
          [] KindOf(v) = "array"  -> alloc_vector_block(<<z2 - z1>>, part)

SubseqInRange(v, z1, z2) == Index(z1) <= Index(z2) /\ Index(z2) <= primitive_length(v)

primitive_string_append(a, b) == Append(store, StringOf(store[a[2]].chars \o store[b[2]].chars))

-----------------------------------------------------------------------------
(* What programs expect: an object is its kind, its dimensions and a value *)
(* at each tuple of indices, and a position counts tuples in order.        *)
Tuples(dims) == {t \in [1 .. Len(dims) -> 0 .. FIXNUM_MAGNITUDE_MASK] :
                    \A k \in 1 .. Len(dims) : t[k] < dims[k]}
TuplesOf == [dims \in Shapes \cup {<<n>> : n \in 0 .. FIXNUM_MAGNITUDE_MASK} |-> Tuples(dims)]
Precedes(s, t) == \E k \in DOMAIN s : s[k] < t[k] /\ \A j \in 1 .. k - 1 : s[j] = t[j]
Position(dims, t) == Cardinality({s \in TuplesOf[dims] : Precedes(s, t)})
TupleAt(dims, i) == CHOOSE t \in TuplesOf[dims] : Position(dims, t) = i

Held == DOMAIN expected
Line(kind, vals) == [kind |-> kind, dims |-> <<Len(vals)>>,
                     at |-> [t \in TuplesOf[<<Len(vals)>>] |-> vals[t[1] + 1]]]
ValueAt(e, i) == e.at[TupleAt(e.dims, i)]

RECURSIVE Meaning(_)
Meaning(v) == IF ~IsRef(v) THEN v
              ELSE LET e == expected[v[2]]
                   IN  <<e.kind, e.dims, [t \in DOMAIN e.at |-> Meaning(e.at[t])]>>

-----------------------------------------------------------------------------
Init == store = <<>> /\ expected = << >>

(* The program holds the object at place id of the new store, meant to be e.*)
Holds(id, new, e) ==
    /\ Cardinality(Held) < MaxHeld
    /\ MapThenSumSet(LAMBDA k : Cardinality(DOMAIN expected[k].at), Held)
           + Cardinality(DOMAIN e.at) <= MaxElements
    /\ store' = new
    /\ expected' = [k \in Held \cup {id} |-> IF k = id THEN e ELSE expected[k]]
New == Len(store) + 1

Values == {Sym(s) : s \in Symbols} \cup {Ref(id) : id \in Held}

MakeList == \E a, b \in Values : \E vals \in {<<a>>, <<a, b>>} :
    Holds(New, store \o Cells(vals), Line("cons", vals))

MakeArray == \E dims \in Shapes, s \in Symbols :
    Holds(New, primitive_make_array(dims, Sym(s)),
          [kind |-> "array", dims |-> dims, at |-> [t \in TuplesOf[dims] |-> Sym(s)]])

CreateString == \E n \in 0 .. 2, c \in Chars :
    Holds(New, primitive_create_string(n, c), Line("string", [k \in 1 .. n |-> Char(c)]))

Vector == \E id \in Held :
    /\ expected[id].kind = "cons"
    /\ Holds(New, os_make_vector_from_list(Ref(id)), [expected[id] EXCEPT !.kind = "array"])

(* What lists in lists of equal lengths stand for.                         *)
NestedArray == \E id \in Held :
    /\ expected[id].kind = "cons"
    /\ NestedIsArray(2, Ref(id))
    /\ LET rows == expected[id]
           row(i) == expected[rows.at[<<i>>][2]]
           dims == <<rows.dims[1], row(0).dims[1]>>
       IN  /\ dims \in Shapes
           /\ Holds(New, os_make_array_from_nested_list(2, Ref(id)),
                    [kind |-> "array", dims |-> dims,
                     at |-> [t \in TuplesOf[dims] |-> row(t[1]).at[<<t[2]>>]]])

Writable(id) == IF expected[id].kind = "string" THEN {Char(c) : c \in Chars}
                ELSE {Sym(s) : s \in Symbols}

SetElt == \E id \in Held : \E obj \in Writable(id) :
    LET e == expected[id] IN
    \E i \in -1 .. Cardinality(DOMAIN e.at) :
        /\ store' = primitive_set_elt(obj, Ref(id), i)
        /\ expected' = IF i \notin 0 .. Cardinality(DOMAIN e.at) - 1 THEN expected
                       ELSE [expected EXCEPT ![id].at[TupleAt(e.dims, i)] = obj]

SetAref == \E id \in Held : \E obj \in Writable(id) :
    LET e == expected[id] IN
    /\ e.kind = "array"
    /\ \E t \in [1 .. Len(e.dims) -> -1 .. 2] :
        /\ store' = primitive_set_aref(obj, Ref(id), t)
        /\ expected' = IF t \in DOMAIN e.at THEN [expected EXCEPT ![id].at[t] = obj] ELSE expected

Subseq == \E id \in Held :
    LET e == expected[id] IN
    \E z1, z2 \in -1 .. Cardinality(DOMAIN e.at) + 1 :
        /\ SubseqInRange(Ref(id), z1, z2)
        /\ e.kind = "cons" => z1 < z2
        /\ Holds(New, primitive_subseq(Ref(id), z1, z2),
                 Line(e.kind, [k \in 1 .. z2 - z1 |-> ValueAt(e, z1 + k - 1)]))

StringAppend == \E a, b \in Held :
    LET x == expected[a]
        y == expected[b]
    IN  /\ x.kind = "string" /\ y.kind = "string"
        /\ x.dims[1] + y.dims[1] <= 3
        /\ Holds(New, primitive_string_append(Ref(a), Ref(b)),
                 Line("string", [k \in 1 .. x.dims[1] + y.dims[1] |->
                     IF k <= x.dims[1] THEN x.at[<<k - 1>>] ELSE y.at[<<k - 1 - x.dims[1]>>]]))

Next == MakeList \/ MakeArray \/ CreateString \/ Vector \/ NestedArray \/ SetElt \/ SetAref
            \/ Subseq \/ StringAppend

Spec == Init /\ [][Next]_vars

-----------------------------------------------------------------------------
(* equal holds of two objects exactly when they mean the same, however     *)
(* they were made, and the order of strings and the search in them agree   *)
(* with equal and subseq.                                                  *)
EqualityExact == \A a, b \in Held :
    /\ values_equal(Ref(a), Ref(b)) = (Meaning(Ref(a)) = Meaning(Ref(b)))
    /\ KindOf(Ref(a)) = "string" /\ KindOf(Ref(b)) = "string" =>
          LET s == store[a].chars
              t == store[b].chars
          IN  /\ StringsAre("=", <<s, t>>) = values_equal(Ref(a), Ref(b))
              /\ StringsAre("<", <<s, t>>) = StringsAre(">", <<t, s>>)
              /\ StringsAre("<=", <<s, t, s>>) = StringsAre("=", <<s, t>>)
              /\ Len(s) = 1 /\ Len(t) = 1 => \A name \in {"=", "/=", "<", ">", "<=", ">="} :
                    StringsAre(name, <<s, t>>) = CharsAre(name, <<s[1], t[1]>>)
              /\ \A start \in 0 .. 2 :
                    LET found == primitive_string_index(s, t, start)
                    IN  /\ found # Nil => SubSeq(t, found[2] + 1, found[2] + Len(s)) = s
                        /\ Len(s) = 1 => found = primitive_char_index(s[1], t, start)

(* Each object reads as the program expects at every index and every tuple *)
(* of indices, an index outside is refused, writing through one object     *)
(* never shows in another, and equal says what the contents say (runtime.c *)
(* primitive_elt, primitive_aref, array_offset, primitive_subseq,          *)
(* values_equal, string_compare, primitive_string_index).                  *)
SequencesExact ==
    /\ EqualityExact
    /\ \A id \in Held :
        LET e == expected[id]
            total == Cardinality(DOMAIN e.at)
        IN  /\ primitive_length(Ref(id)) = total
            /\ \A i \in -1 .. total + 1 :
                  primitive_elt(Ref(id), i) = IF i \in 0 .. total - 1 THEN ValueAt(e, i) ELSE OutOfRange
            /\ e.kind = "array" =>
                  \A t \in [1 .. Len(e.dims) -> -1 .. 2] :
                      primitive_aref(Ref(id), t) = IF t \in DOMAIN e.at THEN e.at[t] ELSE OutOfRange
            /\ e.kind # "cons" => primitive_array_dimensions(Ref(id)) = e.dims
=============================================================================
