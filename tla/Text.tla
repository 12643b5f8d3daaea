-------------------------------- MODULE Text --------------------------------
(***************************************************************************)
(* The text of objects: the printer and format (print.c, format.c), the    *)
(* reader (reader.c), and the two loops that read a stream to its end,     *)
(* calls of read (stream_lisp.c cc_read) and load (load.c).                *)
(*                                                                         *)
(* A program writes forms to a file; then another reads or loads it.       *)
(* Characters are strings of length one.  Floating point numbers are only  *)
(* recognised, not converted, and evaluation is left to Interpreter.       *)
(***************************************************************************)
EXTENDS Bignum

CONSTANTS
    READER_TOKEN_MAX,   \* size of the reader's token buffers (128)
    CHAR_NAME_MAX,      \* size of its buffer for names of characters (16)
    Forms,              \* what may be written: format string, argument, meaning
    MaxWritten          \* bound: calls of format

VARIABLES
    text,      \* the characters of the file
    column,    \* the column of the stream written to
    written,   \* what reading them should give
    open,      \* the last token written is not closed by a character
    writes,    \* calls of format
    mode,      \* write; read or load; then how that ended
    at,        \* the next character of the stream
    limit,     \* the characters the stream yields before it fails
    got,       \* what was read, or evaluated
    lost       \* load dropped a character that was not a blank

vars == <<text, column, written, open, writes, mode, at, limit, got, lost>>

(***************************************************************************)
(* The objects that have a text, apart from integers (Bignum): what the    *)
(* tests of print.c tell apart.  A name or a string is the sequence of its *)
(* characters, an array its dimensions and its elements in order.          *)
(***************************************************************************)
Nil == <<"nil">>
Symbol(name) == <<"symbol", name>>
Str(chars) == <<"string", chars>>
Char(c) == <<"char", c>>
Pair(a, d) == <<"cons", a, d>>
Array(dims, data) == <<"array", dims, data>>

(* The proper list of a sequence of objects.                               *)
List(vals) == FoldRight(LAMBDA v, l : Pair(v, l), vals, Nil)

(* The character, which TLA+ strings cannot hold.                          *)
Backquote == "backquote"

ReadError == <<"read-error">>
Dot == Symbol(<<".">>)

(* F applied to v, v evaluated once.                                       *)
With(v, F(_)) == CHOOSE r \in {F(x) : x \in {v}} : TRUE

Digits == <<"0", "1", "2", "3", "4", "5", "6", "7", "8", "9", "A", "B", "C", "D", "E", "F">>
LowerCase == <<"a", "b", "c", "d", "e", "f", "n", "s", "x">>
UpperCase == <<"A", "B", "C", "D", "E", "F", "N", "S", "X">>
Upcase(c) == IF Contains(LowerCase, c)
             THEN UpperCase[CHOOSE i \in DOMAIN LowerCase : LowerCase[i] = c] ELSE c
digit_value_in_radix(c, radix) ==
    LET at_ == {i \in 1 .. radix : Digits[i] = c \/ (i > 10 /\ LowerCase[i - 10] = c)}
    IN  IF at_ = {} THEN -1 ELSE (CHOOSE i \in at_ : TRUE) - 1

is_whitespace(c) == c \in {" ", "\t", "\n", "\r"}
is_delimiter(c) == is_whitespace(c) \/ c \in {"(", ")", "\"", "'", Backquote, ",", ";"}
is_digit(c) == digit_value_in_radix(c, 10) >= 0

-----------------------------------------------------------------------------
(* The printer: the characters of an object, escaped for the reader or not.*)
RECURSIVE DigitsOf(_, _)
DigitsOf(n, radix) == IF n < radix THEN <<Digits[n + 1]>>
                      ELSE Append(DigitsOf(n \div radix, radix), Digits[(n % radix) + 1])

RECURSIVE LimbDigits(_)
LimbDigits(limbs) ==
    IF limbs = <<0>> THEN <<>>
    ELSE With(mag_divmod_small(limbs, 10), LAMBDA qr :
             Append(LimbDigits(qr[1]), Digits[qr[2] + 1]))

Minus(negative) == IF negative THEN <<"-">> ELSE <<>>
print_fixnum(w, radix) == Minus(os_fixnum_is_negative(w)) \o DigitsOf(os_fixnum_magnitude(w), radix)
print_bignum(v) == Minus(v[2]) \o LimbDigits(v[3])

(* Mutant: the backslash is not escaped.                                   *)
PrintStringEscapesQuoteOnly(chars, escaped) ==
    IF ~escaped THEN chars
    ELSE <<"\"">> \o FlattenSeq([k \in DOMAIN chars |->
                        IF chars[k] = "\"" THEN <<"\\", chars[k]>> ELSE <<chars[k]>>])
             \o <<"\"">>

print_string(chars, escaped) ==
    IF ~escaped THEN chars
    ELSE <<"\"">> \o FlattenSeq([k \in DOMAIN chars |->
                        IF chars[k] \in {"\"", "\\"} THEN <<"\\", chars[k]>> ELSE <<chars[k]>>])
             \o <<"\"">>

NameOf(c) == CASE c = " "  -> <<"s", "p", "a", "c", "e">>
               [] c = "\n" -> <<"n", "e", "w", "l", "i", "n", "e">>
               [] c = "\t" -> <<"t", "a", "b">>
               [] OTHER    -> <<c>>

Spaced(texts) == FlattenSeq([k \in DOMAIN texts |-> IF k = 1 THEN texts[k] ELSE <<" ">> \o texts[k]])

RECURSIVE print_value(_, _), print_list(_, _, _), print_array_level(_, _, _)
print_value(v, escaped) ==
    CASE v[1] = "nil"    -> <<"N", "I", "L">>
      [] v[1] = "fixnum" -> print_fixnum(v[2], 10)
      [] v[1] = "bignum" -> print_bignum(v)
      [] v[1] = "symbol" -> v[2]
      [] v[1] = "string" -> print_string(v[2], escaped)
      [] v[1] = "char"   -> IF escaped THEN <<"#", "\\">> \o NameOf(v[2]) ELSE <<v[2]>>
      [] v[1] = "cons"   -> <<"(">> \o print_list(v, escaped, TRUE) \o <<")">>
      [] v[1] = "array"  -> (IF Len(v[2]) = 1 THEN <<"#">>
                             ELSE <<"#">> \o DigitsOf(Len(v[2]), 10) \o <<"A">>
                                      \o (IF v[2] = <<>> THEN <<" ">> ELSE <<>>))
                            \o print_array_level(v[2], v[3], escaped)

print_list(v, escaped, first) ==
    IF v = Nil THEN <<>>
    ELSE IF v[1] # "cons" THEN <<" ", ".", " ">> \o print_value(v, escaped)
    ELSE (IF first THEN <<>> ELSE <<" ">>) \o print_value(v[2], escaped)
             \o print_list(v[3], escaped, FALSE)

print_array_level(dims, data, escaped) ==
    IF dims = <<>> THEN print_value(data[1], escaped)
    ELSE LET below == FoldLeft(LAMBDA n, d : n * d, 1, Tail(dims))
         IN  <<"(">> \o Spaced([k \in 1 .. Head(dims) |->
                 print_array_level(Tail(dims), SubSeq(data, (k - 1) * below + 1, k * below), escaped)])
                 \o <<")">>

-----------------------------------------------------------------------------
(* format: the characters a format string gives.                           *)
format_integer_write(v, radix) ==
    IF is_bignum(v) THEN print_bignum(v) ELSE print_fixnum(v[2], radix)

ColumnAfter(col, chars) ==
    FoldLeft(LAMBDA n, c : IF c = "\n" THEN 0 ELSE n + 1, col, chars)

Radix(d, num) == CASE d = "B" -> 2 [] d = "O" -> 8 [] d = "X" -> 16 [] d = "D" -> 10
                   [] d = "R" -> IF num = -1 THEN 10 ELSE num

(* What one directive writes at a column; those that print take obj.       *)
Directive(d, num, obj, col) ==
    CASE d = "A" -> print_value(obj, FALSE)
      [] d = "S" -> print_value(obj, TRUE)
      [] d = "C" -> <<obj[2]>>
      [] d \in {"B", "O", "X", "D", "R"} -> format_integer_write(obj, Radix(d, num))
      [] d = "T" -> [k \in 1 .. IF num > col THEN num - col ELSE 1 |-> " "]
      [] d = "%" -> <<"\n">>
      [] d = "&" -> IF col # 0 THEN <<"\n">> ELSE <<>>
      [] d = "~" -> <<"~">>
      [] OTHER   -> <<>>
TakesObject(d) == d \in {"A", "S", "C", "B", "O", "X", "D", "R"}

RECURSIVE Format(_, _, _, _)
Format(fmt, objs, out, col) ==
    IF fmt = <<>> \/ fmt = <<"~">> THEN out
    ELSE IF Head(fmt) # "~"
    THEN Format(Tail(fmt), objs, Append(out, Head(fmt)), ColumnAfter(col, <<Head(fmt)>>))
    ELSE LET numbered == is_digit(fmt[2])
             num == IF numbered THEN digit_value_in_radix(fmt[2], 10) ELSE -1
             rest == IF numbered THEN SubSeq(fmt, 3, Len(fmt)) ELSE Tail(fmt)
             d == Head(rest)
         IN  IF rest = <<>> THEN out
             ELSE With(Directive(d, num, Head(Append(objs, Nil)), col), LAMBDA chars :
                      Format(Tail(rest), IF TakesObject(d) /\ objs # <<>> THEN Tail(objs) ELSE objs,
                             out \o chars, ColumnAfter(col, chars)))
cc_format(fmt, objs) == Format(fmt, objs, <<>>, column)

-----------------------------------------------------------------------------
(* The reader.  An operator that reads from place p returns the object,    *)
(* the place after it and whether the character there was looked at.       *)
has_more(p) == p <= limit
Fail(p, ahead) == <<ReadError, p, ahead /\ has_more(p)>>
Got(v, p) == <<v, p, FALSE>>

RECURSIVE LineEnd(_), skip_whitespace(_), TokenEnd(_), DigitsEnd(_)
LineEnd(p) == IF has_more(p) /\ text[p] # "\n" THEN LineEnd(p + 1) ELSE p
skip_whitespace(p) ==
    IF ~has_more(p) THEN p
    ELSE IF is_whitespace(text[p]) THEN skip_whitespace(p + 1)
    ELSE IF text[p] = ";" THEN skip_whitespace(LineEnd(p))
    ELSE p
TokenEnd(p) == IF has_more(p) /\ ~is_delimiter(text[p]) THEN TokenEnd(p + 1) ELSE p
DigitsEnd(p) == IF has_more(p) /\ is_digit(text[p]) THEN DigitsEnd(p + 1) ELSE p

Least(m, n) == IF m < n THEN m ELSE n
Token(p, end) == SubSeq(text, p, Least(end - 1, p + READER_TOKEN_MAX - 2))

os_make_symbol(token) ==
    LET name == [k \in DOMAIN token |-> Upcase(token[k])]
    IN  IF name = <<"N", "I", "L">> THEN Nil ELSE Symbol(name)

(* The integer of the digits of a token, its sign first if it has one.     *)
IsSigned(token) == token # <<>> /\ token[1] \in {"+", "-"}
Unsigned(token) == IF IsSigned(token) THEN Tail(token) ELSE token
IntegerOf(token, radix) ==
    os_make_integer(IsSigned(token) /\ token[1] = "-",
        FoldLeft(LAMBDA limbs, c : mag_mul_small_add_small(limbs, radix, digit_value_in_radix(c, radix)),
                 <<0>>, Unsigned(token)))
AreDigits(chars, radix) ==
    chars # <<>> /\ \A k \in DOMAIN chars : digit_value_in_radix(chars[k], radix) >= 0

(* Digits, then a point and digits, an exponent, or both.                  *)
Marker(c) == Upcase(c) \in {"E", "F", "D"}
parse_float_token(chars) == \E i \in 1 .. Len(chars), j \in 1 .. Len(chars) :
    LET point == SubSeq(chars, i + 1, j)
        exponent == SubSeq(chars, j + 1, Len(chars))
    IN  /\ i <= j /\ AreDigits(SubSeq(chars, 1, i), 10)
        /\ point # <<>> => point[1] = "." /\ AreDigits(Tail(point), 10)
        /\ exponent # <<>> => Marker(exponent[1]) /\ AreDigits(Unsigned(Tail(exponent)), 10)
        /\ point \o exponent # <<>>

AtomOf(token) ==
    LET chars == Unsigned(token)
        floatChars == \A k \in DOMAIN chars :
                          is_digit(chars[k]) \/ Marker(chars[k]) \/ chars[k] \in {".", "+", "-"}
        hasDigit == \E k \in DOMAIN chars : is_digit(chars[k])
    IN  IF AreDigits(chars, 10) THEN IntegerOf(token, 10)
        ELSE IF token \in {<<"1", "+">>, <<"1", "-">>} THEN os_make_symbol(token)
        ELSE IF ~(floatChars /\ hasDigit) THEN os_make_symbol(token)
        ELSE IF parse_float_token(chars) THEN <<"float", token>>
        ELSE IF \E k \in DOMAIN chars : Upcase(chars[k]) \in {"F", "D"} THEN os_make_symbol(token)
        ELSE ReadError

read_atom(p) == With(TokenEnd(p), LAMBDA end : <<AtomOf(Token(p, end)), end, has_more(end)>>)

read_radix_integer(p, radix) == With(TokenEnd(p), LAMBDA end :
    IF AreDigits(Unsigned(Token(p, end)), radix)
    THEN <<IntegerOf(Token(p, end), radix), end, has_more(end)>>
    ELSE Fail(end, TRUE))

CharNames == {" ", "\n", "\t"}
read_char_literal(p) ==
    IF ~has_more(p) THEN Fail(p, TRUE)
    ELSE With(Least(TokenEnd(p + 1), p + CHAR_NAME_MAX - 1), LAMBDA end :
             LET name == [k \in 1 .. end - p |-> Upcase(text[p + k - 1])]
                 named == {c \in CharNames : [k \in DOMAIN NameOf(c) |-> Upcase(NameOf(c)[k])] = name}
                 ahead == has_more(end) /\ end < p + CHAR_NAME_MAX - 1
             IN  IF end = p + 1 THEN <<Char(text[p]), end, ahead>>
                 ELSE IF named = {} THEN Fail(end, ahead)
                 ELSE <<Char(CHOOSE c \in named : TRUE), end, ahead>>)

RECURSIVE read_string(_, _)
read_string(p, chars) ==
    IF ~has_more(p) \/ (text[p] = "\\" /\ ~has_more(p + 1)) THEN Fail(p, FALSE)
    ELSE IF text[p] = "\"" THEN Got(Str(chars), p + 1)
    ELSE LET c == IF text[p] = "\\" THEN text[p + 1] ELSE text[p]
         IN  read_string(IF text[p] = "\\" THEN p + 2 ELSE p + 1,
                         IF Len(chars) < READER_TOKEN_MAX - 1 THEN Append(chars, c) ELSE chars)

(* Arrays from lists in lists (os_make_array_from_nested_list).            *)
RECURSIVE is_proper_list(_), ListItems(_), DimsOf(_, _), Leaves(_, _)
is_proper_list(v) == v = Nil \/ (v[1] = "cons" /\ is_proper_list(v[3]))
ListItems(v) == IF v = Nil THEN <<>> ELSE <<v[2]>> \o ListItems(v[3])
DimsOf(rank, v) == IF rank = 0 THEN <<>>
                   ELSE IF ~is_proper_list(v) THEN <<-1>>
                   ELSE <<Len(ListItems(v))>> \o DimsOf(rank - 1, IF v = Nil THEN Nil ELSE v[2])
Leaves(dims, v) ==
    IF dims = <<>> THEN <<v>>
    ELSE IF ~is_proper_list(v) THEN <<ReadError>>
    ELSE IF Len(ListItems(v)) # Head(dims) THEN <<ReadError>>
    ELSE FlattenSeq([k \in 1 .. Head(dims) |-> Leaves(Tail(dims), ListItems(v)[k])])
ArrayFromLists(rank, v) ==
    With(<<DimsOf(rank, v)>>, LAMBDA d :
        IF Contains(d[1], -1) \/ Contains(Leaves(d[1], v), ReadError) THEN ReadError
        ELSE Array(d[1], Leaves(d[1], v)))

RECURSIVE read_expr(_), read_list_rest(_, _)
(* The rest of a list after its opening parenthesis.                       *)
read_list_rest(place, first) == With(skip_whitespace(place), LAMBDA p :
    IF ~has_more(p) THEN Fail(p, FALSE)
    ELSE IF text[p] = ")" THEN Got(Nil, p + 1)
    ELSE With(read_expr(p), LAMBDA elem :
        IF elem[1] = ReadError THEN elem
        ELSE IF elem[1] # Dot
        THEN With(read_list_rest(elem[2], FALSE), LAMBDA rest :
                 IF rest[1] = ReadError THEN rest ELSE Got(Pair(elem[1], rest[1]), rest[2]))
        ELSE IF first THEN Fail(elem[2], TRUE)
        ELSE With(skip_whitespace(elem[2]), LAMBDA q :
            IF ~has_more(q) THEN Fail(q, FALSE)
            ELSE With(read_expr(q), LAMBDA cdr :
                IF cdr[1] = ReadError THEN cdr
                ELSE With(skip_whitespace(cdr[2]), LAMBDA end :
                    IF ~has_more(end) THEN Fail(end, FALSE)
                    ELSE IF text[end] # ")" THEN Fail(end, TRUE)
                    ELSE Got(cdr[1], end + 1))))))

(* A form after a prefix, wrapped in a list with the prefix's name.        *)
Wrapped(place, name) == With(skip_whitespace(place), LAMBDA p :
    IF ~has_more(p) THEN Fail(p, FALSE)
    ELSE With(read_expr(p), LAMBDA form :
             IF form[1] = ReadError THEN form
             ELSE <<List(<<Symbol(name), form[1]>>), form[2], form[3]>>))

ReadArray(place) == With(DigitsEnd(place), LAMBDA p :
    IF ~has_more(p) THEN Fail(p, FALSE)
    ELSE IF Upcase(text[p]) # "A" THEN Fail(p + 1, FALSE)
    ELSE With(skip_whitespace(p + 1), LAMBDA q :
        IF ~has_more(q) THEN Fail(q, FALSE)
        ELSE With(read_expr(q), LAMBDA form :
            IF form[1] = ReadError THEN form
            ELSE <<ArrayFromLists(Value(IntegerOf(SubSeq(text, place, p - 1), 10)), form[1]),
                   form[2], form[3]>>)))

ReadSharp(p) ==
    IF ~has_more(p) THEN Fail(p, FALSE)
    ELSE CASE text[p] = "'"  -> Wrapped(p + 1, <<"FUNCTION">>)
           [] text[p] = "\\" -> read_char_literal(p + 1)
           [] text[p] \in {"b", "B"} -> read_radix_integer(p + 1, 2)
           [] text[p] \in {"o", "O"} -> read_radix_integer(p + 1, 8)
           [] text[p] \in {"x", "X"} -> read_radix_integer(p + 1, 16)
           [] text[p] = "(" -> With(read_list_rest(p + 1, TRUE), LAMBDA list :
                                   IF list[1] = ReadError \/ ~is_proper_list(list[1])
                                   THEN <<ReadError, list[2], list[3]>>
                                   ELSE Got(ArrayFromLists(1, list[1]), list[2]))
           [] is_digit(text[p]) -> ReadArray(p)
           [] OTHER -> Fail(p, TRUE)

read_expr(p) ==
    LET splicing == has_more(p + 1) /\ text[p + 1] = "@" IN
    CASE text[p] = "("  -> read_list_rest(p + 1, TRUE)
      [] text[p] = ")"  -> Fail(p + 1, FALSE)
      [] text[p] = "\"" -> read_string(p + 1, <<>>)
      [] text[p] = "'"  -> Wrapped(p + 1, <<"QUOTE">>)
      [] text[p] = Backquote  -> Wrapped(p + 1, <<"QUASIQUOTE">>)
      [] text[p] = ","  -> IF splicing THEN Wrapped(p + 2, <<"UNQUOTE-SPLICING">>)
                                       ELSE Wrapped(p + 1, <<"UNQUOTE">>)
      [] text[p] = "#"  -> ReadSharp(p + 1)
      [] OTHER          -> read_atom(p)

(* <<object, next place, whether the character there was taken from the    *)
(* stream, whether the stream was at its end>>.                            *)
os_read_stream_ex == With(skip_whitespace(at), LAMBDA p :
    IF has_more(p) THEN Append(read_expr(p), FALSE) ELSE <<Nil, p, FALSE, TRUE>>)

(* The number a string holds and nothing else.                             *)
os_parse_number == With(read_expr(1), LAMBDA r :
    IF ~has_more(r[2]) /\ is_number_val(r[1]) THEN r[1] ELSE Error("parse"))

-----------------------------------------------------------------------------
Init ==
    /\ text = <<>> /\ column = 0 /\ written = <<>> /\ open = FALSE /\ writes = 0
    /\ mode = "write" /\ at = 1 /\ limit = 0 /\ got = <<>> /\ lost = FALSE

(* A token that is not closed is followed by a character that closes it.   *)
Write ==
    /\ mode = "write" /\ writes < MaxWritten
    /\ \E form \in Forms : \E out \in {cc_format(form.fmt, form.objs)} :
         /\ open => is_delimiter(out[1])
         /\ text' = text \o out
         /\ limit' = Len(text')
         /\ column' = ColumnAfter(column, out)
         /\ written' = written \o form.means
         /\ open' = (~is_whitespace(Last(out)) /\ form.closed = FALSE)
    /\ writes' = writes + 1
    /\ UNCHANGED <<mode, at, got, lost>>

StartReading ==
    /\ mode = "write" /\ writes > 0
    /\ mode' = "read"
    /\ UNCHANGED <<text, column, written, open, writes, at, limit, got, lost>>

(* The stream may fail: then it yields only the characters before.         *)
StartLoading == \E n \in 0 .. Len(text) :
    /\ mode = "write" /\ writes > 0
    /\ mode' = "load" /\ limit' = n
    /\ UNCHANGED <<text, column, written, open, writes, at, got, lost>>

(* A character taken and not used goes back into the stream's lookahead.   *)
cc_read ==
    /\ mode = "read"
    /\ \E r \in {os_read_stream_ex} :
         /\ mode' = IF r[4] THEN "end" ELSE "read"
         /\ got' = IF r[4] THEN got ELSE Append(got, r[1])
         /\ at' = r[2]
    /\ UNCHANGED <<text, column, written, open, writes, limit, lost>>

(* Reading nil met the end of the stream: () is read without looking on.   *)
Tried(r) == ~has_more(r[2]) /\ (r[4] \/ text[r[2] - 1] # ")")

(* Mutant: the end of the stream is not asked for an error.                *)
LoadIgnoresError ==
    /\ mode = "load"
    /\ \E r \in {os_read_stream_ex} :
         \/ /\ r[1] = ReadError
            /\ mode' = "syntax error"
            /\ UNCHANGED <<at, got, lost>>
         \/ /\ r[1] = Nil
            /\ mode' = "loaded"
            /\ UNCHANGED <<at, got, lost>>
         \/ /\ r[1] # ReadError /\ r[1] # Nil
            /\ got' = Append(got, r[1])
            /\ at' = IF r[3] THEN r[2] + 1 ELSE r[2]
            /\ lost' = (lost \/ (r[3] /\ ~is_whitespace(text[r[2]])))
            /\ UNCHANGED mode
    /\ UNCHANGED <<text, column, written, open, writes, limit>>

(* One turn of load's loop; a form whose evaluation is aborted is reported *)
(* and the next one read.  os_read_stream forgets a character taken.       *)
cc_load ==
    /\ mode = "load"
    /\ \E r \in {os_read_stream_ex} :
         \/ /\ r[1] = ReadError
            /\ mode' = "syntax error"
            /\ UNCHANGED <<at, got, lost>>
         \/ /\ r[1] = Nil
            /\ mode' = IF limit < Len(text) /\ Tried(r) THEN "I/O error" ELSE "loaded"
            /\ UNCHANGED <<at, got, lost>>
         \/ /\ r[1] # ReadError /\ r[1] # Nil
            /\ got' = Append(got, r[1])
            /\ at' = IF r[3] THEN r[2] + 1 ELSE r[2]
            /\ lost' = (lost \/ (r[3] /\ ~is_whitespace(text[r[2]])))
            /\ UNCHANGED mode
    /\ UNCHANGED <<text, column, written, open, writes, limit>>

(* parse-number of the text as a string.                                   *)
ParseNumber ==
    /\ mode = "write" /\ writes > 0
    /\ mode' = "parsed" /\ got' = <<os_parse_number>>
    /\ UNCHANGED <<text, column, written, open, writes, at, limit, lost>>

Next == Write \/ ParseNumber \/ StartReading \/ StartLoading \/ cc_read \/ cc_load

Spec == Init /\ [][Next]_vars

-----------------------------------------------------------------------------
(* Calls of read give back the objects that were written, in order, one    *)
(* each, and report the end only after the last; parse-number accepts the  *)
(* text of one number and nothing else (print.c print_value, format.c      *)
(* cc_format, reader.c read_expr, os_parse_number, stream_lisp.c cc_read). *)
IsNumeral == writes = 1 /\ open /\ is_number_val(written[1])
RoundTrip ==
    /\ mode \in {"read", "end"} => IsPrefix(got, written)
    /\ mode = "end" => got = written
    /\ mode = "parsed" => got[1] = IF IsNumeral THEN written[1] ELSE Error("parse")

(* load evaluates the forms of the file in order, and returns t only when  *)
(* it has evaluated all of them up to the first that is nil; a failing     *)
(* stream can at most cut the last one short.  It takes a blank after each *)
(* atom, for load forgets the character that follows one (load.c cc_load). *)
UpToNil == IF Contains(written, Nil)
           THEN SubSeq(written, 1, (CHOOSE k \in DOMAIN written :
                    written[k] = Nil /\ \A j \in 1 .. k - 1 : written[j] # Nil) - 1)
           ELSE written
LoadedInOrder == ~lost =>
    /\ mode = "loaded" => got = UpToNil
    /\ mode \in {"load", "syntax error", "I/O error"} =>
           \/ IsPrefix(got, UpToNil)
           \/ limit < Len(text) /\ IsPrefix(Front(got), UpToNil) /\ at > limit
    /\ mode = "syntax error" => limit < Len(text)
=============================================================================
