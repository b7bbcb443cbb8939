----------------------------- MODULE Serialize -----------------------------
(***************************************************************************)
(* luaclib/lua-serialize.c: values packed into a chain of blocks of bytes  *)
(* and unpacked again, for messages between workers, files and databases.  *)
(* Widths and limits are scaled down: a byte of a number has Base values,  *)
(* a string of MaxCookie is long.  A Lua table is the set of its pairs;    *)
(* where rawlen draws the border of its array part, and in which order     *)
(* lua_next goes through the rest, is up to Lua, and the model leaves both *)
(* open.  Objects with a pack method of their own are left out.            *)
(***************************************************************************)
EXTENDS Integers, Sequences, FiniteSets, FiniteSetsExt, SequencesExt

CONSTANTS Base,        \* 256
          MaxCookie,   \* MAX_COOKIE, 32
          MaxDepth,    \* MAX_DEPTH, 32
          BlockSize,   \* BLOCK_SIZE, 128
          Arguments,   \* bound: lists of values that are packed
          Error        \* lua_error was called

VARIABLES args,      \* the arguments of pack
          buffer,    \* the bytes it returns, Error, or <<>> before
          values,    \* what unpack makes of them
          pc         \* "pack", "unpack", "done"

vars == <<args, buffer, values, pc>>

NIL == <<"nil", 0>>
Boolean(b) == <<"boolean", b>>
Integer(i) == <<"integer", i>>
Real(r) == <<"real", r>>
Pointer(p) == <<"userdata", p>>
Str(s) == <<"string", s>>
Table(pairs) == <<"table", pairs>>
Invalid == <<"invalid stream", 0>>

TYPE == [nil |-> 0, boolean |-> 1, number |-> 2, userdata |-> 3, short |-> 4, long |-> 5, table |-> 6]
TYPE_NUMBER_REAL == 8

\* COMBINE_TYPE, pushed as one byte
Tag(t, cookie) == <<TYPE[t] + 8 * cookie>>

-----------------------------------------------------------------------------
\* bytes fill up the current block and go on in new ones
RECURSIVE wb_push(_, _)
wb_push(blocks, bytes) ==
  LET b == blocks[Len(blocks)]
      room == BlockSize - Len(b)
  IN IF Len(bytes) <= room
     THEN [blocks EXCEPT ![Len(blocks)] = b \o bytes]
     ELSE wb_push(Append([blocks EXCEPT ![Len(blocks)] = b \o SubSeq(bytes, 1, room)], <<>>),
                  SubSeq(bytes, room + 1, Len(bytes)))

\* little endian, two's complement
Bytes(v, width) == [i \in 1 .. width |-> (v \div Base ^ (i - 1)) % Base]

\* Fault: Base is taken for a byte.
WidthOffByOne(v) ==
  CASE v = 0 -> 0
    [] v \in 1 .. Base -> 1
    [] OTHER -> 8

\* the bytes an integer takes
NumberWidth(v) ==
  CASE v = 0 -> 0
    [] v \notin -(Base ^ 4 \div 2) .. Base ^ 4 \div 2 - 1 -> 8
    [] v \in 1 .. Base - 1 -> 1
    [] v \in Base .. Base ^ 2 - 1 -> 2
    [] OTHER -> 4

\* An operator wb_... gives the sequence of pushes the function makes.
wb_integer(v) ==
  LET width == NumberWidth(v)
  IN <<Tag("number", IF width = 8 THEN 6 ELSE width), Bytes(v, width)>>

wb_string(s) ==
  IF Len(s) < MaxCookie
  THEN <<Tag("short", Len(s)), s>>
  ELSE LET width == IF Len(s) < Base ^ 2 THEN 2 ELSE 4
       IN <<Tag("long", width), Bytes(Len(s), width), s>>

Keys(t) == {p[1] : p \in t[2]}
At(t, k) == IF k \in Keys(t) THEN (CHOOSE p \in t[2] : p[1] = k)[2] ELSE NIL

\* lua_rawlen may return any of these
Borders(t) ==
  {n \in {0} \cup {k[2] : k \in {k \in Keys(t) : k[1] = "integer"}} :
     /\ n = 0 \/ Integer(n) \in Keys(t)
     /\ Integer(n + 1) \notin Keys(t)}

\* the size of the array part; a table with __pairs is written without one
ArraySize(t, how) ==
  CASE how.size = "least" -> Min(Borders(t))
    [] how.size = "most" -> Max(Borders(t))
    [] how.size = "pairs" -> 0

RECURSIVE pack_one(_, _)
wb_table(t, how) ==
  LET size == ArraySize(t, how)
      array == {Integer(i) : i \in 1 .. size}
      rest == SetToSeq({p \in t[2] : p[1] \notin array})
      hash == IF how.reverse THEN Reverse(rest) ELSE rest
  IN (IF size >= MaxCookie - 1
      THEN <<Tag("table", MaxCookie - 1)>> \o wb_integer(size)
      ELSE <<Tag("table", size)>>)
     \o FlattenSeq([i \in 1 .. size |-> pack_one(At(t, Integer(i)), how)])
     \o FlattenSeq([i \in 1 .. Len(hash) |-> pack_one(hash[i][1], how) \o pack_one(hash[i][2], how)])
     \o <<Tag("nil", 0)>>

pack_one(v, how) ==
  CASE v[1] = "nil" -> <<Tag("nil", 0)>>
    [] v[1] = "boolean" -> <<Tag("boolean", IF v[2] THEN 1 ELSE 0)>>
    [] v[1] = "integer" -> wb_integer(v[2])
    [] v[1] = "real" -> <<Tag("number", TYPE_NUMBER_REAL), Bytes(v[2], 8)>>
    [] v[1] = "userdata" -> <<Tag("userdata", 0), Bytes(v[2], 8)>>
    [] v[1] = "string" -> wb_string(v[2])
    [] v[1] = "table" -> wb_table(v, how)

\* a value nested too deeply, or of a type that cannot be packed
RECURSIVE Raises(_, _)
Raises(v, depth) ==
  \/ depth > MaxDepth
  \/ v[1] = "function"
  \/ v[1] = "table" /\ \E p \in v[2] : Raises(p[1], depth + 1) \/ Raises(p[2], depth + 1)

pack_from(vs, how) == FlattenSeq([i \in 1 .. Len(vs) |-> pack_one(vs[i], how)])

\* the blocks one after the other
seri(vs, how) == FlattenSeq(FoldLeft(wb_push, << <<>> >>, pack_from(vs, how)))

-----------------------------------------------------------------------------
\* Reading returns a value and the bytes that remain; a stream that ends too early
\* is Invalid, and so is all that follows.
Got(v, rb) == [v |-> v, rb |-> rb]
Fail == Got(Invalid, <<>>)

Rest(rb, n) == SubSeq(rb, n + 1, Len(rb))

Unsigned(rb, width) == FoldLeft(LAMBDA n, i : n + rb[i] * Base ^ (i - 1), 0, [i \in 1 .. width |-> i])

Signed(rb, width) ==
  LET n == Unsigned(rb, width)
  IN IF n >= Base ^ width \div 2 THEN n - Base ^ width ELSE n

get_integer(rb, cookie) ==
  LET width == IF cookie = 6 THEN 8 ELSE cookie
  IN IF cookie \notin {0, 1, 2, 4, 6} \/ Len(rb) < width
     THEN Fail
     ELSE Got(Integer(IF width >= 4 THEN Signed(rb, width) ELSE Unsigned(rb, width)), Rest(rb, width))

get_buffer(rb, len) ==
  IF Len(rb) < len THEN Fail ELSE Got(Str(SubSeq(rb, 1, len)), Rest(rb, len))

get_long(rb, width) ==
  IF width \notin {2, 4} \/ Len(rb) < width THEN Fail ELSE get_buffer(Rest(rb, width), Unsigned(rb, width))

RECURSIVE unpack_one(_)

\* the next n values, and the pairs up to a nil key
RECURSIVE Items(_, _)
Items(rb, n) ==
  IF n = 0 THEN Got(<<>>, rb)
  ELSE LET first == unpack_one(rb)
           others == Items(first.rb, n - 1)
       IN Got(<<first.v>> \o others.v, others.rb)

RECURSIVE Pairs(_)
Pairs(rb) ==
  LET key == unpack_one(rb)
      value == unpack_one(key.rb)
      others == Pairs(value.rb)
  IN IF key.v \in {NIL, Invalid} THEN Got({}, key.rb)
     ELSE Got({<<key.v, value.v>>} \cup others.v, others.rb)

unpack_table(rb, cookie) ==
  LET size == IF cookie # MaxCookie - 1
              THEN Got(Integer(cookie), rb)
              ELSE IF rb = <<>> \/ rb[1] % 8 # TYPE.number THEN Fail
              ELSE get_integer(Rest(rb, 1), rb[1] \div 8)
      array == Items(size.rb, size.v[2])
      hash == Pairs(array.rb)
  IN IF size = Fail THEN Fail
     ELSE Got(Table({<<Integer(i), array.v[i]>> : i \in {i \in 1 .. size.v[2] : array.v[i] # NIL}} \cup hash.v),
              hash.rb)

push_value(rb, type, cookie) ==
  CASE type = TYPE.nil -> Got(NIL, rb)
    [] type = TYPE.boolean -> Got(Boolean(cookie # 0), rb)
    [] type = TYPE.number /\ cookie # TYPE_NUMBER_REAL -> get_integer(rb, cookie)
    [] type = TYPE.number /\ cookie = TYPE_NUMBER_REAL ->
         IF Len(rb) < 8 THEN Fail ELSE Got(Real(Signed(rb, 8)), Rest(rb, 8))
    [] type = TYPE.userdata -> IF Len(rb) < 8 THEN Fail ELSE Got(Pointer(Signed(rb, 8)), Rest(rb, 8))
    [] type = TYPE.short -> get_buffer(rb, cookie)
    [] type = TYPE.long -> get_long(rb, cookie)
    [] type = TYPE.table -> unpack_table(rb, cookie)
    [] OTHER -> Fail

unpack_one(rb) == IF rb = <<>> THEN Fail ELSE push_value(Rest(rb, 1), rb[1] % 8, rb[1] \div 8)

\* values up to the end of the stream
RECURSIVE luaseri_unpack(_)
luaseri_unpack(rb) ==
  LET first == unpack_one(rb)
  IN IF rb = <<>> THEN <<>> ELSE <<first.v>> \o luaseri_unpack(first.rb)

-----------------------------------------------------------------------------
Init ==
  /\ args \in Arguments
  /\ buffer = <<>>
  /\ values = <<>>
  /\ pc = "pack"

\* luaseri_pack and luaseri_tostring
Pack(how) ==
  /\ pc = "pack"
  /\ buffer' = IF \E i \in DOMAIN args : Raises(args[i], 0) THEN Error ELSE seri(args, how)
  /\ pc' = IF buffer' = Error THEN "done" ELSE "unpack"
  /\ UNCHANGED <<args, values>>

Unpack ==
  /\ pc = "unpack"
  /\ values' = luaseri_unpack(buffer)
  /\ pc' = "done"
  /\ UNCHANGED <<args, buffer>>

Next ==
  \/ \E size \in {"least", "most", "pairs"}, reverse \in BOOLEAN : Pack([size |-> size, reverse |-> reverse])
  \/ Unpack

Spec == Init /\ [][Next]_vars

\* What was packed is unpacked: at every limit of a width, a cookie or a block, with
\* holes in the array part of a table, and in whatever order Lua goes through it.
RoundTrip == pc = "done" /\ buffer # Error => values = args
=============================================================================
