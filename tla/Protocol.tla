------------------------------ MODULE Protocol ------------------------------
(***************************************************************************)
(* luaclib/lua-protocol.c and lualib/protocol.lua: messages between client *)
(* and server are Lua tables, encoded field by field as their protocol     *)
(* says.  Nothing in the bytes names a field or a type: writer and reader  *)
(* must take the same steps.                                               *)
(* Root is what the parser makes of the protocol files.  As in Serialize a *)
(* byte has Base values; the widths in bytes are those of the code.  A     *)
(* real r stands for r / 2.                                                *)
(***************************************************************************)
EXTENDS Integers, Sequences, SequencesExt

CONSTANTS Base,       \* 256
          MaxDepth,   \* MAX_DEPTH, 32
          Root,       \* Root[name]: the fields and the children of a protocol
          Names,      \* the names of Root, sorted
          Float32,    \* Float32[r]: what 32 bits keep of the real r
          Messages,   \* Messages[i], bound: tables encoded as protocol i
          Error,      \* lua_error was called
          NoMessage

VARIABLES slots,     \* slots[i]: the fields of protocol i
          message,   \* <<i, tbl>>, what is encoded
          wire,      \* its bytes, or Error
          decoded    \* what decode makes of them

vars == <<slots, message, wire, decoded>>

Integer(i) == <<"integer", i>>
Real(r) == <<"real", r>>
Str(s) == <<"string", s>>
NIL == <<"nil", 0>>
Invalid == <<"invalid message", 0>>

\* a table: its array part and its named fields
Table(list, map) == <<"table", [list |-> list, map |-> map]>>

getfield(v, name) == IF name \in DOMAIN v[2].map THEN v[2].map[name] ELSE NIL

Init ==
  /\ slots = <<>>
  /\ message = NoMessage
  /\ wire = NoMessage
  /\ decoded = NoMessage

-----------------------------------------------------------------------------
\* the protocol a field of ptl means: a child of ptl, or one of the top level
Named(ptl, name) == IF name \in DOMAIN ptl.children THEN ptl.children[name] ELSE Root[name]

RECURSIVE import_field(_)
import_field(ptl) ==
  [i \in 1 .. Len(ptl.fields) |->
     LET f == ptl.fields[i]
     IN [name |-> f.name, array |-> f.array, type |-> f.type,
         nest |-> IF f.type = "protocol" THEN import_field(Named(ptl, f.type_name)) ELSE <<>>]]

\* lload_protocol, for one protocol after the other
Load ==
  /\ Len(slots) < Len(Names)
  /\ slots' = Append(slots, import_field(Root[Names[Len(slots) + 1]]))
  /\ UNCHANGED <<message, wire, decoded>>

-----------------------------------------------------------------------------
Bytes(v, width) == [i \in 1 .. width |-> (v \div Base ^ (i - 1)) % Base]

Int32 == -(Base ^ 4 \div 2) .. Base ^ 4 \div 2 - 1

write_short(n) == Bytes(n, 2)

\* Fault: the first number beyond 8 bits is written in 8.
WriteIntShort(v) ==
  CASE v = 0 -> <<0>>
    [] v \notin Int32 -> <<4>> \o Bytes(v, 8)
    [] v \in 1 .. Base -> <<1>> \o Bytes(v, 1)
    [] OTHER -> <<3>> \o Bytes(v, 4)

\* the type of the number, then its bytes
write_int(v) ==
  CASE v = 0 -> <<0>>
    [] v \notin Int32 -> <<4>> \o Bytes(v, 8)
    [] v \in Int32 /\ v < 0 -> <<3>> \o Bytes(v, 4)
    [] v \in 1 .. Base - 1 -> <<1>> \o Bytes(v, 1)
    [] v \in Base .. Base ^ 2 - 1 -> <<2>> \o Bytes(v, 2)
    [] v \in Int32 /\ v >= Base ^ 2 -> <<3>> \o Bytes(v, 4)

write_string(s) == write_short(Len(s)) \o s

IsNumber(v) == v[1] \in {"integer", "real"}
lua_tonumber(v) == IF v[1] = "integer" THEN 2 * v[2] ELSE v[2]

\* 0 for a number that is not whole
lua_tointeger(v) == IF lua_tonumber(v) % 2 = 0 THEN lua_tonumber(v) \div 2 ELSE 0

\* v can be packed as f; otherwise an error is raised
RECURSIVE Accepts(_, _, _)
AcceptsOne(f, v, depth) ==
  CASE f.type = "string" -> v[1] = "string"
    [] f.type = "protocol" -> /\ depth < MaxDepth
                              /\ v[1] = "table"
                              /\ \A i \in DOMAIN f.nest : Accepts(f.nest[i], getfield(v, f.nest[i].name), depth + 1)
    [] OTHER -> IsNumber(v)

Accepts(f, v, depth) ==
  IF ~f.array THEN AcceptsOne(f, v, depth)
  ELSE /\ v[1] = "table"
       /\ f.type = "protocol" => depth < MaxDepth
       /\ \A i \in DOMAIN v[2].list : AcceptsOne(f, v[2].list[i], depth)

RECURSIVE pack_field(_, _)
PackValue(f, v) ==
  CASE f.type = "int" -> write_int(lua_tointeger(v))
    [] f.type = "float" -> Bytes(Float32[lua_tonumber(v)], 4)
    [] f.type = "double" -> Bytes(lua_tonumber(v), 8)
    [] f.type = "string" -> write_string(v[2])
    [] f.type = "protocol" -> pack_field(f.nest, v)

pack_one(f, v) ==
  IF ~f.array THEN PackValue(f, v)
  ELSE LET list == v[2].list
       IN write_short(Len(list)) \o FlattenSeq([i \in 1 .. Len(list) |-> PackValue(f, list[i])])

pack_field(fields, v) ==
  FlattenSeq([i \in 1 .. Len(fields) |-> pack_one(fields[i], getfield(v, fields[i].name))])

\* lencode_protocol, of one message
Encode(i, tbl) ==
  /\ Len(slots) = Len(Names) /\ message = NoMessage
  /\ message' = <<i, tbl>>
  /\ wire' = IF \A j \in DOMAIN slots[i] : Accepts(slots[i][j], getfield(tbl, slots[i][j].name), 1)
             THEN pack_field(slots[i], tbl)
             ELSE Error
  /\ UNCHANGED <<slots, decoded>>

-----------------------------------------------------------------------------
\* A reader returns a value and the bytes that remain; when they do not suffice,
\* it fails, and so does whatever would have read on.
Got(v, rb) == [ok |-> TRUE, v |-> v, rb |-> rb]
Fail == [ok |-> FALSE, v |-> Invalid, rb |-> <<>>]
Then(r, Continue(_, _)) == IF r.ok THEN Continue(r.v, r.rb) ELSE Fail
Rest(rb, n) == SubSeq(rb, n + 1, Len(rb))

Unsigned(rb, width) == FoldLeft(LAMBDA n, i : n + rb[i] * Base ^ (i - 1), 0, [i \in 1 .. width |-> i])
Signed(rb, width) ==
  LET n == Unsigned(rb, width)
  IN IF n >= Base ^ width \div 2 THEN n - Base ^ width ELSE n

Take(rb, width, v) == IF Len(rb) < width THEN Fail ELSE Got(v, Rest(rb, width))

\* all but the widest numbers are read as unsigned ones
read_int(rb) ==
  CASE rb = <<>> \/ rb[1] > 4 -> Fail
    [] rb # <<>> /\ rb[1] = 4 -> Take(Tail(rb), 8, Integer(Signed(Tail(rb), 8)))
    [] rb # <<>> /\ rb[1] < 4 ->
         LET width == <<0, 1, 2, 4>>[rb[1] + 1]
         IN Take(Tail(rb), width, Integer(Unsigned(Tail(rb), width)))

read_real(rb, width) == Take(rb, width, Real(Signed(rb, width)))

read_short(rb) == Take(rb, 2, Unsigned(rb, 2))

read_string(rb) ==
  Then(read_short(rb), LAMBDA size, rest : Take(rest, size, Str(SubSeq(rest, 1, size))))

RECURSIVE UnpackValue(_, _, _)

\* the next n values of the type of f
RECURSIVE Items(_, _, _, _)
Items(f, rb, n, depth) ==
  IF n = 0 THEN Got(<<>>, rb)
  ELSE Then(UnpackValue(f, rb, depth),
            LAMBDA v, rest : Then(Items(f, rest, n - 1, depth),
                                  LAMBDA others, left : Got(<<v>> \o others, left)))

unpack_one(f, rb, depth) ==
  IF ~f.array THEN UnpackValue(f, rb, depth)
  ELSE IF f.type = "protocol" /\ depth >= MaxDepth THEN Fail
  ELSE Then(read_short(rb),
            LAMBDA n, rest : Then(Items(f, rest, n, depth), LAMBDA list, left : Got(Table(list, <<>>), left)))

\* one field after the other, into the table map
RECURSIVE unpack_field(_, _, _, _)
unpack_field(fields, map, rb, depth) ==
  IF fields = <<>> THEN Got(Table(<<>>, map), rb)
  ELSE Then(unpack_one(Head(fields), rb, depth),
            LAMBDA v, rest : unpack_field(Tail(fields), (Head(fields).name :> v) @@ map, rest, depth))

UnpackValue(f, rb, depth) ==
  CASE f.type = "int" -> read_int(rb)
    [] f.type = "float" -> read_real(rb, 4)
    [] f.type = "double" -> read_real(rb, 8)
    [] f.type = "string" -> read_string(rb)
    [] f.type = "protocol" -> IF depth >= MaxDepth THEN Fail ELSE unpack_field(f.nest, <<>>, rb, depth + 1)

\* ldecode_protocol; bytes that are left over are an error
Decode ==
  /\ wire \notin {NoMessage, Error} /\ decoded = NoMessage
  /\ decoded' = Then(unpack_field(slots[message[1]], <<>>, wire, 1),
                     LAMBDA v, left : IF left = <<>> THEN Got(v, left) ELSE Fail).v
  /\ UNCHANGED <<slots, message, wire>>

Next ==
  \/ Load
  \/ \E i \in DOMAIN Names : \E tbl \in Messages[i] : Encode(i, tbl)
  \/ Decode

Spec == Init /\ [][Next]_vars

-----------------------------------------------------------------------------
\* strings and arrays have a length of 16 bits
RECURSIVE Fits(_)
Fits(v) ==
  CASE v[1] = "string" -> Len(v[2]) < Base ^ 2
    [] v[1] = "table" -> /\ Len(v[2].list) < Base ^ 2
                         /\ \A i \in DOMAIN v[2].list : Fits(v[2].list[i])
                         /\ \A n \in DOMAIN v[2].map : Fits(v[2].map[n])
    [] OTHER -> TRUE

\* What a protocol keeps of a table: its fields, whole numbers where it says int.
\* A negative number of 32 bits comes back as an unsigned one.
RECURSIVE Kept(_, _)
KeptValue(f, v) ==
  CASE f.type = "int" -> LET n == lua_tointeger(v)
                         IN Integer(IF n \in Int32 /\ n < 0 THEN n + Base ^ 4 ELSE n)
    [] f.type = "float" -> Real(Float32[lua_tonumber(v)])
    [] f.type = "double" -> Real(lua_tonumber(v))
    [] f.type = "string" -> v
    [] f.type = "protocol" -> Kept(f.nest, v)

Kept(fields, v) ==
  Table(<<>>,
    [n \in {fields[i].name : i \in DOMAIN fields} |->
       LET f == CHOOSE f \in ToSet(fields) : f.name = n
           w == getfield(v, n)
       IN IF f.array THEN Table([i \in DOMAIN w[2].list |-> KeptValue(f, w[2].list[i])], <<>>)
          ELSE KeptValue(f, w)])

\* Whatever encode accepts, decode reads as the fields that were meant: the readers
\* take the steps of the writers, for every type, width, array and nested protocol.
RoundTrip ==
  decoded # NoMessage /\ Fits(message[2]) => decoded = Kept(slots[message[1]], message[2])
=============================================================================
