---------------------------- MODULE MCLibraries ----------------------------
(* Model checking of four libraries of luaclib that share nothing: a        *)
(* behaviour exercises one of them, chosen at the start.                    *)
(*   aoi        four fighters, two of each level, and three slots, so that  *)
(*              the container runs full; a scene of three tiles by three,   *)
(*              in which a fighter sees one tile around its own             *)
(*   finder     every map of four tiles by three, searched again and again  *)
(*   serialize  values at both sides of every limit, tables with holes      *)
(*   protocol   a command as in script/test_protocol.lua, numbers of every  *)
(*              type, and a protocol nested too deeply                      *)
EXTENDS FastAoi, Sequences, FiniteSets, TLC

CONSTANTS u1, u2, v1, v2,
          Width, Heigh, Cost, From, Outside, NoTile,
          Base, MaxCookie, MaxDepth, BlockSize, Arguments, Error,
          Root, Names, Float32, Messages, NoMessage

VARIABLES part,
          walk, finder, goal, found,
          args, buffer, values, pc,
          slots, message, wire, decoded

Finder == INSTANCE Pathfinder
Seri == INSTANCE Serialize
Codec == INSTANCE Protocol

MCLevelOf == (u1 :> 0) @@ (u2 :> 0) @@ (v1 :> 1) @@ (v2 :> 1)

Symmetry == Permutations(Id) \cup Permutations({u1, u2}) \cup Permutations({v1, v2})

MCFrom == {<<0, 0>>}
MCOutside == {<<4, 0>>}

\* values of Lua, as Serialize and Protocol write them
Integer(i) == <<"integer", i>>
Real(r) == <<"real", r>>
NIL == <<"nil", 0>>
String(n) == <<"string", [i \in 1 .. n |-> i % 2]>>
Table(pairs) == <<"table", pairs>>

Leaves ==
  {NIL, <<"boolean", TRUE>>, Real(-7), <<"userdata", 9>>}
  \cup {Integer(i) : i \in {-129, -128, -1, 0, 1, 3, 4, 15, 16, 127, 128}}
  \cup {String(n) : n \in {0, 3, 4, 15, 16}}

Tables(keys, entries) ==
  UNION {{Table({<<k, f[k]>> : k \in ks}) : f \in [ks -> entries]} : ks \in SUBSET keys}

Flat ==
  Tables({Integer(i) : i \in {1, 2, 3, 5}} \cup {String(1)}, {Integer(2), <<"boolean", FALSE>>})

\* the last one is too deep
Inner ==
  LET Single(k, v) == Table({<<k, v>>})
      one == Integer(1)
  IN {Table({}), Table({<<one, Integer(16)>>, <<String(1), String(4)>>}),
      Single(Integer(3), Table({})), Single(one, Single(one, one))}

Nested == Tables({Integer(1), <<"boolean", TRUE>>}, Inner \cup {Integer(1), <<"function", 0>>})

MCArguments ==
  {<<>>} \cup {<<a, b>> : a, b \in Leaves} \cup {<<t>> : t \in Flat} \cup {<<t, NIL>> : t \in Nested}

-----------------------------------------------------------------------------
Field(name, type) == [name |-> name, type |-> type, array |-> FALSE, type_name |-> type]
Array(f) == [f EXCEPT !.array = TRUE]
Nest(name, type_name) == [Field(name, "protocol") EXCEPT !.type_name = type_name]
Ptl(fields) == [fields |-> fields, children |-> <<>>]

\* c2s_command has a child with the name of another protocol
MCRoot ==
  [CmdInfo |-> Ptl(<<Field("id", "int"), Array(Field("argnum", "int")), Field("cmd", "string")>>),
   c2s_command |-> [fields |-> <<Field("arg1", "int"), Array(Nest("cmds", "CmdInfo")), Nest("last", "inner")>>,
                    children |-> [inner |-> Ptl(<<Array(Field("names", "string"))>>)]],
   inner |-> Ptl(<<Field("i", "int"), Field("f", "float"), Field("d", "double")>>),
   outer |-> Ptl(<<Array(Nest("deep", "c2s_command"))>>)]

MCNames == <<"CmdInfo", "c2s_command", "inner", "outer">>

\* beyond 16 the last bit is lost
MCFloat32 == [r \in -20 .. 40 |-> IF r \in -16 .. 16 THEN r ELSE (r \div 2) * 2]

List(s) == <<"table", [list |-> s, map |-> <<>>]>>
Record(map) == <<"table", [list |-> <<>>, map |-> map]>>
Ints == {Integer(i) : i \in {-129, -128, -1, 0, 1, 3, 4, 15, 16, 127, 128}}
Reals == {Real(r) : r \in {-3, 4, 15, 33}}
Lists(elements) == {List(<<>>)} \cup {List(<<a, b>>) : a, b \in elements}

Commands ==
  {Record([id |-> i, argnum |-> l, cmd |-> s]) :
     i \in Ints \cup {Real(3), String(1)}, l \in Lists({Integer(-1), Integer(16)}) \cup {List(<<String(0)>>)},
     s \in {String(n) : n \in {0, 15, 16}}}
  \cup {Record(<<>>), Record([id |-> Integer(1), argnum |-> List([i \in 1 .. 17 |-> Integer(0)]), cmd |-> String(1), more |-> Integer(7)])}

Command(i, n) ==
  Record([id |-> Integer(i), argnum |-> List([j \in 1 .. n |-> Integer(j)]), cmd |-> String(n)])

MCMessages ==
  <<Commands,
    {Record([arg1 |-> i, cmds |-> c, last |-> Record([names |-> l])]) :
       i \in {Integer(-1), Integer(128)},
       c \in Lists({Command(0, 0), Command(16, 2), Record(<<>>)}) \cup {Command(1, 1)},
       l \in Lists({String(0), String(3)})},
    {Record([i |-> i, f |-> f, d |-> d]) : i \in Ints, f, d \in Reals \cup {Integer(-8)}},
    {Record([deep |-> List(<<>>)])}>>

-----------------------------------------------------------------------------
finderVars == <<walk, finder, goal, found>>
seriVars == <<args, buffer, values, pc>>
codecVars == <<slots, message, wire, decoded>>
allVars == <<part, aoi_vars, finderVars, seriVars, codecVars>>

FinderIdle == walk = {} /\ finder = Finder!finder_create /\ goal = NoTile /\ found = NoTile
SeriIdle == args = <<>> /\ buffer = <<>> /\ values = <<>> /\ pc = "done"

AllInit ==
  /\ AoiInit
  /\ Codec!Init
  /\ \/ part \in {"aoi", "protocol"} /\ FinderIdle /\ SeriIdle
     \/ part = "finder" /\ Finder!Init /\ SeriIdle
     \/ part = "serialize" /\ FinderIdle /\ Seri!Init

AllNext ==
  /\ UNCHANGED part
  /\ \/ part = "aoi" /\ AoiNext /\ UNCHANGED <<finderVars, seriVars, codecVars>>
     \/ part = "finder" /\ Finder!Next /\ UNCHANGED <<aoi_vars, seriVars, codecVars>>
     \/ part = "serialize" /\ Seri!Next /\ UNCHANGED <<aoi_vars, finderVars, codecVars>>
     \/ part = "protocol" /\ Codec!Next /\ UNCHANGED <<aoi_vars, finderVars, seriVars>>

AllSpec == AllInit /\ [][AllNext]_allVars

\* Searches, rays and packed values as Pathfinder and Serialize state it: a path is
\* found exactly when there is one, and can be walked.
PathFound == Finder!PathFound

\* A path costs at most 5/3 of a shortest one.
PathNearShortest == Finder!PathNearShortest

\* A ray ends where a walk could.
RayIsWalkable == Finder!RayIsWalkable

\* What luaseri_pack writes, luaseri_unpack reads; what a protocol encodes, it decodes.
RoundTrip == Seri!RoundTrip /\ Codec!RoundTrip
=============================================================================
