----------------------------- MODULE Pathfinder -----------------------------
(***************************************************************************)
(* luaclib/pathfinder.c, the search over the tiles of a scene: A* with the *)
(* open nodes in a heap and the closed ones in a list.  The nodes outlive  *)
(* a search, so one search must leave them as the next expects them.       *)
(* A step is one turn of the loop of finder_find.  The node fields G, H, F *)
(* and parent are functions of the tile; tile <<x, z>> can be entered when *)
(* its block is not 0.  A ray that minds the mask takes the same steps     *)
(* over another set of tiles.                                              *)
(***************************************************************************)
EXTENDS Integers, Sequences, SequencesExt, FiniteSetsExt, MinHeap

CONSTANTS Width, Heigh,
          Cost,       \* of one tile in the estimate; 50 in lua-pathfinder.c
          From,       \* bound: tiles a search or a ray starts from
          Outside,    \* coordinates outside the scene
          NoTile      \* a null pointer

VARIABLES walk,     \* the tiles whose block is not 0
          finder,   \* the nodes, openlist and closelist
          goal,     \* <<from, to>> of the search under way, or NoTile
          found     \* <<from, to, path>> of the last search, or NoTile

vars == <<walk, finder, goal, found>>

Tile == (0 .. Width - 1) \X (0 .. Heigh - 1)

finder_create ==
  LET zero == [t \in Tile |-> 0]
  IN [G |-> zero, H |-> zero, F |-> zero, parent |-> [t \in Tile |-> NoTile],
      openlist |-> minheap_create(Tile), closelist |-> {}]

Init ==
  /\ walk \in SUBSET Tile
  /\ finder = finder_create
  /\ goal = NoTile
  /\ found = NoTile

-----------------------------------------------------------------------------
Abs(a) == IF a < 0 THEN -a ELSE a

GoalCost(t, to) == (Abs(t[1] - to[1]) + Abs(t[2] - to[2])) * Cost

direction == << <<-1, 0>>, <<1, 0>>, <<0, -1>>, <<0, 1>>, <<-1, -1>>, <<-1, 1>>, <<1, -1>>, <<1, 1>> >>

find_neighbors(f, t) ==
  SelectSeq([i \in 1 .. 8 |-> <<t[1] + direction[i][1], t[2] + direction[i][2]>>],
            LAMBDA n : n \in walk \ f.closelist)

neighbor_cost(s, t) == IF s[1] = t[1] \/ s[2] = t[2] THEN 50 ELSE 60

\* Fault: the closed nodes stay in their list.
ResetOpenOnly(f) == [finder_create EXCEPT !.closelist = f.closelist]

\* every node that was opened is in one of the two lists
reset(f) ==
  LET seen == f.closelist \cup ToSet(f.openlist.elts)
      cleared(field, value) == [t \in Tile |-> IF t \in seen THEN value ELSE field[t]]
  IN [G |-> cleared(f.G, 0), H |-> cleared(f.H, 0), F |-> cleared(f.F, 0),
      parent |-> cleared(f.parent, NoTile),
      openlist |-> [elts |-> <<>>, index |-> cleared(f.openlist.index, 0)],
      closelist |-> {}]

\* The neighbor n of the node just closed is opened, or reached more cheaply.
Relax(f, current, to, n) ==
  LET g == f.G[current] + neighbor_cost(current, n)
      open == f.openlist.index[n] # 0
      h == IF open THEN f.H[n] ELSE GoalCost(n, to)
      r == [f EXCEPT !.G[n] = g, !.H[n] = h, !.F[n] = g + h, !.parent[n] = current]
  IN IF ~open
     THEN [r EXCEPT !.openlist = minheap_push(@, r.F, n)]
     ELSE IF g < f.G[n] THEN [r EXCEPT !.openlist = minheap_change(@, r.F, n)] ELSE f

RECURSIVE Chain(_, _, _)
Chain(f, t, from) ==
  IF t = from \/ f.parent[t] = NoTile THEN <<t>> ELSE <<t>> \o Chain(f, f.parent[t], from)

\* the ends of the chain and the tiles where it turns
make_path(f, to, from) ==
  LET c == Chain(f, to, from)
      leg(i) == <<c[i][1] - c[i + 1][1], c[i][2] - c[i + 1][2]>>
      turns == {i \in 1 .. Len(c) : i = 1 \/ i = Len(c) \/ leg(i - 1) # leg(i)}
  IN [k \in 1 .. Cardinality(turns) |-> c[CHOOSE i \in turns : Cardinality({j \in turns : j < i}) = k - 1]]

-----------------------------------------------------------------------------
finder_find(from, to) ==
  /\ goal = NoTile
  /\ UNCHANGED walk
  /\ IF from \in Tile /\ to \in Tile /\ from # to /\ to \in walk
     THEN /\ finder' = [finder EXCEPT !.openlist = minheap_push(@, finder.F, from)]
          /\ goal' = <<from, to>>
          /\ found' = NoTile
     ELSE /\ found' = <<from, to, <<>> >>
          /\ UNCHANGED <<finder, goal>>

\* the first open node is closed
Closing ==
  [finder EXCEPT !.openlist = minheap_pop(@, finder.F),
                 !.closelist = @ \cup {finder.openlist.elts[1]}]

Expand ==
  LET current == finder.openlist.elts[1]
  IN /\ goal # NoTile /\ finder.openlist.elts # <<>> /\ current # goal[2]
     /\ finder' = FoldLeft(LAMBDA f, n : Relax(f, current, goal[2], n),
                           Closing, find_neighbors(Closing, current))
     /\ UNCHANGED <<walk, goal, found>>

Arrive ==
  /\ goal # NoTile /\ finder.openlist.elts # <<>> /\ finder.openlist.elts[1] = goal[2]
  /\ found' = <<goal[1], goal[2], make_path(Closing, goal[2], goal[1])>>
  /\ finder' = reset(Closing)
  /\ goal' = NoTile
  /\ UNCHANGED walk

Exhausted ==
  /\ goal # NoTile /\ finder.openlist.elts = <<>>
  /\ found' = <<goal[1], goal[2], <<>> >>
  /\ finder' = reset(finder)
  /\ goal' = NoTile
  /\ UNCHANGED walk

Next ==
  \/ \E from \in From, to \in Tile \cup Outside : finder_find(from, to)
  \/ Expand
  \/ Arrive
  \/ Exhausted

Spec == Init /\ [][Next]_vars

-----------------------------------------------------------------------------
Far(a, b) == Max({Abs(a[1] - b[1]), Abs(a[2] - b[2])})

\* tile number i on the straight line from a to b, the nearest one to the line
RayTile(a, b, i) ==
  LET n == Far(a, b)
      at(k) == (2 * n * a[k] + n + 2 * i * (b[k] - a[k])) \div (2 * n)
  IN IF n = 0 THEN a ELSE <<at(1), at(2)>>

\* Fault: the tile that stops the ray is returned.
RayIntoWall(a, b) ==
  LET stops == {i \in 0 .. Far(a, b) : RayTile(a, b, i) \notin walk}
  IN IF stops = {} THEN b ELSE RayTile(a, b, Min(stops))

\* the last tile before one that cannot be entered
finder_raycast(a, b) ==
  LET stops == {i \in 0 .. Far(a, b) : RayTile(a, b, i) \notin walk}
  IN IF stops = {} THEN b ELSE IF Min(stops) = 0 THEN a ELSE RayTile(a, b, Min(stops) - 1)

-----------------------------------------------------------------------------
\* The cheapest walks that continue the walks ws; a walk is its last tile and its cost.
RECURSIVE Cheapest(_)
Cheapest(ws) ==
  LET longer == {<<t, w[2] + neighbor_cost(w[1], t)>> : <<w, t>> \in {p \in ws \X walk : Far(p[1][1], p[2]) = 1}}
      all == ws \cup longer
      best == {w \in all : \A v \in all : v[1] = w[1] => w[2] <= v[2]}
  IN IF best = ws THEN ws ELSE Cheapest(best)

\* The tiles that can be reached from those in ts.
RECURSIVE Reach(_)
Reach(ts) ==
  LET more == {t \in walk \ ts : \E u \in ts : Far(t, u) = 1}
  IN IF more = {} THEN ts ELSE Reach(ts \cup more)

Straight(a, b) == a[1] = b[1] \/ a[2] = b[2] \/ Abs(a[1] - b[1]) = Abs(a[2] - b[2])

PathCost(path) ==
  FoldLeft(LAMBDA c, i : c + Far(path[i], path[i + 1]) * neighbor_cost(path[i], path[i + 1]),
           0, [i \in 1 .. Len(path) - 1 |-> i])

\* Every search, whatever was searched before, finds a path exactly when there is
\* one, and the waypoints make_path hands out lead from tile to tile along straight
\* lines that can be walked.
PathFound ==
  found # NoTile =>
    LET from == found[1]
        to == found[2]
        path == found[3]
    IN IF path = <<>>
       THEN from = to \/ from \notin Tile \/ to \notin walk \/ to \notin Reach({from})
       ELSE /\ path[1] = to /\ path[Len(path)] = from
            /\ \A i \in 1 .. Len(path) - 1 :
                 /\ Straight(path[i], path[i + 1])
                 /\ \A k \in 0 .. Far(path[i], path[i + 1]) - 1 :
                      RayTile(path[i], path[i + 1], k) \in walk

\* The estimate of 50 for a tile exceeds what a diagonal step saves, so the path need
\* not be a shortest one; it costs at most Cost / 30 times as much.
PathNearShortest ==
  found # NoTile /\ found[3] # <<>> =>
    \A w \in Cheapest({<<found[1], 0>>}) :
      w[1] = found[2] => 30 * PathCost(found[3]) <= Max({30, Cost}) * w[2]

\* A ray ends where a walk could: the line of tiles is one that can be walked.
RayIsWalkable ==
  goal = NoTile /\ found = NoTile =>
    \A a \in From : {finder_raycast(a, b) : b \in Tile} \subseteq Reach({a})
=============================================================================
