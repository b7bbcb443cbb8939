------------------------------ MODULE FastAoi ------------------------------
(***************************************************************************)
(* The area of interest of a scene (luaclib/lua-fast-aoi.c): a grid of     *)
(* tiles, each with one list of objects per level, and the tables of       *)
(* objects coming into and going out of sight that enter, leave and update *)
(* return.  An object sees the common level and its own.  What becomes of  *)
(* the returned tables is the history variable view: both objects of a     *)
(* returned pair are told, as script/test_aoi.lua and scene.lua do.        *)
(***************************************************************************)
EXTENDS Integers

CONSTANTS Uid,                       \* the fighters of the scene
          Id,                        \* the slots of the object container
          Level, Common,             \* the levels; COMMON_LEVEL
          LevelOf,                   \* the level each fighter enters with
          SceneWidth, SceneHeigh,    \* the size of the scene
          TileRange,                 \* the side of a tile
          Range,                     \* how many tiles an object sees
          NoObject                   \* an empty container slot

ASSUME AoiAssumption ==
  /\ Common \in Level /\ LevelOf \in [Uid -> Level]
  /\ TileRange \in Nat \ {0} /\ Range \in Nat
  /\ SceneWidth \in Nat /\ SceneHeigh \in Nat

VARIABLES mgr,     \* the object in each container slot
          list,    \* list[t][l]: the slots of the objects on tile t at level l
          view     \* the fighters each fighter has been told are in sight

aoi_vars == <<mgr, list, view>>

MaxX == SceneWidth \div TileRange - 1
MaxZ == SceneHeigh \div TileRange - 1
Tile == (0 .. MaxX) \X (0 .. MaxZ)

\* Positions laoi_enter and laoi_update accept: inside the tiled part of the scene.
Pos == [x : 0 .. (MaxX + 1) * TileRange - 1, z : 0 .. (MaxZ + 1) * TileRange - 1]

Object == [uid : Uid, pos : Pos]

ASSUME NoObjectAssumption == NoObject \notin Object

Used == {i \in Id : mgr[i] # NoObject}
Free == Id \ Used
Inside == {mgr[i].uid : i \in Used}

AoiTypeOK ==
  /\ mgr \in [Id -> Object \cup {NoObject}]
  /\ list \in [Tile -> [Level -> SUBSET Id]]
  /\ view \in [Uid -> SUBSET Uid]

AoiInit ==
  /\ mgr = [i \in Id |-> NoObject]
  /\ list = [t \in Tile |-> [l \in Level |-> {}]]
  /\ view = [u \in Uid |-> {}]

-----------------------------------------------------------------------------
TileAt(p) == <<p.x \div TileRange, p.z \div TileRange>>

Low(k) == IF k - Range < 0 THEN 0 ELSE k - Range
High(k, max) == IF k + Range > max THEN max ELSE k + Range

\* Fault: the upper edge is cut off one tile early.
RegionShort(t) == (Low(t[1]) .. High(t[1], MaxX - 1)) \X (Low(t[2]) .. High(t[2], MaxZ))

\* The tiles in sight of tile t, cut off at the edges of the grid.
Region(t) == (Low(t[1]) .. High(t[1], MaxX)) \X (Low(t[2]) .. High(t[2], MaxZ))

\* What a walk over the lists of tiles ts writes into the table for object i, with
\* slots ms and lists ls.
Sights(ms, ls, ts, i) ==
  LET l == LevelOf[ms[i].uid]
  IN  {ms[j].uid : j \in (UNION {ls[t][Common] \cup ls[t][l] : t \in ts}) \ {i}}

\* The walk over everything in sight of tile t, which aoi_enter, aoi_leave and
\* laoi_viewlist make.
Around(ms, ls, t, i) == Sights(ms, ls, Region(t), i)

\* list_remove takes a node out of whatever list it is in.
ListRemove(ls, i) == [t \in Tile |-> [l \in Level |-> ls[t][l] \ {i}]]
ListPush(ls, t, l, i) == [ls EXCEPT ![t][l] = @ \cup {i}]

\* Whom v hears of when u and the members of set are told of each other.
Hears(v, u, set) == IF v = u THEN set ELSE IF v \in set THEN {u} ELSE {}

Told(u, came, gone) == [v \in Uid |-> (view[v] \cup Hears(v, u, came)) \ Hears(v, u, gone)]

-----------------------------------------------------------------------------
\* laoi_enter: with no free slot it raises and changes nothing.  Which free slot is
\* taken (the one freed last) makes no difference to what is returned.
Enter(u, p) ==
  \E i \in Free :
    /\ u \notin Inside
    /\ mgr' = [mgr EXCEPT ![i] = [uid |-> u, pos |-> p]]
    /\ list' = ListPush(list, TileAt(p), LevelOf[u], i)
    /\ view' = Told(u, Around(mgr', list, TileAt(p), i), {})

\* Fault: only the own tile is searched for those who must forget the object.
LeaveOwnTile(i) ==
  LET u == mgr[i].uid
      seen == Sights(mgr, list, {TileAt(mgr[i].pos)}, i)
  IN  /\ i \in Used
      /\ list' = ListRemove(list, i)
      /\ mgr' = [mgr EXCEPT ![i] = NoObject]
      /\ view' = [Told(u, {}, seen) EXCEPT ![u] = {}]

Leave(i) ==
  LET u == mgr[i].uid
      seen == Around(mgr, list, TileAt(mgr[i].pos), i)
  IN  /\ i \in Used
      /\ list' = ListRemove(list, i)
      /\ mgr' = [mgr EXCEPT ![i] = NoObject]
      /\ view' = [Told(u, {}, seen) EXCEPT ![u] = {}]

\* laoi_update: on the same tile only the position changes.
Update(i, p) ==
  LET u == mgr[i].uid
      old == TileAt(mgr[i].pos)
      new == TileAt(p)
      Seen(ts) == Sights(mgr', list', ts, i)
  IN  /\ i \in Used
      /\ mgr' = [mgr EXCEPT ![i].pos = p]
      /\ IF old = new
         THEN UNCHANGED <<list, view>>
         ELSE /\ list' = ListPush(ListRemove(list, i), new, LevelOf[u], i)
              /\ view' = Told(u, Seen(Region(new) \ Region(old)), Seen(Region(old) \ Region(new)))

\* laoi_viewlist
Viewlist(i) == Around(mgr, list, TileAt(mgr[i].pos), i)

AoiNext ==
  \/ \E u \in Uid, p \in Pos : Enter(u, p)
  \/ \E i \in Id : Leave(i)
  \/ \E i \in Id, p \in Pos : Update(i, p)

AoiSpec == AoiInit /\ [][AoiNext]_aoi_vars

-----------------------------------------------------------------------------
Dist(a, b) == IF a < b THEN b - a ELSE a - b

\* Tiles s and t are in sight of each other.
Near(s, t) == Dist(s[1], t[1]) <= Range /\ Dist(s[2], t[2]) <= Range

\* Fighters u and v are inside and in sight of each other.
InSight(u, v) ==
  \E i, j \in Used :
    /\ mgr[i].uid = u /\ mgr[j].uid = v
    /\ Near(TileAt(mgr[i].pos), TileAt(mgr[j].pos))

\* The tables returned by any sequence of enter, leave and update add up: two
\* fighters of one level have each other in their views exactly when both are in
\* the scene and their tiles are at most Range apart in both directions, also at
\* the edges of the grid.  Nobody keeps a fighter who left or moved out of sight.
ViewsExact ==
  \A u, v \in Uid :
    u # v /\ u \in Inside /\ LevelOf[u] = LevelOf[v] => (v \in view[u] <=> InSight(u, v))

\* What laoi_viewlist reads from the lists now is what the returned tables have
\* added up to, for the fighters of the same level.
ViewlistIsView ==
  \A i \in Used :
    \A v \in Uid :
      LevelOf[v] = LevelOf[mgr[i].uid] => (v \in Viewlist(i) <=> v \in view[mgr[i].uid])
=============================================================================
