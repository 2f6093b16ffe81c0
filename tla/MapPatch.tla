------------------------------ MODULE MapPatch ------------------------------
(***************************************************************************)
(* scripts/map_patch_node.py: the static costmap is sampled into a grid    *)
(* around the robot, its +x ahead.  Lengths are integers, headings quarter *)
(* turns, and the costmap is a drawing of one plane, Plane, in which every *)
(* place has a value of its own.  Units are even: a cell has its centre.   *)
(***************************************************************************)
EXTENDS RosClock

CONSTANTS
  Sources,        \* grids: [x, y, q: origin; width, height, unit: resolution]
  Output,         \* output_geometry, likewise
  Poses,          \* robot poses [x, y, q]
  MaxPoseAge,     \* max_pose_age
  PoseTolerance   \* transform_tolerance

\* GridGeometry, as validate() has it
Grids == [x : Int, y : Int, q : 0 .. 3,
          width : Nat \ {0}, height : Nat \ {0}, unit : Nat \ {0}]

ASSUME PatchAssumption ==
  /\ MaxPoseAge \in Nat /\ PoseTolerance \in Nat
  /\ Sources \subseteq Grids /\ Output \in Grids
  /\ \A grid \in Sources \cup {Output} : grid.unit % 2 = 0
  /\ Poses \subseteq [x : Int, y : Int, q : 0 .. 3]

VARIABLES
  costmap,  \* _latest_costmap: None or a grid with its data
  patch,    \* the patch last published; history: the pose and grid it is of
  fine      \* the diagnostic last published

NoCostmap == [grid |-> [width |-> 0], data |-> <<>>]
NoPatch == [data |-> <<>>, pose |-> [x |-> 0, y |-> 0, q |-> 0], grid |-> [width |-> 0]]

Cos(q) == <<1, 0, -1, 0>>[q + 1]
Sin(q) == <<0, 1, 0, -1>>[q + 1]

\* The map point of a point given in a frame, and back.
ToMap(frame, p) == [x |-> frame.x + Cos(frame.q) * p.x - Sin(frame.q) * p.y,
                    y |-> frame.y + Sin(frame.q) * p.x + Cos(frame.q) * p.y]
\* Mutant of FromMap: the rotation is not inverted.
TurnedTwice(frame, p) ==
  LET dx == p.x - frame.x
      dy == p.y - frame.y
  IN  [x |-> Cos(frame.q) * dx - Sin(frame.q) * dy,
       y |-> Sin(frame.q) * dx + Cos(frame.q) * dy]
FromMap(frame, p) ==
  LET dx == p.x - frame.x
      dy == p.y - frame.y
  IN  [x |-> Cos(frame.q) * dx + Sin(frame.q) * dy,
       y |-> Cos(frame.q) * dy - Sin(frame.q) * dx]

Col(grid, i) == i % grid.width
Row(grid, i) == i \div grid.width
Cells(grid) == 0 .. grid.width * grid.height - 1
Inside(grid, col, row) == col \in 0 .. grid.width - 1 /\ row \in 0 .. grid.height - 1

\* extract_robot_centric_patch of a pose, from cell indices from 0
Sampled(map, pose) ==
  LET half == Output.unit \div 2
      local(i) == [x |-> Output.x + Col(Output, i) * Output.unit + half,
                   y |-> Output.y + Row(Output, i) * Output.unit + half]
      source(i) == FromMap(map.grid, ToMap(pose, local(i)))
      col(i) == source(i).x \div map.grid.unit
      row(i) == source(i).y \div map.grid.unit
  IN  [i \in Cells(Output) |->
         IF Inside(map.grid, col(i), row(i))
         THEN map.data[row(i) * map.grid.width + col(i)] ELSE -1]

PatchInit == RosInit /\ costmap = NoCostmap /\ patch = NoPatch /\ fine = FALSE

\* The value of the plane at a place, and a costmap drawn from it: the value at
\* the centre of each cell.
Plane(p) == 100 * (p.x + 40) + p.y + 40
CellCentre(grid, i) ==
  ToMap(grid, [x |-> Col(grid, i) * grid.unit + grid.unit \div 2,
               y |-> Row(grid, i) * grid.unit + grid.unit \div 2])
Drawing(grid) == [i \in Cells(grid) |-> Plane(CellCentre(grid, i))]

\* _costmap_callback; mapFrame: the message is in map_frame.  A message whose
\* data is short is kept too.
CostmapCallback(grid, whole, mapFrame) ==
  /\ costmap' = IF mapFrame
                THEN [grid |-> grid,
                      data |-> IF whole THEN Drawing(grid) ELSE <<>>]
                ELSE costmap
  /\ UNCHANGED <<ros, patch, fine>>

\* pose_stamp_usable(stamp, now, ...)
PoseStampUsable(stamp) == stamp > 0 /\ Timely(stamp, PoseTolerance, MaxPoseAge)

Whole(map) == DOMAIN map.data = Cells(map.grid)

\* The timer's _publish: known is lookup_transform's success, pose and stamp
\* what it gives.  A costmap, once published, stays latched for the readers.
Publish(known, pose, stamp) ==
  /\ costmap # NoCostmap
  /\ LET ok == known /\ PoseStampUsable(stamp) /\ Whole(costmap)
     IN  /\ fine' = ok
         /\ patch' = IF ok THEN [data |-> Sampled(costmap, pose),
                                 pose |-> pose, grid |-> costmap.grid]
                     ELSE patch
  /\ UNCHANGED <<ros, costmap>>

PatchClock == RosMoves /\ UNCHANGED <<costmap, patch, fine>>

PatchNext ==
  \/ \E grid \in Sources, whole, mapFrame \in BOOLEAN :
       CostmapCallback(grid, whole, mapFrame)
  \/ \E known \in BOOLEAN, pose \in Poses, stamp \in 0 .. MaxRos + 1 :
       Publish(known, pose, stamp)
  \/ PatchClock

PatchVars == <<costmap, patch, fine>>

PatchTypeOK ==
  /\ costmap = NoCostmap \/ costmap.grid \in Sources
  /\ patch # NoPatch => patch.pose \in Poses /\ patch.grid \in Sources
  /\ fine \in BOOLEAN

Near(p, q, reach) == p.x - q.x \in -reach .. reach /\ p.y - q.y \in -reach .. reach

\* Every cell of a published patch shows what the plane holds at the cell of
\* the costmap in which it lies, turned as the robot and the costmap stand; on
\* a border it may be either side's, and where no cell lies it is unknown.
PatchShowsPlane ==
  patch # NoPatch =>
    \A i \in Cells(Output) :
      LET place == ToMap(patch.pose, CellCentre([Output EXCEPT !.q = 0], i))
          shows(j) == patch.data[i] = Plane(CellCentre(patch.grid, j))
          within(j, reach) == Near(place, CellCentre(patch.grid, j), reach)
      IN  /\ \A j \in Cells(patch.grid) :
               within(j, (patch.grid.unit - 1) \div 2) => shows(j)
          /\ \/ patch.data[i] = -1
             \/ \E j \in Cells(patch.grid) :
                  within(j, patch.grid.unit \div 2) /\ shows(j)
=============================================================================
