------------------------------ MODULE TerrainGrid ------------------------------
(***************************************************************************)
(* From an elevation raster to a printable solid (raster/processing.py,    *)
(* raster/sampling.py, scaling/policy.py, engine/preflight.py,             *)
(* mesh/terrain.py), as build_local_terrain runs them: pixel windows for   *)
(* the requested area, a metric raster cropped to what the source covers,  *)
(* small holes filled, a grid within the budgets, a vertical scale, the    *)
(* closed mesh, and the check of the saved NoData mask when the bundle is  *)
(* reopened.  Each stage is a state; it keeps only what a later one uses.  *)
(*                                                                         *)
(* Lengths are whole numbers and ratios pairs of them, so rounding errors  *)
(* of floats are left out.  Rasters run north to south and are as wide as  *)
(* a turn at most; a row window is like a column window without the turn.  *)
(* GDAL's reprojection is external: it may cover and lack any cells.       *)
(***************************************************************************)
EXTENDS Integers, FiniteSets, Sequences, SequencesExt, TLC

CONSTANTS
    HalfTurn,          \* 180 degrees of longitude
    Lefts, Widths, Steps,  \* west edges (from -360 degrees), columns, degrees per column
    CoverSides,        \* sides of reprojected rasters, with any gaps
    GridSides,         \* sides of metric rasters
    MaxHole,           \* nodata_max_hole_pixels
    MaxMissing,        \* bound: cells without data
    Spacings,          \* samples wanted, 0 for all there are
    ModelWidth,
    CellBudgets, MemoryBudgets,  \* in cells
    TriangleBudgets,   \* 0: none
    Elevations,        \* of the terrain
    Base, MinBase, HeightLimit, Visible,  \* heights of the model
    MinScale, MaxScale \* vertical exaggerations

ASSUME TerrainAssumption ==
    /\ HalfTurn \in Nat /\ Widths \cup Steps \subseteq Nat \ {0} /\ Lefts \subseteq Nat
    /\ CoverSides \cup GridSides \subseteq Nat \ {0, 1}
    /\ MaxHole \in Nat /\ MaxMissing \in Nat /\ Spacings \subseteq Nat /\ ModelWidth \in Nat \ {0}
    /\ CellBudgets \cup TriangleBudgets \cup MemoryBudgets \subseteq Nat /\ Elevations \subseteq Int
    /\ \A b \in CellBudgets : b >= 16
    /\ \A t \in TriangleBudgets : t = 0 \/ t >= 12
    /\ {Base, HeightLimit, Visible, MaxScale} \subseteq Nat /\ {MinBase, MinScale} \subseteq Nat \ {0}
    /\ Base < HeightLimit /\ MinScale <= MaxScale

VARIABLES
    gpc,      \* the stage reached, or how it ended
    area,     \* the source, the request and the windows selected
    cover,    \* the reprojected raster: rows, columns, covered cells, the crop
    grid,     \* the metric raster: rows, columns, cells without data
    budget,   \* what sampling may use
    target,   \* rows and columns sampled to
    relief    \* the terrain's heights and how they are scaled

terrainVars == <<gpc, area, cover, grid, budget, target, relief>>

Turn     == 2 * HalfTurn
Nothing  == <<>>
AtLeast(a, b) == IF a >= b THEN a ELSE b
AtMost(a, b)  == IF a <= b THEN a ELSE b
UpDiv(a, b)   == -((-a) \div b)
Cells(rows, columns) == (0..rows - 1) \X (0..columns - 1)

-----------------------------------------------------------------------------
(* The area of interest *)

AreaSources ==
    {s \in [left : {l - Turn : l \in Lefts}, width : Widths, step : Steps, mirrored : BOOLEAN] :
        s.width * s.step <= Turn}
AreaRequests ==
    {q \in [west : -HalfTurn..HalfTurn, east : -HalfTurn..HalfTurn] : q.west # q.east}
RightEdge(s) == s.left + s.width * s.step

\* A request across the antimeridian has two parts.
BboxParts(q) ==
    IF q.west > q.east
    THEN <<[west |-> q.west, east |-> HalfTurn], [west |-> -HalfTurn, east |-> q.east]>>
    ELSE <<q>>

\* A part is looked for a turn to the west, where it is, and a turn to the east.
Shifted(part, turns) == [west |-> part.west + turns * Turn, east |-> part.east + turns * Turn]
OverlapWidth(s, part) == AtLeast(0, AtMost(part.east, RightEdge(s)) - AtLeast(part.west, s.left))
InSourceDomain(s, part) ==
    LET width(t) == OverlapWidth(s, Shifted(part, t))
    IN Shifted(part, CHOOSE t \in -1..1 :
            /\ \A u \in -1..1 : width(u) <= width(t)
            /\ \A u \in -1..1 : u < t => width(u) < width(t))

\* Columns from "from" up to "to", without "to".
WindowOf(s, part) ==
    IF s.mirrored
    THEN [from |-> (RightEdge(s) - part.east) \div s.step,
          to   |-> UpDiv(RightEdge(s) - part.west, s.step)]
    ELSE [from |-> (part.west - s.left) \div s.step,
          to   |-> UpDiv(part.east - s.left, s.step)]
Clipped(s, w) == [from |-> AtLeast(0, w.from), to |-> AtMost(s.width, w.to)]

\* Mutant: windows that do not meet at the seam are joined.
SeamUnchecked(s, first, second) == TRUE

\* The second window begins where the first ends, a whole number of turns apart.
MeetAtSeam(s, first, second) ==
    ((s.left + second.from * s.step) - (s.left + first.to * s.step)) % Turn = 0

\* The windows to read one after the other, none if the request is refused.
JoinedWindows(s, windows) ==
    IF Len(windows) # 2 THEN windows
    ELSE IF s.mirrored THEN <<>>
    ELSE LET a == windows[1]  b == windows[2] IN
         IF AtLeast(a.from, b.from) < AtMost(a.to, b.to)
         THEN <<[from |-> AtMost(a.from, b.from), to |-> AtLeast(a.to, b.to)]>>
         ELSE IF MeetAtSeam(s, a, b) THEN windows ELSE <<>>

ColumnsOf(windows) ==
    FlattenSeq([i \in DOMAIN windows |->
        [n \in 1..windows[i].to - windows[i].from |-> windows[i].from + n - 1]])

WindowForAoi(s, q) ==
    LET parts     == [i \in DOMAIN BboxParts(q) |-> InSourceDomain(s, BboxParts(q)[i])]
        window(i) == Clipped(s, WindowOf(s, parts[i]))
        found     == FlattenSeq([i \in DOMAIN parts |->
                         IF window(i).from < window(i).to THEN <<window(i)>> ELSE <<>>])
    IN [windows |-> JoinedWindows(s, found),
        within  |-> /\ Len(found) = Len(parts)
                    /\ \A i \in DOMAIN parts :
                          s.left <= parts[i].west /\ parts[i].east <= RightEdge(s)]

-----------------------------------------------------------------------------
(* The largest covered rectangle, by a stack of rising heights *)

\* How many covered cells end above each row, going up, in each column.
HeightsAbove(c) ==
    LET height[r \in 0..c.rows] ==
            [k \in 0..c.columns |->
                IF r = 0 \/ <<r - 1, k>> \notin c.covered THEN 0 ELSE height[r - 1][k] + 1]
    IN height
RectangleArea(b) == (b.bottom - b.top) * (b.right - b.left)
NoRectangle == [top |-> 0, bottom |-> 0, left |-> 0, right |-> 0]

\* Mutant: an entry does not begin where the higher ones before it began.
StartsHere(stack, kept, column) == column

\* The entry of a height begins where the lowest of the higher ones before it did.
StartOf(stack, kept, column) == IF kept = Len(stack) THEN column ELSE stack[kept + 1].at

\* The entries that are not higher than a column, the first ones of the stack.
Kept(stack, height) == Max({0} \cup {i \in DOMAIN stack : stack[i].height <= height})

\* The rectangle of an entry that ends before a column.
EndedBefore(row, column, e) ==
    [top |-> row - e.height + 1, bottom |-> row + 1, left |-> e.at, right |-> column]

\* Entries higher than this column end here, the last one first.
StackColumn(row, height, column, acc) ==
    LET stack   == acc.stack
        kept    == Kept(stack, height)
        size(i) == RectangleArea(EndedBefore(row, column, stack[i]))
        popped  == kept + 1..Len(stack)
        largest == {i \in popped : /\ size(i) > RectangleArea(acc.best)
                                   /\ \A j \in popped : size(j) < size(i) \/ (size(j) = size(i) /\ j <= i)}
    IN [best  |-> IF largest = {} THEN acc.best
                  ELSE EndedBefore(row, column, stack[CHOOSE i \in largest : TRUE]),
        stack |-> IF kept # 0 /\ stack[kept].height = height THEN SubSeq(stack, 1, kept)
                  ELSE Append(SubSeq(stack, 1, kept),
                              [at |-> StartOf(stack, kept, column), height |-> height])]

\* One column more than there are ends what is left.
ScanRow(row, heights, columns, best) ==
    LET acc[k \in 0..columns + 1] ==
            IF k = 0 THEN [best |-> best, stack |-> <<>>]
            ELSE StackColumn(row, heights[k - 1], k - 1, acc[k - 1])
    IN acc[columns + 1].best

LargestTrueRectangle(c) ==
    LET heights == HeightsAbove(c)
        best[r \in 0..c.rows] ==
            IF r = 0 THEN NoRectangle ELSE ScanRow(r - 1, heights[r], c.columns, best[r - 1])
    IN best[c.rows]

-----------------------------------------------------------------------------
(* Holes and sampling *)

Around(cell, missing) ==
    {m \in missing : m[1] - cell[1] \in -1..1 /\ m[2] - cell[2] \in -1..1}
HoleOf(cell, missing) ==
    LET reached[n \in 0..Cardinality(missing)] ==
            IF n = 0 THEN {cell} ELSE UNION {Around(m, missing) : m \in reached[n - 1]}
    IN reached[Cardinality(missing)]
AtEdge(g, cell) == cell[1] \in {0, g.rows - 1} \/ cell[2] \in {0, g.columns - 1}

\* At most a twentieth is missing, in small holes away from the edge.
Fillable(g) ==
    /\ 20 * Cardinality(g.missing) <= g.rows * g.columns
    /\ \A cell \in g.missing :
          LET hole == HoleOf(cell, g.missing)
          IN Cardinality(hole) <= MaxHole /\ \A h \in hole : ~AtEdge(g, h)

TriangleCount(t) == 4 * t[1] * t[2] - 4

\* Two samples at least and never more than the raster has; square metres.
ShapeForSpacing(g, spacing) ==
    IF spacing = 0 THEN <<g.rows, g.columns>>
    ELSE <<AtMost(g.rows, AtLeast(2, (ModelWidth * g.rows) \div (g.columns * spacing) + 1)),
           AtMost(g.columns, AtLeast(2, ModelWidth \div spacing + 1))>>

CellLimit(b) ==
    AtMost(AtMost(b.cells, AtLeast(16, b.memory)),
           IF b.triangles = 0 THEN b.cells ELSE AtLeast(4, (b.triangles + 4) \div 4))

\* floor(side / sqrt(cells / limit))
Reduced(side, other, limit) ==
    AtLeast(2, CHOOSE k \in 0..side :
                /\ k * k * other <= side * limit
                /\ (k + 1) * (k + 1) * other > side * limit)

\* One sample less along the side that has kept the larger share.  Rows that
\* have kept the smaller one are never reduced, though: with two columns left
\* the loop ends.
Shrunk(t, shape, limit) ==
    LET less[u \in (2..t[1]) \X (2..t[2])] ==
            IF u[1] * u[2] <= limit THEN u
            ELSE IF u[1] * shape[2] >= u[2] * shape[1] /\ u[1] > 2 THEN less[<<u[1] - 1, u[2]>>]
            ELSE IF u[2] > 2 THEN less[<<u[1], u[2] - 1>>]
            ELSE u
    IN less[t]
FitShapeToBudget(shape, limit) ==
    IF shape[1] * shape[2] <= limit THEN shape
    ELSE Shrunk(<<Reduced(shape[1], shape[2], limit), Reduced(shape[2], shape[1], limit)>>,
                shape, limit)

\* Every sample that a missing cell reaches into.
ResampledMask(g, t) ==
    {s \in Cells(t[1], t[2]) : \E m \in g.missing :
        /\ m[1] * t[1] < (s[1] + 1) * g.rows /\ s[1] * g.rows < (m[1] + 1) * t[1]
        /\ m[2] * t[2] < (s[2] + 1) * g.columns /\ s[2] * g.columns < (m[2] + 1) * t[2]}

-----------------------------------------------------------------------------
(* The vertical scale, as a ratio *)

Clip(x) ==
    IF x[1] < MinScale * x[2] THEN <<MinScale, 1>>
    ELSE IF x[1] > MaxScale * x[2] THEN <<MaxScale, 1>> ELSE x
HeightBudget == HeightLimit - Base
PolicyScale(mode, custom, robust) ==
    CASE mode = "natural" -> Clip(<<1, 1>>)
      [] mode = "custom"  -> Clip(<<custom, 1>>)
      [] mode = "fit"     -> IF robust = 0 THEN <<MaxScale, 1>> ELSE Clip(<<HeightBudget, robust>>)
      [] mode = "auto"    -> IF robust = 0 THEN <<MaxScale, 1>>
                             ELSE Clip(<<AtMost(HeightBudget, AtLeast(Visible, robust)), robust>>)

\* The scale that just reaches the height limit, where the policy would exceed it.
Capped(mode, policy, rise) ==
    IF rise <= 0 \/ policy[1] * rise <= HeightBudget * policy[2] THEN policy
    ELSE IF mode \in {"fit", "auto"} /\ HeightBudget >= MinScale * rise THEN <<HeightBudget, rise>>
    ELSE Nothing

\* Heights times the denominator of the scale.
ModelHeight(r, elevation) == Base * r.scale[2] + (elevation - r.baseline) * r.scale[1]

-----------------------------------------------------------------------------
(* The mesh: vertices are a layer, a row and a column *)

TopFaces(t) ==
    UNION {{<<<<1, r, c>>, <<1, r, c + 1>>, <<1, r + 1, c + 1>>>>,
            <<<<1, r, c>>, <<1, r + 1, c + 1>>, <<1, r + 1, c>>>>} :
           r \in 0..t[1] - 2, c \in 0..t[2] - 2}
BottomFaces(t) ==
    UNION {{<<<<0, r, c>>, <<0, r + 1, c + 1>>, <<0, r, c + 1>>>>,
            <<<<0, r, c>>, <<0, r + 1, c>>, <<0, r + 1, c + 1>>>>} :
           r \in 0..t[1] - 2, c \in 0..t[2] - 2}

\* Along the south edge, up the east, back along the north, down the west.
Perimeter(t) ==
    [i \in 1..t[2] |-> <<0, i - 1>>] \o [i \in 1..t[1] - 1 |-> <<i, t[2] - 1>>]
    \o [i \in 1..t[2] - 1 |-> <<t[1] - 1, t[2] - 1 - i>>] \o [i \in 1..t[1] - 2 |-> <<t[1] - 1 - i, 0>>]
WallFaces(t) ==
    LET round == Perimeter(t)
        next(i) == round[(i % Len(round)) + 1]
        at(layer, v) == <<layer, v[1], v[2]>>
    IN UNION {{<<at(1, round[i]), at(0, round[i]), at(0, next(i))>>,
               <<at(1, round[i]), at(0, next(i)), at(1, next(i))>>} : i \in DOMAIN round}
RectangularFaces(t) == TopFaces(t) \cup BottomFaces(t) \cup WallFaces(t)
DirectedEdges(faces) == UNION {{<<f[1], f[2]>>, <<f[2], f[3]>>, <<f[3], f[1]>>} : f \in faces}

-----------------------------------------------------------------------------
(* The NoData check of verify_artifact_bundle *)

\* The recorded share of missing cells bounds the share of marked samples; the
\* source's cells are as large as the metric raster's.
MaskWithinBounds(g, t) ==
    LET missing == Cardinality(g.missing)
        marked  == Cardinality(ResampledMask(g, t))
        cells   == g.rows * g.columns
        samples == t[1] * t[2]
        factor  == UpDiv(g.rows * t[2] + g.columns * t[1], 2 * samples)
    IN IF missing = 0 THEN marked = 0
       ELSE IF factor <= 1 THEN marked * cells = missing * samples
       ELSE /\ (marked + 1) * cells >= missing * samples
            /\ (marked - 1) * cells
                  <= AtMost(cells, missing * (factor + 1) * (factor + 1)) * samples

-----------------------------------------------------------------------------
(* The stages *)

TerrainInit ==
    /\ gpc = "start"
    /\ area = Nothing /\ cover = Nothing /\ grid = Nothing /\ budget = Nothing
    /\ target = Nothing /\ relief = Nothing

End(how) ==
    /\ gpc' = how /\ area' = Nothing /\ cover' = Nothing /\ grid' = Nothing
    /\ budget' = Nothing /\ target' = Nothing /\ relief' = Nothing
Refuse == End("refused")

\* Two columns at least; without a request the whole source is read.
SelectArea ==
    /\ gpc = "start" /\ UNCHANGED <<cover, grid, budget, target, relief>>
    /\ \/ gpc' = "selected" /\ UNCHANGED area
       \/ \E s \in AreaSources, q \in AreaRequests :
             LET found == WindowForAoi(s, q) IN
             IF Len(ColumnsOf(found.windows)) < 2 THEN gpc' = "refused" /\ UNCHANGED area
             ELSE /\ gpc' = "selected"
                  /\ area' = [source |-> s, request |-> q, windows |-> found.windows,
                              within |-> found.within]

\* The unit is what the band and the tags all declare, metres if none does; a
\* unit nobody knows, values that do not decode and an empty area are refused.
ReadRaster ==
    /\ gpc = "selected"
    /\ \E declared \in SUBSET {"metre", "foot", "survey_foot", "unknown"}, decodes \in BOOLEAN :
          IF "unknown" \in declared \/ Cardinality(declared) > 1 \/ ~decodes THEN Refuse
          ELSE gpc' = "read" /\ area' = Nothing /\ UNCHANGED <<cover, grid, budget, target, relief>>

MissingOf(rows, columns) == {{}} \cup {Range(f) : f \in [1..MaxMissing -> Cells(rows, columns)]}

\* A north-up raster in metres is left as it is.
KeepMetricGrid ==
    /\ gpc = "read" /\ gpc' = "gridded" /\ UNCHANGED <<area, cover, budget, target, relief>>
    /\ \E rows, columns \in GridSides : \E missing \in MissingOf(rows, columns) :
          grid' = [rows |-> rows, columns |-> columns, missing |-> missing]

Reproject ==
    /\ gpc = "read" /\ gpc' = "covered" /\ UNCHANGED <<area, grid, budget, target, relief>>
    /\ \E rows, columns \in CoverSides : \E covered \in SUBSET Cells(rows, columns) :
          cover' = [rows |-> rows, columns |-> columns, covered |-> covered]

CropToSourceCoverage ==
    /\ gpc = "covered"
    /\ LET crop == IF cover.covered = Cells(cover.rows, cover.columns)
                   THEN [top |-> 0, bottom |-> cover.rows, left |-> 0, right |-> cover.columns]
                   ELSE LargestTrueRectangle(cover)
           rows == crop.bottom - crop.top
           columns == crop.right - crop.left
       IN IF rows < 2 \/ columns < 2 THEN Refuse
          ELSE /\ gpc' = "gridded" /\ cover' = [rows |-> cover.rows, columns |-> cover.columns,
                                                  covered |-> cover.covered, crop |-> crop]
               /\ \E missing \in MissingOf(rows, columns) :
                     grid' = [rows |-> rows, columns |-> columns, missing |-> missing]
               /\ UNCHANGED <<area, budget, target, relief>>

FillSmallNodata ==
    /\ gpc = "gridded"
    /\ IF Fillable(grid)
       THEN gpc' = "filled" /\ cover' = Nothing /\ UNCHANGED <<area, grid, budget, target, relief>>
       ELSE Refuse

\* A strict budget refuses what it would have to reduce.
SampleGrid ==
    /\ gpc = "filled"
    /\ \E cells \in CellBudgets, memory \in MemoryBudgets, triangles \in TriangleBudgets,
          spacing \in Spacings, strict \in BOOLEAN :
          LET limits == [cells |-> cells, memory |-> memory, triangles |-> triangles]
              wanted == ShapeForSpacing(grid, spacing)
              fitted == FitShapeToBudget(wanted, CellLimit(limits))
          IN IF strict /\ fitted # wanted THEN Refuse
             ELSE /\ gpc' = "sampled" /\ target' = fitted
                  /\ budget' = [cells |-> cells, memory |-> memory, triangles |-> triangles,
                                wanted |-> wanted]
                  /\ UNCHANGED <<area, cover, grid, relief>>

\* The footprint must fit the printer and the depth asked for the raster.
ResolveScaling ==
    /\ gpc = "sampled"
    /\ \E low, high, robust \in Elevations, zero \in Elevations \cup {0},
          mode \in {"natural", "custom", "fit", "auto"}, custom \in {1, MaxScale}, fits \in BOOLEAN :
          /\ low <= robust /\ robust <= high
          /\ mode # "custom" => custom = 1
          /\ LET policy == PolicyScale(mode, custom, robust - low)
                 scale  == Capped(mode, policy, high - zero)
                 r      == [low |-> low, high |-> high, baseline |-> zero, scale |-> scale]
             IN IF ~fits \/ scale = Nothing THEN Refuse
                ELSE IF ModelHeight(r, low) < MinBase * scale[2] THEN Refuse
                ELSE IF ModelHeight(r, high) > HeightLimit * scale[2] THEN End("too_high")
                ELSE gpc' = "scaled" /\ relief' = r /\ UNCHANGED <<area, cover, grid, budget, target>>

\* The gates once more, from the reports.
Gates ==
    [cells     |-> target[1] * target[2] <= budget.cells,
     triangles |-> TriangleCount(target) <=
        (IF budget.triangles = 0 THEN 4 * budget.cells - 4 ELSE budget.triangles),
     memory    |-> target[1] * target[2] <= budget.memory,
     height    |-> ModelHeight(relief, relief.high) <= HeightLimit * relief.scale[2]]

Preflight ==
    /\ gpc = "scaled"
    /\ IF \A g \in DOMAIN Gates : Gates[g]
       THEN /\ gpc' = "preflighted" /\ budget' = Nothing /\ relief' = Nothing
            /\ UNCHANGED <<area, cover, grid, target>>
       ELSE Refuse

\* The mesh is a function of the target.
BuildMesh ==
    /\ gpc = "preflighted" /\ gpc' = "meshed"
    /\ UNCHANGED <<area, cover, grid, budget, target, relief>>

VerifyMask ==
    /\ gpc = "meshed" /\ End(IF MaskWithinBounds(grid, target) THEN "accepted" ELSE "rejected")

TerrainNext ==
    \/ SelectArea \/ ReadRaster \/ KeepMetricGrid \/ Reproject \/ CropToSourceCoverage
    \/ FillSmallNodata \/ SampleGrid \/ ResolveScaling \/ Preflight \/ BuildMesh \/ VerifyMask

TerrainSpec == TerrainInit /\ [][TerrainNext]_terrainVars

-----------------------------------------------------------------------------
(* Properties *)

TerrainTypeOK ==
    /\ gpc \in {"start", "selected", "read", "covered", "gridded", "filled", "sampled", "scaled",
                "preflighted", "meshed", "refused", "too_high", "accepted", "rejected"}
    /\ target = Nothing \/ (target[1] \in Nat /\ target[2] \in Nat)
    /\ grid = Nothing \/ grid.missing \subseteq Cells(grid.rows, grid.columns)

LongitudesOf(s, column) ==
    LET west == IF s.mirrored THEN RightEdge(s) - (column + 1) * s.step ELSE s.left + column * s.step
    IN {x % Turn : x \in west..west + s.step - 1}
LongitudesAsked(q) ==
    {x % Turn : x \in q.west..(IF q.west < q.east THEN q.east ELSE q.east + Turn) - 1}

\* Whatever the source's longitudes are and wherever the antimeridian falls, the
\* columns read for an area follow one another around the globe, show no
\* longitude twice and nothing that was not asked for; and when the report says
\* that the area lies within the source, they cover it.
AoiIsCoveredOnce ==
    (gpc = "selected" /\ area # Nothing) =>
        LET s == area.source
            columns == ColumnsOf(area.windows)
            shown(i) == LongitudesOf(s, columns[i])
        IN /\ \A i, j \in DOMAIN columns : i # j => shown(i) \cap shown(j) = {}
           /\ \A i \in DOMAIN columns : shown(i) \cap LongitudesAsked(area.request) # {}
           /\ \A i \in DOMAIN columns \ {1} :
                 \E x \in shown(i - 1), y \in shown(i) : (y - x) % Turn \in {1, Turn - 1}
           /\ area.within =>
                 LongitudesAsked(area.request) \subseteq UNION {shown(i) : i \in DOMAIN columns}

RectanglesOf(c) ==
    {b \in [top : 0..c.rows, bottom : 0..c.rows, left : 0..c.columns, right : 0..c.columns] :
        /\ b.top < b.bottom /\ b.left < b.right
        /\ (b.top..b.bottom - 1) \X (b.left..b.right - 1) \subseteq c.covered}

\* The crop is covered, and no covered rectangle is larger.
CropIsLargest ==
    (gpc = "gridded" /\ cover # Nothing) =>
        /\ cover.crop \in RectanglesOf(cover)
        /\ \A b \in RectanglesOf(cover) : RectangleArea(b) <= RectangleArea(cover.crop)

Affordable(t) ==
    /\ t[1] * t[2] <= budget.cells
    /\ budget.triangles # 0 => TriangleCount(t) <= budget.triangles
    /\ budget.memory >= 16 => t[1] * t[2] <= budget.memory

\* A grid is within every budget unless it has come down to two columns; it has
\* two samples a side, none that the raster has not, and all that were wanted if
\* they fit.
SamplesFitBudgets ==
    gpc = "sampled" =>
        /\ Affordable(target) \/ target[2] = 2
        /\ target[1] \in 2..grid.rows /\ target[2] \in 2..grid.columns
        /\ budget.memory >= 16 /\ Affordable(budget.wanted) => target = budget.wanted

GatesFailForCause ==
    gpc = "scaled" =>
        \A g \in DOMAIN Gates :
            Gates[g] \/ (g = "memory" /\ budget.memory < 16) \/ (g # "height" /\ target[2] = 2)

\* Every edge of the solid is walked once each way.
MeshIsClosed ==
    gpc = "meshed" =>
        LET faces == RectangularFaces(target)
            edges == DirectedEdges(faces)
        IN /\ Cardinality(faces) = TriangleCount(target)
           /\ Cardinality(edges) = 3 * Cardinality(faces)
           /\ \A e \in edges : <<e[2], e[1]>> \in edges

\* What the stages hand on is what the next may rely on, so that none refuses
\* late: the crop, the samples and the closed mesh are as promised, no scale
\* that was resolved exceeds the height limit, and a preflight gate fails only
\* for a memory budget below the sixteen cells that sampling insists on or for
\* a grid of two columns.
TerrainIsPrintable ==
    /\ CropIsLargest /\ SamplesFitBudgets /\ GatesFailForCause /\ MeshIsClosed
    /\ gpc # "too_high"

\* "--resource-budget-mode adapt deterministically coarsens a request when a
\* cell, triangle, or memory limit is exceeded" (README.md:271): a grid that
\* sampling settles on is within the limits.
AdaptedGridIsAffordable == gpc = "sampled" => Affordable(target)

\* The saved mask is to "conservatively retain any pre-sampling NoData
\* footprint" (raster/processing.py:701); a bundle with such a mask is accepted
\* when it is reopened.
GenuineMaskIsAccepted == gpc # "rejected"
=============================================================================
