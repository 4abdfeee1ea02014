------------------------------- MODULE TileSet -------------------------------
(***************************************************************************)
(* A built terrain cut into tiles (tiling/layout.py, extract.py, seams.py, *)
(* meshes.py): the layout, the extraction of every tile's samples from a   *)
(* verified bundle, the comparison along the seams, and one mesh per tile. *)
(* Both commands work in a staging directory and publish what they have    *)
(* verified again; meanwhile the bundle may be edited, replaced by another *)
(* build, or gain a slicing record, and a published tile may be damaged.   *)
(*                                                                         *)
(* Samples and cells are pairs <<row, column>> from the north-west corner; *)
(* a sample's value is the moment it was written, so an edit never brings  *)
(* back an earlier raster.  Lengths are in micrometres.  The NoData mask   *)
(* is cut and compared like the elevations and is not kept apart.          *)
(***************************************************************************)
EXTENDS Integers, FiniteSets

CONSTANTS
    TilePlans,        \* requests: rows and columns of cells, size of a cell, drift of
                      \* the measured size, largest tile, overlap, printer profile
    SizeTolerance,    \* _TILE_SIZE_TOLERANCE_MM
    EditedLines,      \* bound: rows and columns whose samples may be edited
    MaxTilingEvents   \* bound: edits, rebuilds, records and damages

ASSUME TilingAssumption ==
    /\ \A p \in TilePlans :
          /\ {p.rows, p.columns, p.cell, p.maxTile} \subseteq Nat \ {0}
          /\ {p.drift, p.overlap} \subseteq Nat
    /\ SizeTolerance \in Nat /\ EditedLines \subseteq Nat /\ MaxTilingEvents \in Nat

VARIABLES
    chosen,        \* the layout's configuration
    build,        \* the bundle: its raster file, the manifest and what that records
    rasters,      \* each raster file's samples
    recordedAs,   \* what every manifest written so far records
    tpc,          \* where tile-extract is
    opened,       \* the raster file it reads
    tileSet,      \* each tile's samples and their checksum
    boundTo,      \* the manifest the assembly names
    mpc,          \* where tile-mesh is
    meshOf,       \* the samples each tile's mesh is built from
    tilingEvents

tilingVars == <<chosen, build, rasters, recordedAs, tpc, opened, tileSet, boundTo, mpc, meshOf,
               tilingEvents>>

NotYet == -1
Larger(a, b)  == IF a >= b THEN a ELSE b
Smaller(a, b) == IF a <= b THEN a ELSE b
RoundedUp(a, b) == -((-a) \div b)
Near(a, b, tolerance) == a - b <= tolerance /\ b - a <= tolerance

-----------------------------------------------------------------------------
(* The layout *)

ModelSize(p) == [width |-> p.columns * p.cell + p.drift, depth |-> p.rows * p.cell + p.drift]

\* A model a hair above a whole number of tiles does not get one more.
TileCountForAxis(size, maximum) ==
    LET nearest == (2 * size + maximum) \div (2 * maximum) IN
    IF nearest >= 1 /\ Near(size, nearest * maximum, SizeTolerance)
    THEN nearest ELSE Larger(1, RoundedUp(size, maximum))

TileRows(p)    == TileCountForAxis(ModelSize(p).depth, p.maxTile)
TileColumns(p) == TileCountForAxis(ModelSize(p).width, p.maxTile)

\* The first tiles of an axis take the cells that are left over.
PartStart(cells, parts, i) == i * (cells \div parts) + Smaller(i, cells % parts)

LayoutExists(p) == TileRows(p) <= p.rows /\ TileColumns(p) <= p.columns

TilesOf(p) == (0..TileRows(p) - 1) \X (0..TileColumns(p) - 1)

\* Half-open windows, of cells and of samples.
CoreCells(p, t) ==
    [top |-> PartStart(p.rows, TileRows(p), t[1]),
     bottom |-> PartStart(p.rows, TileRows(p), t[1] + 1),
     left |-> PartStart(p.columns, TileColumns(p), t[2]),
     right |-> PartStart(p.columns, TileColumns(p), t[2] + 1)]
CoreSamples(p, t) ==
    LET w == CoreCells(p, t) IN [w EXCEPT !.bottom = @ + 1, !.right = @ + 1]
SamplingWindow(p, t) ==
    LET w == CoreCells(p, t) IN
    [top |-> Larger(0, w.top - p.overlap), bottom |-> Smaller(p.rows + 1, w.bottom + p.overlap + 1),
     left |-> Larger(0, w.left - p.overlap),
     right |-> Smaller(p.columns + 1, w.right + p.overlap + 1)]

\* A map with one key more, or another value for it.
With(map, key, value) ==
    [k \in DOMAIN map \cup {key} |-> IF k = key THEN value ELSE map[k]]

PointsOf(w) == (w.top..w.bottom - 1) \X (w.left..w.right - 1)
Samples(p) == (0..p.rows) \X (0..p.columns)
Cut(raster, w) == [s \in PointsOf(w) |-> raster[s]]

East(t)  == <<t[1], t[2] + 1>>
South(t) == <<t[1] + 1, t[2]>>
Neighbours(p) ==
    {pair \in TilesOf(p) \X TilesOf(p) : pair[2] \in {East(pair[1]), South(pair[1])}}

\* tile-extract takes the tiles in row-major order, and so does tile-mesh.
TileBefore(t, u) == t[1] < u[1] \/ (t[1] = u[1] /\ t[2] < u[2])
NextTile(p, done) ==
    CHOOSE t \in TilesOf(p) \ done : \A u \in TilesOf(p) \ done : u = t \/ TileBefore(t, u)

-----------------------------------------------------------------------------
(* Seams *)

Intersection(v, w) ==
    [top |-> Larger(v.top, w.top), bottom |-> Smaller(v.bottom, w.bottom),
     left |-> Larger(v.left, w.left), right |-> Smaller(v.right, w.right)]

SharedCore(p, t, u) == Intersection(CoreSamples(p, t), CoreSamples(p, u))

AgreeOn(first, second, w) == \A s \in PointsOf(w) : first[s] = second[s]

PairAgrees(p, t, u, set) ==
    LET overlap == Intersection(SamplingWindow(p, t), SamplingWindow(p, u)) IN
    /\ PointsOf(overlap) # {}
    /\ AgreeOn(set[t].samples, set[u].samples, SharedCore(p, t, u))
    /\ AgreeOn(set[t].samples, set[u].samples, overlap)

SeamsPass(p, set) == \A pair \in Neighbours(p) : PairAgrees(p, pair[1], pair[2], set)

-----------------------------------------------------------------------------
(* The bundle *)

TilingInit ==
    /\ chosen \in TilePlans
    /\ build = [file |-> 0, manifest |-> 0]
    /\ rasters = [file \in {0} |-> [s \in Samples(chosen) |-> 0]]
    /\ recordedAs = [manifest \in {0} |-> [s \in Samples(chosen) |-> 0]]
    /\ tpc = "idle" /\ mpc = "idle"
    /\ opened = NotYet /\ boundTo = NotYet
    /\ tileSet = [t \in {} |-> NotYet] /\ meshOf = [t \in {} |-> NotYet]
    /\ tilingEvents = 0

\* _verify_source_bundle: every file has the digest the manifest records.
BundleSound == rasters[build.file] = recordedAs[build.manifest]

Happens == tilingEvents < MaxTilingEvents /\ tilingEvents' = tilingEvents + 1

\* A sample of the bundle's raster is rewritten in place.
EditRaster ==
    /\ Happens
    /\ \E s \in Samples(chosen) \cap (EditedLines \X EditedLines) :
          rasters' = [rasters EXCEPT ![build.file][s] = tilingEvents + 1]
    /\ UNCHANGED <<chosen, build, recordedAs, tpc, opened, tileSet, boundTo, mpc, meshOf>>

\* Another build of the same size takes the bundle's place.
RebuildBundle ==
    /\ Happens
    /\ LET fresh == [s \in Samples(chosen) |-> tilingEvents + 1]
           next == tilingEvents + 1 IN
       /\ build' = [file |-> next, manifest |-> next]
       /\ rasters' = With(rasters, next, fresh)
       /\ recordedAs' = With(recordedAs, next, fresh)
    /\ UNCHANGED <<chosen, tpc, opened, tileSet, boundTo, mpc, meshOf>>

\* A slicing is recorded in the bundle: the manifest changes, the raster does not.
RecordSlicing ==
    /\ Happens
    /\ build' = [build EXCEPT !.manifest = tilingEvents + 1]
    /\ recordedAs' = With(recordedAs, tilingEvents + 1, recordedAs[build.manifest])
    /\ UNCHANGED <<chosen, rasters, tpc, opened, tileSet, boundTo, mpc, meshOf>>

\* A raster of the published tile set is rewritten.
DamageTile ==
    /\ tpc = "published" /\ Happens
    /\ \E t \in DOMAIN tileSet :
       \E s \in DOMAIN tileSet[t].samples \cap (EditedLines \X EditedLines) :
          tileSet' = [tileSet EXCEPT ![t].samples[s] = tilingEvents + 1]
    /\ UNCHANGED <<chosen, build, rasters, recordedAs, tpc, opened, boundTo, mpc, meshOf>>

-----------------------------------------------------------------------------
(* tile-extract *)

\* The layout is read, and the bundle verified; the assembly will name its manifest.
VerifyBundle ==
    /\ tpc = "idle"
    /\ IF LayoutExists(chosen) /\ BundleSound
       THEN tpc' = "verified" /\ boundTo' = build.manifest
       ELSE tpc' = "refused" /\ UNCHANGED boundTo
    /\ UNCHANGED <<chosen, build, rasters, recordedAs, opened, tileSet, mpc, meshOf, tilingEvents>>

OpenRaster ==
    /\ tpc = "verified"
    /\ tpc' = "cutting" /\ opened' = build.file
    /\ UNCHANGED <<chosen, build, rasters, recordedAs, tileSet, boundTo, mpc, meshOf, tilingEvents>>

ExtractOne ==
    /\ tpc = "cutting" /\ DOMAIN tileSet # TilesOf(chosen)
    /\ LET t == NextTile(chosen, DOMAIN tileSet)
           samples == Cut(rasters[opened], SamplingWindow(chosen, t)) IN
       tileSet' = With(tileSet, t, [samples |-> samples, sha256 |-> samples])
    /\ UNCHANGED <<chosen, build, rasters, recordedAs, tpc, opened, boundTo, mpc, meshOf,
                   tilingEvents>>

MeasureSeams ==
    /\ tpc = "cutting" /\ DOMAIN tileSet = TilesOf(chosen)
    /\ tpc' = IF SeamsPass(chosen, tileSet) THEN "assembled" ELSE "refused"
    /\ UNCHANGED <<chosen, build, rasters, recordedAs, opened, tileSet, boundTo, mpc, meshOf,
                   tilingEvents>>

\* Mutant: the assembly's name for the bundle is compared, its files are not hashed.
SourceNotRehashed == boundTo = build.manifest
\* verify_tile_set, up to the bundle's hashes.
SourceUnchanged == BundleSound /\ boundTo = build.manifest

ReverifyBundle ==
    /\ tpc = "assembled"
    /\ tpc' = IF SourceUnchanged THEN "reverified" ELSE "refused"
    /\ UNCHANGED <<chosen, build, rasters, recordedAs, opened, tileSet, boundTo, mpc, meshOf,
                   tilingEvents>>

\* The rest of it, against the raster as it is now.
TilesMatchSource ==
    /\ DOMAIN tileSet = TilesOf(chosen)
    /\ \A t \in DOMAIN tileSet :
          /\ tileSet[t].samples = tileSet[t].sha256
          /\ tileSet[t].samples = Cut(rasters[build.file], SamplingWindow(chosen, t))
    /\ SeamsPass(chosen, tileSet)

PublishTiles ==
    /\ tpc = "reverified"
    /\ tpc' = IF TilesMatchSource THEN "published" ELSE "refused"
    /\ UNCHANGED <<chosen, build, rasters, recordedAs, opened, tileSet, boundTo, mpc, meshOf,
                   tilingEvents>>

-----------------------------------------------------------------------------
(* tile-mesh *)

SourceRecords == SourceUnchanged /\ TilesMatchSource

VerifyTileSet ==
    /\ tpc = "published" /\ mpc = "idle"
    /\ mpc' = IF SourceRecords THEN "meshing" ELSE "refused"
    /\ UNCHANGED <<chosen, build, rasters, recordedAs, tpc, opened, tileSet, boundTo, meshOf,
                   tilingEvents>>

CoreValues(t) == Cut(tileSet[t].samples, CoreSamples(chosen, t))

MeshTile ==
    /\ mpc = "meshing" /\ DOMAIN meshOf # TilesOf(chosen)
    /\ LET t == NextTile(chosen, DOMAIN meshOf) IN meshOf' = With(meshOf, t, CoreValues(t))
    /\ UNCHANGED <<chosen, build, rasters, recordedAs, tpc, opened, tileSet, boundTo, mpc,
                   tilingEvents>>

\* The boundary vertices of neighbouring meshes are the same.
MeshSeamsPass ==
    \A pair \in Neighbours(chosen) :
        AgreeOn(meshOf[pair[1]], meshOf[pair[2]], SharedCore(chosen, pair[1], pair[2]))

Peak(samples) ==
    CHOOSE v \in {samples[s] : s \in DOMAIN samples} : \A s \in DOMAIN samples : samples[s] <= v

\* verify_tile_mesh_set: the sources again, and every mesh measured against its tile.
MeshSetVerifies ==
    /\ SourceRecords
    /\ \A t \in DOMAIN meshOf : Peak(meshOf[t]) = Peak(CoreValues(t))
    /\ MeshSeamsPass

PublishMeshes ==
    /\ mpc = "meshing" /\ DOMAIN meshOf = TilesOf(chosen)
    /\ mpc' = IF MeshSeamsPass /\ MeshSetVerifies THEN "published" ELSE "refused"
    /\ UNCHANGED <<chosen, build, rasters, recordedAs, tpc, opened, tileSet, boundTo, meshOf,
                   tilingEvents>>

TilingNext ==
    \/ EditRaster \/ RebuildBundle \/ RecordSlicing \/ DamageTile
    \/ VerifyBundle \/ OpenRaster \/ ExtractOne \/ MeasureSeams \/ ReverifyBundle \/ PublishTiles
    \/ VerifyTileSet \/ MeshTile \/ PublishMeshes

TilingSpec == TilingInit /\ [][TilingNext]_tilingVars

-----------------------------------------------------------------------------
(* What must hold *)

\* Every variable has its type.
TilingTypeOK ==
    /\ chosen \in TilePlans /\ tilingEvents \in 0..MaxTilingEvents
    /\ build.file \in DOMAIN rasters /\ build.manifest \in DOMAIN recordedAs
    /\ boundTo = NotYet \/ boundTo \in DOMAIN recordedAs
    /\ opened = NotYet \/ opened \in DOMAIN rasters
    /\ tpc \in {"idle", "verified", "cutting", "assembled", "reverified", "published", "refused"}
    /\ mpc \in {"idle", "meshing", "published", "refused"}
    /\ DOMAIN tileSet \subseteq TilesOf(chosen) /\ DOMAIN meshOf \subseteq DOMAIN tileSet

\* A published tile set is the terrain of the build it names, whatever happened
\* to the bundle while it was cut: every cell is in one tile's core, and every
\* tile's checksummed samples are those the manifest records.  The published
\* meshes are built of the same samples, so they meet along every seam and in
\* every corner, also where no two tiles were compared (extract.py:520-889,
\* meshes.py:860-1096).
TilesAreTheTerrain ==
    LET terrain == recordedAs[boundTo] IN
    /\ tpc = "published" =>
          /\ \A cell \in (0..chosen.rows - 1) \X (0..chosen.columns - 1) :
                Cardinality({t \in DOMAIN tileSet : cell \in PointsOf(CoreCells(chosen, t))}) = 1
          /\ \A t \in DOMAIN tileSet :
                tileSet[t].sha256 = Cut(terrain, SamplingWindow(chosen, t))
    /\ mpc = "published" =>
          \A t \in TilesOf(chosen) : meshOf[t] = Cut(terrain, CoreSamples(chosen, t))
=============================================================================
