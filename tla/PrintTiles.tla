------------------------------ MODULE PrintTiles ------------------------------
(***************************************************************************)
(* The dovetails that hold printed tiles together (tiling/connectors.py):  *)
(* their dimensions from the printer, their places along every seam, what  *)
(* joining and cutting them does to the tiles, and the checks a set of     *)
(* print tiles must pass before it is published.                           *)
(*                                                                         *)
(* Lengths are in micrometres, y grows to the south, a dovetail is the     *)
(* rectangle around its outline, and the boolean engine, mesh formats and  *)
(* volumes are external: a check on a volume is one on what overlaps.      *)
(***************************************************************************)
EXTENDS TileSet

\* PrinterProfile: sizes are positive, the tolerance may be 0.
ASSUME PrinterAssumption ==
    \A p \in TilePlans :
        /\ {p.printer.nozzle, p.printer.feature, p.printer.layer} \subseteq Nat \ {0}
        /\ {p.printer.tolerance, p.printer.base, p.printer.volume} \subseteq Nat

VARIABLES
    ppc,         \* where tile-connect is
    connectors   \* the plan it published

printVars == <<ppc, connectors>>

Largest(S) == CHOOSE x \in S : \A y \in S : y <= x
Half(x) == x \div 2

-----------------------------------------------------------------------------
(* derive_connector_policy *)

Clearance(printer) == printer.tolerance
Wall(printer) == Largest({2 * printer.nozzle, printer.feature, 3 * printer.layer})
MinimumHeight(printer) == Largest({2 * printer.nozzle, printer.feature, 4 * printer.layer})
DesiredHeight(printer) == Largest({4 * printer.nozzle, 3 * printer.feature, 6 * printer.layer})
AvailableHeight(printer) == printer.base - Wall(printer) - Clearance(printer)
MaleHeight(printer) == Smaller(DesiredHeight(printer), AvailableHeight(printer))
Neck(printer)    == Larger(8 * printer.nozzle, 6 * printer.feature)
MaleHead(printer)    == Largest({Neck(printer) + 2 * printer.feature, 12 * printer.nozzle,
                             10 * printer.feature})
FemaleHead(printer) == MaleHead(printer) + Clearance(printer)
Depth(printer)   == Larger(8 * printer.nozzle, 6 * printer.feature)
Margin(printer)  == Larger(3 * Half(MaleHead(printer)), 4 * Wall(printer))
Spacing(printer) == Larger(100 * printer.nozzle, 80 * printer.feature)

PolicyExists(printer) ==
    /\ printer.tolerance >= Larger(50, printer.nozzle \div 4)
    /\ printer.tolerance <= Larger(printer.nozzle, (3 * printer.feature) \div 4)
    /\ AvailableHeight(printer) >= MinimumHeight(printer)

-----------------------------------------------------------------------------
(* plan_connectors *)

Printer == chosen.printer

XOf(column) == (ModelSize(chosen).width * column) \div chosen.columns
YOf(row)    == (ModelSize(chosen).depth * row) \div chosen.rows

TileBox(t) ==
    LET w == CoreCells(chosen, t) IN
    [west |-> XOf(w.left), east |-> XOf(w.right), north |-> YOf(w.top), south |-> YOf(w.bottom)]

\* Mutant: one dovetail fits, the margins to the corners are forgotten.
SeamFitsOneHead(start, stop) == stop - start >= FemaleHead(Printer)
\* _connector_centers refuses a seam too short for one dovetail and its margins.
SeamLongEnough(start, stop) ==
    stop - start >= 2 * Margin(Printer) + FemaleHead(Printer)

SeamsLongEnough ==
    \A pair \in Neighbours(chosen) :
        LET box == TileBox(pair[1]) IN
        IF pair[2] = East(pair[1])
        THEN SeamLongEnough(box.north, box.south) ELSE SeamLongEnough(box.west, box.east)

Centers(start, stop) ==
    LET usable == stop - start - 2 * Margin(Printer)
        count == Larger(1, RoundedUp(usable, Spacing(Printer))) IN
    {start + Margin(Printer) + (usable * k) \div (count + 1) : k \in 1..count}

\* The west tile of an east-west seam and the north tile of the other have the male.
PlannedConnectors ==
    UNION {
        LET t == pair[1]  box == TileBox(t) IN
        IF pair[2] = East(t)
        THEN {[male |-> t, female |-> pair[2], seam |-> box.east, center |-> y] :
              y \in Centers(box.north, box.south)}
        ELSE {[male |-> t, female |-> pair[2], seam |-> box.south, center |-> x] :
              x \in Centers(box.west, box.east)} :
        pair \in Neighbours(chosen)}

\* A rectangle from the seam into the female tile.
Reaching(c, depth, halfWidth) ==
    IF c.female = East(c.male)
    THEN [west |-> c.seam, east |-> c.seam + depth,
          north |-> c.center - halfWidth, south |-> c.center + halfWidth]
    ELSE [west |-> c.center - halfWidth, east |-> c.center + halfWidth,
          north |-> c.seam, south |-> c.seam + depth]

Male(c)   == Reaching(c, Depth(Printer), Half(MaleHead(Printer)))
Cavity(c) == Reaching(c, Depth(Printer) + Clearance(Printer), Half(FemaleHead(Printer)))

Meets(a, b) ==
    /\ a.west < b.east /\ b.west < a.east
    /\ a.north < b.south /\ b.north < a.south
Inside(a, b) ==
    /\ b.west <= a.west /\ a.east <= b.east
    /\ b.north <= a.north /\ a.south <= b.south

-----------------------------------------------------------------------------
(* The checks *)

MalesOf(cs, t)   == {c \in cs : c.male = t}
FemalesOf(cs, t) == {c \in cs : c.female = t}

\* _apply_connectors joins a tile's males first and then cuts its cavities, so
\* a cavity may cut a male off; _measure_connector_fit misses what is gone.
FitPasses(cs) ==
    \A c \in cs : \A f \in FemalesOf(cs, c.male) : ~Meets(Male(c), Cavity(f))

\* What a male hangs on when a cavity lies behind it along the same line.
OneComponent(cs) ==
    \A c \in cs : \A f \in FemalesOf(cs, c.male) :
        LET behind == Cavity(f) IN
        IF c.female = East(c.male)
        THEN behind.north < c.center /\ c.center < behind.south => behind.east < c.seam
        ELSE behind.west < c.center /\ c.center < behind.east => behind.south < c.seam

\* No dovetail reaches beyond the model.
BoundsMatch(cs) ==
    \A c \in cs :
        Inside(Male(c), [west |-> 0, east |-> ModelSize(chosen).width,
                         north |-> 0, south |-> ModelSize(chosen).depth])

\* A tile and its males fit the printer.
FitsBuildVolume(cs) ==
    \A t \in TilesOf(chosen) :
        LET box == TileBox(t)
            east == Largest({box.east} \cup {Male(c).east : c \in MalesOf(cs, t)})
            south == Largest({box.south} \cup {Male(c).south : c \in MalesOf(cs, t)}) IN
        east - box.west <= Printer.volume /\ south - box.north <= Printer.volume

PrintTilesPass(cs) ==
    FitPasses(cs) /\ OneComponent(cs) /\ BoundsMatch(cs) /\ FitsBuildVolume(cs)

-----------------------------------------------------------------------------
(* tile-connect *)

PrintInit == TilingInit /\ ppc = "idle" /\ connectors = {}

MeshSetSound == mpc = "published" /\ MeshSetVerifies

PlanConnectors ==
    /\ mpc = "published" /\ ppc = "idle"
    /\ IF MeshSetSound /\ PolicyExists(Printer) /\ SeamsLongEnough
       THEN ppc' = "planned" /\ connectors' = PlannedConnectors
       ELSE ppc' = "refused" /\ UNCHANGED connectors
    /\ UNCHANGED tilingVars

\* verify_print_tile_set verifies the sources again and measures every tile.
PublishPrintTiles ==
    /\ ppc = "planned"
    /\ ppc' = IF MeshSetSound /\ PrintTilesPass(connectors) THEN "published" ELSE "refused"
    /\ UNCHANGED <<tilingVars, connectors>>

PrintNext ==
    \/ TilingNext /\ UNCHANGED printVars
    \/ PlanConnectors \/ PublishPrintTiles

PrintSpec == PrintInit /\ [][PrintNext]_<<tilingVars, printVars>>

\* Every variable has its type.
PrintTypeOK ==
    /\ TilingTypeOK
    /\ ppc \in {"idle", "planned", "published", "refused"}
    /\ \A c \in connectors : {c.male, c.female} \subseteq TilesOf(chosen) /\ c.seam \in Nat

\* Published print tiles go together: every seam has a dovetail, a male enters
\* no tile but its own female tile, where it has its clearance on every side and a
\* roof of a wall's thickness above, no male meets another, no two cavities run
\* into each other, and every tile with its males fits the printer
\* (connectors.py:478-836, 1074-1193).
TilesFitTogether ==
    ppc = "published" =>
        /\ \A pair \in Neighbours(chosen) :
              \E c \in connectors : c.male = pair[1] /\ c.female = pair[2]
        /\ \A c \in connectors, t \in TilesOf(chosen) :
              t # c.male /\ Meets(Male(c), TileBox(t)) => t = c.female
        /\ \A c \in connectors : Inside(Male(c), TileBox(c.female)) /\ Inside(Male(c), Cavity(c))
        /\ \A c, d \in connectors :
              c # d => ~Meets(Male(c), Male(d)) /\ ~Meets(Cavity(c), Cavity(d))
        /\ Printer.base - MaleHeight(Printer) - Clearance(Printer) >= Wall(Printer)
        /\ FitsBuildVolume(connectors)
=============================================================================
