----------------------------- MODULE TilingProof ------------------------------
(*****************************************************************************)
(* What tile-extract, tile-mesh and tile-connect promise, for every value of *)
(* the constants.                                                            *)
(*****************************************************************************)
EXTENDS PrintTiles, FiniteSetTheorems, NaturalsInduction,
        WellFoundedInduction, TLAPS

\* Integer division, by the two facts it is used by.
LEMMA Divided ==
    ASSUME NEW a \in Nat, NEW b \in Nat \ {0}
    PROVE  /\ a \div b \in Nat /\ a % b \in 0..b - 1
           /\ a = (a \div b) * b + (a % b)
  <1>1. a \div b \in Nat
    OBVIOUS
  <1>2. a % b \in 0..b - 1
    OBVIOUS
  <1>3. a % b = a - b * (a \div b)
    OBVIOUS
  <1>4. ASSUME NEW d \in Nat, NEW m \in Nat, m = a - b * d
        PROVE  a = d * b + m
    BY <1>4
  <1>5. a = (a \div b) * b + (a % b)
    BY <1>1, <1>2, <1>3, <1>4
  <1> QED
    BY <1>1, <1>2, <1>5

\* A product grows with its first factor.
LEMMA Grows == ASSUME NEW q \in Nat, NEW i \in Nat, NEW k \in Nat, i <= k PROVE i * q <= k * q
  OBVIOUS

\* The parts of an axis begin at 0, end at its length, and follow one another.
LEMMA AxisParts ==
    ASSUME NEW cells \in Nat, NEW parts \in Nat \ {0}
    PROVE  /\ \A i \in 0..parts : PartStart(cells, parts, i) \in 0..cells
           /\ PartStart(cells, parts, 0) = 0 /\ PartStart(cells, parts, parts) = cells
           /\ \A i, k \in 0..parts : i <= k => PartStart(cells, parts, i) <= PartStart(cells, parts, k)
  <1> DEFINE q == cells \div parts
             m == cells % parts
             P(i) == i * q + Smaller(i, m)
  <1>1. q \in Nat /\ m \in 0..parts - 1 /\ cells = q * parts + m
    BY Divided
  <1>2. \A i \in 0..parts : PartStart(cells, parts, i) = P(i)
    BY DEF PartStart
  <1> HIDE DEF q, m
  <1>3. \A i \in 0..parts : Smaller(i, m) \in Nat /\ Smaller(i, m) <= m
    BY <1>1 DEF Smaller
  <1>4. \A i, k \in 0..parts : i <= k => Smaller(i, m) <= Smaller(k, m)
    BY <1>1 DEF Smaller
  <1>5. \A i, k \in 0..parts : i <= k => P(i) <= P(k) /\ P(i) \in Nat
    <2> SUFFICES ASSUME NEW i \in 0..parts, NEW k \in 0..parts, i <= k
                 PROVE  P(i) <= P(k) /\ P(i) \in Nat
      OBVIOUS
    <2>1. i * q <= k * q /\ i * q \in Nat /\ k * q \in Nat
      BY <1>1, Grows
    <2> QED
      BY <2>1, <1>3, <1>4
  <1>6. P(0) = 0
    BY <1>1 DEF Smaller
  <1>7. P(parts) = cells
    <2>1. Smaller(parts, m) = m
      BY <1>1 DEF Smaller
    <2>2. parts * q = q * parts
      BY <1>1
    <2> QED
      BY <1>1, <2>1, <2>2
  <1> QED
    BY <1>2, <1>5, <1>6, <1>7

\* A cell is in one of the parts: the first ones are one cell longer.
LEMMA CellInAPart ==
    ASSUME NEW cells \in Nat, NEW parts \in Nat \ {0}, NEW c \in 0..cells - 1
    PROVE  \E i \in 0..parts - 1 : c \in PartStart(cells, parts, i)..PartStart(cells, parts, i + 1) - 1
  <1> DEFINE q == cells \div parts
             m == cells % parts
  <1>1. q \in Nat /\ m \in 0..parts - 1 /\ cells = q * parts + m
    BY Divided
  <1>2. \A i \in Nat : PartStart(cells, parts, i) = i * q + Smaller(i, m)
    BY DEF PartStart
  <1> HIDE DEF q, m
  <1>3. CASE c < m * (q + 1)
    <2> DEFINE i == c \div (q + 1)
               rest == c % (q + 1)
    <2>1. i \in Nat /\ rest \in 0..q /\ c = i * (q + 1) + rest
      <3>1. q + 1 \in Nat \ {0} /\ c \in Nat
        BY <1>1
      <3>2. i \in Nat /\ rest \in 0..(q + 1) - 1 /\ c = i * (q + 1) + rest
        BY <3>1, Divided
      <3> QED
        BY <1>1, <3>2
    <2> HIDE DEF i, rest
    <2> DEFINE iq == i * q
    <2>2. i * (q + 1) = iq + i /\ (i + 1) * q = iq + q /\ iq \in Nat
      BY <1>1, <2>1
    <2>3. i < m
      <3>1. i >= m => m * (q + 1) <= i * (q + 1)
        BY <1>1, <2>1, Grows
      <3> DEFINE mq == m * (q + 1)
      <3>2. mq \in Nat /\ c < mq /\ (i >= m => mq <= iq + i)
        BY <1>1, <1>3, <2>2, <3>1
      <3>3. c = iq + i + rest
        BY <2>1, <2>2
      <3> HIDE DEF mq, iq
      <3> QED
        BY <1>1, <2>1, <2>2, <3>2, <3>3
    <2>4. Smaller(i, m) = i /\ Smaller(i + 1, m) = i + 1
      BY <1>1, <2>1, <2>3 DEF Smaller
    <2>5. PartStart(cells, parts, i) = iq + i /\ PartStart(cells, parts, i + 1) = iq + q + i + 1
      BY <1>1, <1>2, <2>1, <2>2, <2>4
    <2>6. c = iq + i + rest
      BY <2>1, <2>2
    <2> HIDE DEF iq
    <2>7. i \in 0..parts - 1 /\ c \in (iq + i)..(iq + q + i + 1 - 1)
      BY <1>1, <2>1, <2>2, <2>3, <2>6
    <2>8. c \in PartStart(cells, parts, i)..PartStart(cells, parts, i + 1) - 1
      BY <1>1, <2>1, <2>2, <2>5, <2>7
    <2> QED
      BY <2>7, <2>8
  <1>4. CASE c >= m * (q + 1)
    <2> DEFINE left == c - m * (q + 1)
               mq == m * q
               pq == q * parts
    <2>1. m * (q + 1) = mq + m /\ mq \in Nat /\ pq \in Nat /\ cells = pq + m /\ parts * q = pq
      BY <1>1
    <2>2. q \in Nat \ {0} /\ left \in Nat /\ c = left + mq + m
      <3>1. q = 0 => cells = m
        BY <1>1
      <3> QED
        BY <1>1, <1>4, <2>1, <3>1
    <2> HIDE DEF left
    <2> DEFINE k == left \div q
               rest == left % q
               kq == k * q
    <2>3. k \in Nat /\ rest \in 0..q - 1 /\ left = kq + rest
      BY <2>2, Divided
    <2> HIDE DEF k, rest
    <2> DEFINE i == m + k
    <2>4. i * q = mq + kq /\ (i + 1) * q = mq + kq + q /\ kq \in Nat
      BY <1>1, <2>3
    <2>5. Smaller(i, m) = m /\ Smaller(i + 1, m) = m /\ i \in Nat
      BY <1>1, <2>3 DEF Smaller
    <2>6. /\ PartStart(cells, parts, i) = mq + kq + m
          /\ PartStart(cells, parts, i + 1) = mq + kq + q + m
      <3>1. PartStart(cells, parts, i) = i * q + Smaller(i, m)
        BY <1>2, <2>5
      <3>2. i + 1 \in Nat
        BY <2>5
      <3>3. PartStart(cells, parts, i + 1) = (i + 1) * q + Smaller(i + 1, m)
        BY <1>2, <3>2
      <3> QED
        BY <2>4, <2>5, <3>1, <3>3
    <2>7. i >= parts => pq <= mq + kq
      BY <1>1, <2>1, <2>4, <2>5, Grows
    <2> HIDE DEF i, mq, kq, pq
    <2>8. c = mq + kq + m + rest
      BY <1>1, <2>1, <2>2, <2>3, <2>4
    <2>9. i < parts
      BY <1>1, <2>1, <2>3, <2>4, <2>5, <2>7, <2>8
    <2>10. c \in (mq + kq + m)..(mq + kq + q + m - 1)
      BY <1>1, <2>1, <2>3, <2>4, <2>8
    <2>11. c \in PartStart(cells, parts, i)..PartStart(cells, parts, i + 1) - 1
      BY <1>1, <2>1, <2>4, <2>6, <2>10
    <2>12. i \in 0..parts - 1
      BY <1>1, <2>5, <2>9
    <2> QED
      BY <2>11, <2>12
  <1>5. m * (q + 1) \in Nat
    BY <1>1
  <1> QED
    BY <1>3, <1>4, <1>5

InPart(cells, parts, i, c) ==
    c \in PartStart(cells, parts, i)..PartStart(cells, parts, i + 1) - 1

\* A cell is in exactly one of the parts.
LEMMA PartsCoverOnce ==
    ASSUME NEW cells \in Nat, NEW parts \in Nat \ {0}, NEW c \in 0..cells - 1
    PROVE  \E i \in 0..parts - 1 :
               \A k \in 0..parts - 1 : InPart(cells, parts, k, c) <=> k = i
  <1>1. PICK i \in 0..parts - 1 :
            c \in PartStart(cells, parts, i)..PartStart(cells, parts, i + 1) - 1
    BY CellInAPart
  <1>2. ASSUME NEW k \in 0..parts - 1,
               c \in PartStart(cells, parts, k)..PartStart(cells, parts, k + 1) - 1
        PROVE  k = i
    <2> DEFINE P(n) == PartStart(cells, parts, n)
    <2>1. /\ P(i) \in Nat /\ P(i + 1) \in Nat /\ P(k) \in Nat /\ P(k + 1) \in Nat
          /\ i < k => P(i + 1) <= P(k)
          /\ k < i => P(k + 1) <= P(i)
      <3>1. i \in 0..parts /\ i + 1 \in 0..parts /\ k \in 0..parts /\ k + 1 \in 0..parts
        OBVIOUS
      <3>2. \A n \in 0..parts : P(n) \in 0..cells
        BY AxisParts
      <3>3. \A n, l \in 0..parts : n <= l => P(n) <= P(l)
        BY AxisParts
      <3> HIDE DEF P
      <3> QED
        BY <3>1, <3>2, <3>3
    <2> HIDE DEF P
    <2>2. P(i) <= c /\ c < P(i + 1) /\ P(k) <= c /\ c < P(k + 1)
      BY <1>1, <1>2, <2>1 DEF P
    <2> QED
      BY <2>1, <2>2
  <1> QED
    BY <1>1, <1>2 DEF InPart

BelowNat == OpToRel(<, Nat)

\* A set of naturals that is not empty has a least element.
LEMMA Smallest ==
    ASSUME NEW T, T \subseteq Nat, T # {}
    PROVE  \E x \in T : \A y \in T : x <= y
  <1>1. IsWellFoundedOn(BelowNat, Nat)
    BY NatLessThanWellFounded DEF BelowNat
  <1>2. PICK x \in T : \A y \in T : ~(<<y, x>> \in BelowNat)
    BY <1>1, WFMin
  <1>3. ASSUME NEW y \in T PROVE x <= y
    <2>1. x \in Nat /\ y \in Nat /\ ~(<<y, x>> \in BelowNat)
      BY <1>2
    <2>2. y < x => <<y, x>> \in BelowNat
      BY <2>1 DEF BelowNat, OpToRel
    <2> QED
      BY <2>1, <2>2
  <1> QED
    BY <1>3

\* An axis has a tile, also one that is shorter than the largest tile.
LEMMA CountIsPositive ==
    ASSUME NEW size \in Nat, NEW maximum \in Nat \ {0}
    PROVE  TileCountForAxis(size, maximum) \in Nat \ {0}
  <1> DEFINE nearest == (2 * size + maximum) \div (2 * maximum)
  <1>1. nearest \in Nat
    <2>1. 2 * size + maximum \in Nat /\ 2 * maximum \in Nat \ {0}
      OBVIOUS
    <2> QED
      BY <2>1, Divided
  <1>2. (-size) \div maximum \in Int
    OBVIOUS
  <1>3. RoundedUp(size, maximum) \in Int
    BY <1>2 DEF RoundedUp
  <1>4. TileCountForAxis(size, maximum)
          = IF nearest >= 1 /\ Near(size, nearest * maximum, SizeTolerance)
            THEN nearest ELSE Larger(1, RoundedUp(size, maximum))
    BY DEF TileCountForAxis
  <1> HIDE DEF nearest
  <1> QED
    BY <1>1, <1>3, <1>4 DEF Larger

\* What the layout is computed from, and its two numbers.
LEMMA Layout ==
    ASSUME NEW p \in TilePlans
    PROVE  /\ p.rows \in Nat \ {0} /\ p.columns \in Nat \ {0} /\ p.overlap \in Nat
           /\ TileRows(p) \in Nat \ {0} /\ TileColumns(p) \in Nat \ {0}
  <1>1. /\ p.rows \in Nat \ {0} /\ p.columns \in Nat \ {0} /\ p.cell \in Nat \ {0}
        /\ p.maxTile \in Nat \ {0} /\ p.drift \in Nat /\ p.overlap \in Nat
    BY TilingAssumption
  <1>2. p.rows * p.cell + p.drift \in Nat /\ p.columns * p.cell + p.drift \in Nat
    BY <1>1
  <1>3. ModelSize(p).depth \in Nat /\ ModelSize(p).width \in Nat
    BY <1>2 DEF ModelSize
  <1> QED
    BY <1>1, <1>3, CountIsPositive DEF TileRows, TileColumns

\* A tile is cut from inside of the raster, and its core from inside of the cut.
LEMMA Windows ==
    ASSUME NEW p \in TilePlans, NEW t \in TilesOf(p)
    PROVE  /\ PointsOf(SamplingWindow(p, t)) \subseteq Samples(p)
           /\ PointsOf(CoreSamples(p, t)) \subseteq PointsOf(SamplingWindow(p, t))
  <1>1. /\ p.rows \in Nat \ {0} /\ p.columns \in Nat \ {0} /\ p.overlap \in Nat
        /\ TileRows(p) \in Nat \ {0} /\ TileColumns(p) \in Nat \ {0}
    BY Layout
  <1>2. /\ t[1] \in 0..TileRows(p) /\ t[1] + 1 \in 0..TileRows(p)
        /\ t[2] \in 0..TileColumns(p) /\ t[2] + 1 \in 0..TileColumns(p)
    BY <1>1 DEF TilesOf
  <1>3. /\ PartStart(p.rows, TileRows(p), t[1]) \in 0..p.rows
        /\ PartStart(p.rows, TileRows(p), t[1] + 1) \in 0..p.rows
        /\ PartStart(p.columns, TileColumns(p), t[2]) \in 0..p.columns
        /\ PartStart(p.columns, TileColumns(p), t[2] + 1) \in 0..p.columns
    BY <1>1, <1>2, AxisParts
  <1> DEFINE w == CoreCells(p, t)
  <1>4. /\ w = [top |-> w.top, bottom |-> w.bottom, left |-> w.left, right |-> w.right]
        /\ w.top \in 0..p.rows /\ w.bottom \in 0..p.rows
        /\ w.left \in 0..p.columns /\ w.right \in 0..p.columns
    BY <1>3 DEF CoreCells
  <1>5. /\ CoreSamples(p, t).top = w.top /\ CoreSamples(p, t).bottom = w.bottom + 1
        /\ CoreSamples(p, t).left = w.left /\ CoreSamples(p, t).right = w.right + 1
    BY <1>4 DEF CoreSamples
  <1>6. /\ SamplingWindow(p, t).top = Larger(0, w.top - p.overlap)
        /\ SamplingWindow(p, t).bottom = Smaller(p.rows + 1, w.bottom + p.overlap + 1)
        /\ SamplingWindow(p, t).left = Larger(0, w.left - p.overlap)
        /\ SamplingWindow(p, t).right = Smaller(p.columns + 1, w.right + p.overlap + 1)
    BY DEF SamplingWindow
  <1> HIDE DEF w
  <1>7. /\ SamplingWindow(p, t).top \in 0..w.top
        /\ SamplingWindow(p, t).bottom \in w.bottom + 1..p.rows + 1
        /\ SamplingWindow(p, t).left \in 0..w.left
        /\ SamplingWindow(p, t).right \in w.right + 1..p.columns + 1
    BY <1>1, <1>4, <1>6 DEF Larger, Smaller
  <1>8. PointsOf(SamplingWindow(p, t)) \subseteq Samples(p)
    BY <1>1, <1>4, <1>7 DEF PointsOf, Samples
  <1>9. PointsOf(CoreSamples(p, t)) \subseteq PointsOf(SamplingWindow(p, t))
    BY <1>1, <1>4, <1>5, <1>7 DEF PointsOf
  <1> QED
    BY <1>8, <1>9

\* The cores of the tiles cover the cells, each once.
LEMMA CellInOneTile ==
    ASSUME NEW p \in TilePlans, NEW cell \in (0..p.rows - 1) \X (0..p.columns - 1)
    PROVE  Cardinality({t \in TilesOf(p) : cell \in PointsOf(CoreCells(p, t))}) = 1
  <1>1. /\ p.rows \in Nat \ {0} /\ p.columns \in Nat \ {0}
        /\ TileRows(p) \in Nat \ {0} /\ TileColumns(p) \in Nat \ {0}
    BY Layout
  <1>2. cell[1] \in 0..p.rows - 1 /\ cell[2] \in 0..p.columns - 1
    BY <1>1
  <1> DEFINE RowIn(k)    == InPart(p.rows, TileRows(p), k, cell[1])
             ColumnIn(k) == InPart(p.columns, TileColumns(p), k, cell[2])
  <1>3. PICK i \in 0..TileRows(p) - 1 : \A k \in 0..TileRows(p) - 1 : RowIn(k) <=> k = i
    BY <1>1, <1>2, PartsCoverOnce
  <1> PICK j \in 0..TileColumns(p) - 1 : \A k \in 0..TileColumns(p) - 1 : ColumnIn(k) <=> k = j
    BY <1>1, <1>2, PartsCoverOnce
  <1>4. ASSUME NEW t \in TilesOf(p)
        PROVE  cell \in PointsOf(CoreCells(p, t)) <=> t = <<i, j>>
    <2>1. t[1] \in 0..TileRows(p) - 1 /\ t[2] \in 0..TileColumns(p) - 1 /\ t = <<t[1], t[2]>>
      BY DEF TilesOf
    <2>2. cell \in PointsOf(CoreCells(p, t))
            <=> RowIn(t[1]) /\ ColumnIn(t[2])
      BY DEF PointsOf, CoreCells, InPart
    <2>3. cell \in PointsOf(CoreCells(p, t)) <=> t[1] = i /\ t[2] = j
      BY <1>3, <2>1, <2>2
    <2> QED
      BY <2>1, <2>3
  <1>5. <<i, j>> \in TilesOf(p)
    BY DEF TilesOf
  <1>6. {t \in TilesOf(p) : cell \in PointsOf(CoreCells(p, t))} = {<<i, j>>}
    BY <1>4, <1>5
  <1> QED
    BY <1>6, FS_Singleton

\* The tile that comes next is one of those that are left.
LEMMA NextTileIsNew ==
    ASSUME NEW p \in TilePlans, NEW done, done \subseteq TilesOf(p), done # TilesOf(p)
    PROVE  NextTile(p, done) \in TilesOf(p) \ done
  <1> DEFINE left == TilesOf(p) \ done
             above == {t[1] : t \in left}
  <1>1. left # {} /\ \A t \in left : t[1] \in Nat /\ t[2] \in Nat /\ t = <<t[1], t[2]>>
    BY Layout DEF TilesOf
  <1>2. above \subseteq Nat /\ above # {}
    BY <1>1
  <1> HIDE DEF above
  <1>3. PICK r \in above : \A y \in above : r <= y
    BY <1>2, Smallest
  <1> DEFINE beside == {c \in Nat : <<r, c>> \in left}
  <1>4. beside \subseteq Nat /\ beside # {}
    BY <1>1, <1>3 DEF above
  <1> HIDE DEF beside
  <1>5. PICK c \in beside : \A y \in beside : c <= y
    BY <1>4, Smallest
  <1>6. <<r, c>> \in left
    BY <1>5 DEF beside
  <1>7. ASSUME NEW u \in left PROVE u = <<r, c>> \/ TileBefore(<<r, c>>, u)
    <2>1. u[1] \in Nat /\ u[2] \in Nat /\ r \in Nat /\ c \in Nat /\ r <= u[1] /\ u = <<u[1], u[2]>>
      BY <1>1, <1>2, <1>3, <1>4, <1>5 DEF above
    <2>2. u[1] = r => c <= u[2]
      BY <1>5, <2>1 DEF beside
    <2>3. u[1] # r => r < u[1]
      BY <2>1
    <2>4. u[1] = r /\ u[2] # c => c < u[2]
      BY <2>1, <2>2
    <2> QED
      BY <2>1, <2>3, <2>4 DEF TileBefore
  <1>8. \E t \in left : \A u \in left : u = t \/ TileBefore(t, u)
    BY <1>6, <1>7
  <1> QED
    BY <1>8 DEF NextTile

-----------------------------------------------------------------------------
Moments == 0..tilingEvents

RasterOf(p)    == [Samples(p) -> Moments]
TileSamples(t) == [PointsOf(SamplingWindow(chosen, t)) -> Moments]
TileMesh(t)    == [PointsOf(CoreSamples(chosen, t)) -> Moments]

\* Files and manifests are named by the moment they were written.
BundleShape ==
    /\ chosen \in TilePlans /\ tilingEvents \in 0..MaxTilingEvents
    /\ DOMAIN rasters \subseteq Moments /\ DOMAIN recordedAs \subseteq Moments
    /\ \A f \in DOMAIN rasters : rasters[f] \in RasterOf(chosen)
    /\ \A m \in DOMAIN recordedAs : recordedAs[m] \in RasterOf(chosen)
    /\ build \in [file : DOMAIN rasters, manifest : DOMAIN recordedAs]

TileShape ==
    /\ DOMAIN tileSet \subseteq TilesOf(chosen) /\ DOMAIN meshOf \subseteq DOMAIN tileSet
    /\ \A t \in DOMAIN tileSet :
          tileSet[t] \in [samples : TileSamples(t), sha256 : TileSamples(t)]
    /\ \A t \in DOMAIN meshOf : meshOf[t] \in TileMesh(t)

Bound == {"verified", "cutting", "assembled", "reverified", "published"}

CommandShape ==
    /\ tpc \in Bound \cup {"idle", "refused"}
    /\ mpc \in {"idle", "meshing", "published", "refused"}
    /\ boundTo = NotYet \/ boundTo \in DOMAIN recordedAs
    /\ opened = NotYet \/ opened \in DOMAIN rasters
    /\ tpc \in Bound => boundTo # NotYet
    /\ tpc = "cutting" => opened # NotYet
    /\ tpc = "published" => DOMAIN tileSet = TilesOf(chosen)
    /\ mpc = "idle" => DOMAIN meshOf = {}
    /\ mpc \in {"meshing", "published"} => tpc = "published"
    /\ mpc = "published" => DOMAIN meshOf = TilesOf(chosen)

\* Once the bundle was found unchanged, a sample of its raster is either what the
\* manifest records or newer than every tile.
CutIsTrue ==
    \A t \in DOMAIN tileSet : \A s \in PointsOf(SamplingWindow(chosen, t)) :
        /\ tpc = "reverified" =>
              \/ rasters[build.file][s] = recordedAs[boundTo][s]
              \/ rasters[build.file][s] # tileSet[t].sha256[s]
        /\ tpc = "published" => tileSet[t].sha256[s] = recordedAs[boundTo][s]

\* A mesh is built of the samples with the checksum, or its tile no longer has it.
MeshIsTrue ==
    \A t \in DOMAIN meshOf : \A s \in PointsOf(CoreSamples(chosen, t)) :
        /\ mpc = "meshing" =>
              \/ meshOf[t][s] = tileSet[t].sha256[s]
              \/ tileSet[t].samples[s] # tileSet[t].sha256[s]
        /\ mpc = "published" => meshOf[t][s] = recordedAs[boundTo][s]

TilingInv == BundleShape /\ TileShape /\ CommandShape /\ CutIsTrue /\ MeshIsTrue

\* The tiles that a state's invariant speaks of are functions on their windows.
LEMMA TileShapes ==
    ASSUME TilingInv, NEW t \in DOMAIN tileSet
    PROVE  /\ t \in TilesOf(chosen)
           /\ tileSet[t].samples \in TileSamples(t) /\ tileSet[t].sha256 \in TileSamples(t)
           /\ \A s \in PointsOf(SamplingWindow(chosen, t)) :
                 /\ s \in Samples(chosen)
                 /\ tileSet[t].samples[s] \in Moments /\ tileSet[t].sha256[s] \in Moments
  <1>1. t \in TilesOf(chosen) /\ chosen \in TilePlans
    BY DEF TilingInv, TileShape, BundleShape
  <1>2. tileSet[t].samples \in TileSamples(t) /\ tileSet[t].sha256 \in TileSamples(t)
    BY DEF TilingInv, TileShape
  <1> QED
    BY <1>1, <1>2, Windows DEF TileSamples

\* Before the commands there is the bundle, and no tile.
LEMMA TilingInitial == TilingInit => TilingInv
  <1> SUFFICES ASSUME TilingInit PROVE TilingInv
    OBVIOUS
  <1> USE TilingAssumption
  <1>1. BundleShape
    <2>1. DOMAIN rasters = {0} /\ DOMAIN recordedAs = {0} /\ tilingEvents = 0 /\ Moments = 0..0
      BY DEF TilingInit, Moments
    <2>2. rasters[0] \in RasterOf(chosen) /\ recordedAs[0] \in RasterOf(chosen)
      BY <2>1 DEF TilingInit, RasterOf
    <2> QED
      BY <2>1, <2>2 DEF TilingInit, BundleShape
  <1>2. TileShape /\ CommandShape /\ CutIsTrue /\ MeshIsTrue
    <2>1. DOMAIN tileSet = {} /\ DOMAIN meshOf = {}
      BY DEF TilingInit
    <2> QED
      BY <2>1 DEF TilingInit, TileShape, CommandShape, Bound, CutIsTrue, MeshIsTrue
  <1> QED
    BY <1>1, <1>2 DEF TilingInv

-----------------------------------------------------------------------------
\* What happens to the bundle: files and manifests may be added, and what a file
\* holds afterwards is what it held or new.
LEMMA BundleActKeeps ==
    ASSUME TilingInv, Happens,
           UNCHANGED <<chosen, tpc, opened, tileSet, boundTo, mpc, meshOf>>,
           DOMAIN rasters \subseteq DOMAIN rasters', DOMAIN recordedAs \subseteq DOMAIN recordedAs',
           DOMAIN rasters' \subseteq 0..tilingEvents + 1,
           DOMAIN recordedAs' \subseteq 0..tilingEvents + 1,
           \A f \in DOMAIN rasters' : rasters'[f] \in [Samples(chosen) -> 0..tilingEvents + 1],
           \A m \in DOMAIN recordedAs' : recordedAs'[m] \in [Samples(chosen) -> 0..tilingEvents + 1],
           \A m \in DOMAIN recordedAs : recordedAs'[m] = recordedAs[m],
           build' \in [file : DOMAIN rasters', manifest : DOMAIN recordedAs'],
           \A s \in Samples(chosen) :
               rasters'[build'.file][s] \in {rasters[build.file][s], tilingEvents + 1}
    PROVE  TilingInv'
  <1>1. tilingEvents \in Nat /\ tilingEvents' = tilingEvents + 1 /\ tilingEvents' \in 0..MaxTilingEvents
    BY TilingAssumption DEF Happens, TilingInv, BundleShape
  <1>2. Moments' = 0..tilingEvents + 1 /\ Moments \subseteq Moments'
    BY <1>1 DEF Moments
  <1>3. BundleShape'
    BY <1>1, <1>2 DEF TilingInv, BundleShape, RasterOf
  <1>4. TileShape'
    <2>1. ASSUME NEW t \in DOMAIN tileSet
          PROVE  tileSet'[t] \in [samples : TileSamples(t)', sha256 : TileSamples(t)']
      <3>1. TileSamples(t) \subseteq TileSamples(t)'
        BY <1>2 DEF TileSamples
      <3> QED
        BY <3>1 DEF TilingInv, TileShape
    <2>2. ASSUME NEW t \in DOMAIN meshOf PROVE meshOf'[t] \in TileMesh(t)'
      <3>1. TileMesh(t) \subseteq TileMesh(t)'
        BY <1>2 DEF TileMesh
      <3> QED
        BY <3>1 DEF TilingInv, TileShape
    <2> QED
      BY <2>1, <2>2 DEF TilingInv, TileShape
  <1>5. CommandShape'
    BY DEF TilingInv, CommandShape
  <1>6. tpc \in Bound => boundTo \in DOMAIN recordedAs /\ recordedAs'[boundTo] = recordedAs[boundTo]
    BY DEF TilingInv, CommandShape
  <1>7. CutIsTrue'
    <2> SUFFICES ASSUME NEW t \in DOMAIN tileSet, NEW s \in PointsOf(SamplingWindow(chosen, t))
                 PROVE  /\ tpc = "reverified" =>
                              \/ rasters'[build'.file][s] = recordedAs'[boundTo][s]
                              \/ rasters'[build'.file][s] # tileSet[t].sha256[s]
                        /\ tpc = "published" => tileSet[t].sha256[s] = recordedAs'[boundTo][s]
      BY DEF CutIsTrue
    <2>1. s \in Samples(chosen) /\ tileSet[t].sha256[s] \in Moments
      BY TileShapes
    <2>2. tileSet[t].sha256[s] # tilingEvents + 1
      BY <1>1, <2>1 DEF Moments
    <2>3. /\ tpc = "reverified" => \/ rasters[build.file][s] = recordedAs[boundTo][s]
                                   \/ rasters[build.file][s] # tileSet[t].sha256[s]
          /\ tpc = "published" => tileSet[t].sha256[s] = recordedAs[boundTo][s]
      BY DEF TilingInv, CutIsTrue
    <2>4. rasters'[build'.file][s] \in {rasters[build.file][s], tilingEvents + 1}
      BY <2>1
    <2> QED
      BY <1>6, <2>2, <2>3, <2>4 DEF Bound
  <1>8. MeshIsTrue'
    <2>1. mpc = "published" => tpc \in Bound
      BY DEF TilingInv, CommandShape, Bound
    <2> QED
      BY <1>6, <2>1 DEF TilingInv, MeshIsTrue
  <1> QED
    BY <1>3, <1>4, <1>5, <1>7, <1>8 DEF TilingInv

\* A sample that is rewritten is newer than every tile.
LEMMA EditRasterKeeps == ASSUME TilingInv, EditRaster PROVE TilingInv'
  <1>1. PICK s \in Samples(chosen) :
            rasters' = [rasters EXCEPT ![build.file][s] = tilingEvents + 1]
    BY DEF EditRaster
  <1>2. /\ Happens /\ UNCHANGED <<chosen, build, recordedAs, tpc, opened, tileSet, boundTo, mpc, meshOf>>
    BY DEF EditRaster
  <1>3. /\ build \in [file : DOMAIN rasters, manifest : DOMAIN recordedAs]
        /\ build.file \in DOMAIN rasters /\ tilingEvents \in Nat
        /\ DOMAIN rasters \subseteq 0..tilingEvents /\ DOMAIN recordedAs \subseteq 0..tilingEvents
        /\ \A f \in DOMAIN rasters : rasters[f] \in [Samples(chosen) -> 0..tilingEvents]
        /\ \A m \in DOMAIN recordedAs : recordedAs[m] \in [Samples(chosen) -> 0..tilingEvents]
    BY DEF TilingInv, BundleShape, Moments, RasterOf
  <1> DEFINE new == [rasters[build.file] EXCEPT ![s] = tilingEvents + 1]
             later == 0..tilingEvents + 1
  <1>4. tilingEvents + 1 \in later /\ 0..tilingEvents \subseteq later
    BY <1>3
  <1> HIDE DEF later
  <1>5. /\ rasters[build.file] \in [Samples(chosen) -> later]
        /\ \A f \in DOMAIN rasters : rasters[f] \in [Samples(chosen) -> later]
        /\ \A m \in DOMAIN recordedAs : recordedAs[m] \in [Samples(chosen) -> later]
    BY <1>3, <1>4
  <1>6. /\ new \in [Samples(chosen) -> later]
        /\ \A x \in Samples(chosen) : new[x] \in {rasters[build.file][x], tilingEvents + 1}
    BY <1>4, <1>5
  <1>7. rasters' = [rasters EXCEPT ![build.file] = new]
    BY <1>1
  <1> HIDE DEF new
  <1>8. /\ DOMAIN rasters' = DOMAIN rasters /\ rasters'[build.file] = new
        /\ \A f \in DOMAIN rasters : f # build.file => rasters'[f] = rasters[f]
    BY <1>3, <1>7
  <1>9. \A f \in DOMAIN rasters' : rasters'[f] \in [Samples(chosen) -> later]
    BY <1>5, <1>6, <1>8
  <1>10. DOMAIN rasters' \subseteq later /\ DOMAIN recordedAs' \subseteq later
    BY <1>2, <1>3, <1>4, <1>8
  <1>11. \A x \in Samples(chosen) :
             rasters'[build'.file][x] \in {rasters[build.file][x], tilingEvents + 1}
    BY <1>2, <1>6, <1>8
  <1>12. build' \in [file : DOMAIN rasters', manifest : DOMAIN recordedAs']
    BY <1>2, <1>3, <1>8
  <1> USE DEF later
  <1> QED
    BY <1>2, <1>5, <1>8, <1>9, <1>10, <1>11, <1>12, BundleActKeeps

\* Another build is newer than every tile in every sample.
LEMMA RebuildBundleKeeps == ASSUME TilingInv, RebuildBundle PROVE TilingInv'
  <1> DEFINE next == tilingEvents + 1
             fresh == [s \in Samples(chosen) |-> tilingEvents + 1]
             later == 0..tilingEvents + 1
  <1>1. /\ Happens /\ UNCHANGED <<chosen, tpc, opened, tileSet, boundTo, mpc, meshOf>>
        /\ build' = [file |-> next, manifest |-> next]
        /\ rasters' = With(rasters, next, fresh)
        /\ recordedAs' = With(recordedAs, next, fresh)
    BY DEF RebuildBundle
  <1>2. /\ tilingEvents \in Nat
        /\ DOMAIN rasters \subseteq 0..tilingEvents /\ DOMAIN recordedAs \subseteq 0..tilingEvents
        /\ \A f \in DOMAIN rasters : rasters[f] \in [Samples(chosen) -> 0..tilingEvents]
        /\ \A m \in DOMAIN recordedAs : recordedAs[m] \in [Samples(chosen) -> 0..tilingEvents]
    BY DEF TilingInv, BundleShape, Moments, RasterOf
  <1>3. next \in later /\ 0..tilingEvents \subseteq later /\ next \notin 0..tilingEvents
    BY <1>2
  <1>4. fresh \in [Samples(chosen) -> later] /\ \A s \in Samples(chosen) : fresh[s] = tilingEvents + 1
    BY <1>3
  <1>5. /\ \A f \in DOMAIN rasters : rasters[f] \in [Samples(chosen) -> later]
        /\ \A m \in DOMAIN recordedAs : recordedAs[m] \in [Samples(chosen) -> later]
    BY <1>2, <1>3
  <1> HIDE DEF fresh, later, next
  <1>6. /\ DOMAIN rasters' = DOMAIN rasters \cup {next} /\ rasters'[next] = fresh
        /\ \A f \in DOMAIN rasters : f # next => rasters'[f] = rasters[f]
        /\ DOMAIN recordedAs' = DOMAIN recordedAs \cup {next} /\ recordedAs'[next] = fresh
        /\ \A m \in DOMAIN recordedAs : m # next => recordedAs'[m] = recordedAs[m]
    BY <1>1 DEF With
  <1>7. /\ \A f \in DOMAIN rasters' : rasters'[f] \in [Samples(chosen) -> later]
        /\ \A m \in DOMAIN recordedAs' : recordedAs'[m] \in [Samples(chosen) -> later]
    BY <1>4, <1>5, <1>6
  <1>8. DOMAIN rasters' \subseteq later /\ DOMAIN recordedAs' \subseteq later
    BY <1>2, <1>3, <1>6
  <1>9. \A m \in DOMAIN recordedAs : recordedAs'[m] = recordedAs[m]
    BY <1>2, <1>3, <1>6
  <1>10. build'.file = next /\ build' \in [file : DOMAIN rasters', manifest : DOMAIN recordedAs']
    BY <1>1, <1>6
  <1>11. \A s \in Samples(chosen) :
             rasters'[build'.file][s] \in {rasters[build.file][s], tilingEvents + 1}
    BY <1>4, <1>6, <1>10
  <1> USE DEF later
  <1> QED
    BY <1>1, <1>6, <1>7, <1>8, <1>9, <1>10, <1>11, BundleActKeeps

\* A recorded slicing gives the same raster another manifest.
LEMMA RecordSlicingKeeps == ASSUME TilingInv, RecordSlicing PROVE TilingInv'
  <1> DEFINE next == tilingEvents + 1
             later == 0..tilingEvents + 1
  <1>1. /\ Happens /\ UNCHANGED <<chosen, rasters, tpc, opened, tileSet, boundTo, mpc, meshOf>>
        /\ build' = [build EXCEPT !.manifest = next]
        /\ recordedAs' = With(recordedAs, next, recordedAs[build.manifest])
    BY DEF RecordSlicing
  <1>2. /\ tilingEvents \in Nat
        /\ build \in [file : DOMAIN rasters, manifest : DOMAIN recordedAs]
        /\ build.file \in DOMAIN rasters /\ build.manifest \in DOMAIN recordedAs
        /\ DOMAIN rasters \subseteq 0..tilingEvents /\ DOMAIN recordedAs \subseteq 0..tilingEvents
        /\ \A f \in DOMAIN rasters : rasters[f] \in [Samples(chosen) -> 0..tilingEvents]
        /\ \A m \in DOMAIN recordedAs : recordedAs[m] \in [Samples(chosen) -> 0..tilingEvents]
    BY DEF TilingInv, BundleShape, Moments, RasterOf
  <1>3. next \in later /\ 0..tilingEvents \subseteq later /\ next \notin 0..tilingEvents
    BY <1>2
  <1>4. /\ \A f \in DOMAIN rasters : rasters[f] \in [Samples(chosen) -> later]
        /\ \A m \in DOMAIN recordedAs : recordedAs[m] \in [Samples(chosen) -> later]
    BY <1>2, <1>3
  <1> HIDE DEF later, next
  <1>5. /\ DOMAIN recordedAs' = DOMAIN recordedAs \cup {next}
        /\ recordedAs'[next] = recordedAs[build.manifest]
        /\ \A m \in DOMAIN recordedAs : m # next => recordedAs'[m] = recordedAs[m]
    BY <1>1 DEF With
  <1>6. \A m \in DOMAIN recordedAs' : recordedAs'[m] \in [Samples(chosen) -> later]
    BY <1>2, <1>4, <1>5
  <1>7. DOMAIN rasters \subseteq later /\ DOMAIN recordedAs' \subseteq later
    BY <1>2, <1>3, <1>5
  <1>8. \A m \in DOMAIN recordedAs : recordedAs'[m] = recordedAs[m]
    BY <1>2, <1>3, <1>5
  <1>9. build'.file = build.file /\ build' \in [file : DOMAIN rasters, manifest : DOMAIN recordedAs']
    BY <1>1, <1>2, <1>5
  <1>10. \A s \in Samples(chosen) :
             rasters'[build'.file][s] \in {rasters[build.file][s], tilingEvents + 1}
    BY <1>1, <1>9
  <1> USE DEF later
  <1> QED
    BY <1>1, <1>4, <1>5, <1>6, <1>7, <1>8, <1>9, <1>10, BundleActKeeps

\* What the steps of the commands keep: they write no file of the bundle.
LEMMA BundleStill ==
    ASSUME TilingInv, UNCHANGED <<chosen, build, rasters, recordedAs, tilingEvents>>
    PROVE  /\ BundleShape'
           /\ UNCHANGED <<tileSet, meshOf>> => TileShape'
  <1>1. BundleShape'
    BY DEF TilingInv, BundleShape, Moments, RasterOf
  <1>2. ASSUME UNCHANGED <<tileSet, meshOf>> PROVE TileShape'
    BY <1>2 DEF TilingInv, TileShape, TileSamples, TileMesh, Moments
  <1> QED
    BY <1>1, <1>2

\* A damaged sample is newer than the checksum, so it never passes for the original.
LEMMA DamageTileKeeps == ASSUME TilingInv, DamageTile PROVE TilingInv'
  <1>1. /\ tpc = "published" /\ Happens
        /\ UNCHANGED <<chosen, build, rasters, recordedAs, tpc, opened, boundTo, mpc, meshOf>>
    BY DEF DamageTile
  <1>2. PICK t \in DOMAIN tileSet : \E s \in DOMAIN tileSet[t].samples :
            tileSet' = [tileSet EXCEPT ![t].samples[s] = tilingEvents + 1]
    BY DEF DamageTile
  <1>3. PICK s \in DOMAIN tileSet[t].samples :
            tileSet' = [tileSet EXCEPT ![t].samples[s] = tilingEvents + 1]
    BY <1>2
  <1> DEFINE later == 0..tilingEvents + 1
             samples == [tileSet[t].samples EXCEPT ![s] = tilingEvents + 1]
             damaged == [tileSet[t] EXCEPT !.samples = samples]
  <1>4. tilingEvents \in Nat /\ tilingEvents' = tilingEvents + 1 /\ tilingEvents' \in 0..MaxTilingEvents
    BY <1>1, TilingAssumption DEF Happens, TilingInv, BundleShape
  <1>5. Moments' = later /\ Moments \subseteq later /\ tilingEvents + 1 \in later
    BY <1>4 DEF Moments
  <1>6. /\ tileSet[t] \in [samples : TileSamples(t), sha256 : TileSamples(t)]
        /\ tileSet[t].samples \in TileSamples(t) /\ tileSet[t].sha256 \in TileSamples(t)
    BY TileShapes DEF TilingInv, TileShape
  <1> HIDE DEF later
  <1>7. /\ samples \in TileSamples(t)'
        /\ \A x \in PointsOf(SamplingWindow(chosen, t)) :
              samples[x] \in {tileSet[t].samples[x], tilingEvents + 1}
    BY <1>1, <1>5, <1>6 DEF TileSamples
  <1> HIDE DEF samples
  <1>8. tileSet[t].sha256 \in TileSamples(t)'
    BY <1>1, <1>5, <1>6 DEF TileSamples
  <1>9. damaged.samples = samples /\ damaged.sha256 = tileSet[t].sha256
        /\ damaged \in [samples : TileSamples(t)', sha256 : TileSamples(t)']
    BY <1>6, <1>7, <1>8
  <1>10. tileSet' = [tileSet EXCEPT ![t] = damaged]
    BY <1>3 DEF samples
  <1> HIDE DEF damaged
  <1>11. /\ DOMAIN tileSet' = DOMAIN tileSet /\ tileSet'[t] = damaged
         /\ \A u \in DOMAIN tileSet : u # t => tileSet'[u] = tileSet[u]
    BY <1>10
  <1>12. \A u \in DOMAIN tileSet : tileSet'[u].sha256 = tileSet[u].sha256
    BY <1>9, <1>11
  <1>13. BundleShape'
    <2>1. \A f \in DOMAIN rasters : rasters[f] \in [Samples(chosen) -> later]
      BY <1>5 DEF TilingInv, BundleShape, RasterOf
    <2>2. \A m \in DOMAIN recordedAs : recordedAs[m] \in [Samples(chosen) -> later]
      BY <1>5 DEF TilingInv, BundleShape, RasterOf
    <2> QED
      BY <1>1, <1>4, <1>5, <2>1, <2>2 DEF TilingInv, BundleShape, RasterOf
  <1>14. TileShape'
    <2>1. ASSUME NEW u \in DOMAIN tileSet
          PROVE  tileSet'[u] \in [samples : TileSamples(u)', sha256 : TileSamples(u)']
      <3>1. TileSamples(u) \subseteq TileSamples(u)'
        BY <1>1, <1>5 DEF TileSamples
      <3>2. tileSet[u] \in [samples : TileSamples(u), sha256 : TileSamples(u)]
        BY DEF TilingInv, TileShape
      <3> QED
        BY <1>9, <1>11, <3>1, <3>2
    <2>2. ASSUME NEW u \in DOMAIN meshOf PROVE meshOf'[u] \in TileMesh(u)'
      <3>1. TileMesh(u) \subseteq TileMesh(u)'
        BY <1>1, <1>5 DEF TileMesh
      <3> QED
        BY <1>1, <3>1 DEF TilingInv, TileShape
    <2> QED
      BY <1>1, <1>11, <2>1, <2>2 DEF TilingInv, TileShape
  <1>15. CommandShape'
    BY <1>1, <1>11 DEF TilingInv, CommandShape
  <1>16. CutIsTrue'
    BY <1>1, <1>11, <1>12 DEF TilingInv, CutIsTrue
  <1>17. MeshIsTrue'
    <2> SUFFICES ASSUME NEW u \in DOMAIN meshOf, NEW x \in PointsOf(CoreSamples(chosen, u))
                 PROVE  /\ mpc = "meshing" =>
                              \/ meshOf[u][x] = tileSet'[u].sha256[x]
                              \/ tileSet'[u].samples[x] # tileSet'[u].sha256[x]
                        /\ mpc = "published" => meshOf[u][x] = recordedAs[boundTo][x]
      BY <1>1 DEF MeshIsTrue
    <2>1. u \in DOMAIN tileSet /\ u \in TilesOf(chosen) /\ chosen \in TilePlans
      BY DEF TilingInv, TileShape, BundleShape
    <2>2. /\ x \in PointsOf(SamplingWindow(chosen, u))
          /\ tileSet[u].sha256[x] \in Moments
      BY <2>1, Windows, TileShapes
    <2>3. tileSet[u].sha256[x] # tilingEvents + 1
      BY <1>4, <2>2 DEF Moments
    <2>4. /\ mpc = "meshing" => \/ meshOf[u][x] = tileSet[u].sha256[x]
                                \/ tileSet[u].samples[x] # tileSet[u].sha256[x]
          /\ mpc = "published" => meshOf[u][x] = recordedAs[boundTo][x]
      BY DEF TilingInv, MeshIsTrue
    <2>5. tileSet'[u].samples[x] \in {tileSet[u].samples[x], tilingEvents + 1}
      BY <1>7, <1>9, <1>11, <2>1, <2>2
    <2> QED
      BY <1>12, <2>1, <2>3, <2>4, <2>5
  <1> QED
    BY <1>13, <1>14, <1>15, <1>16, <1>17 DEF TilingInv

-----------------------------------------------------------------------------

\* The assembly names the manifest of a sound bundle, of a layout that exists.
LEMMA VerifyBundleKeeps == ASSUME TilingInv, VerifyBundle PROVE TilingInv'
  <1>1. /\ tpc = "idle" /\ tpc' \in {"verified", "refused"}
        /\ UNCHANGED <<chosen, build, rasters, recordedAs, opened, tileSet, mpc, meshOf, tilingEvents>>
        /\ tpc' = "verified" => boundTo' = build.manifest
        /\ tpc' = "refused" => boundTo' = boundTo
    BY DEF VerifyBundle
  <1>2. BundleShape' /\ TileShape'
    BY <1>1, BundleStill
  <1>3. CommandShape'
    <2>1. build.manifest \in DOMAIN recordedAs /\ DOMAIN recordedAs \subseteq Nat
      BY DEF TilingInv, BundleShape, Moments
    <2>2. NotYet \notin Nat
      BY DEF NotYet
    <2> QED
      BY <1>1, <2>1, <2>2 DEF TilingInv, CommandShape, Bound
  <1>4. CutIsTrue'
    BY <1>1 DEF CutIsTrue
  <1>5. MeshIsTrue'
    <2>1. mpc \notin {"meshing", "published"}
      BY <1>1 DEF TilingInv, CommandShape
    <2> QED
      BY <1>1, <2>1 DEF MeshIsTrue
  <1> QED
    BY <1>2, <1>3, <1>4, <1>5 DEF TilingInv

\* The raster is opened after the verification, by its name.
LEMMA OpenRasterKeeps == ASSUME TilingInv, OpenRaster PROVE TilingInv'
  <1>1. /\ tpc = "verified" /\ tpc' = "cutting" /\ opened' = build.file
        /\ UNCHANGED <<chosen, build, rasters, recordedAs, tileSet, boundTo, mpc, meshOf, tilingEvents>>
    BY DEF OpenRaster
  <1>2. BundleShape' /\ TileShape'
    BY <1>1, BundleStill
  <1>3. CommandShape'
    <2>1. build.file \in DOMAIN rasters /\ DOMAIN rasters \subseteq Nat
      BY DEF TilingInv, BundleShape, Moments
    <2>2. NotYet \notin Nat
      BY DEF NotYet
    <2> QED
      BY <1>1, <2>1, <2>2 DEF TilingInv, CommandShape, Bound
  <1>4. CutIsTrue'
    BY <1>1 DEF CutIsTrue
  <1>5. MeshIsTrue'
    <2>1. mpc \notin {"meshing", "published"}
      BY <1>1 DEF TilingInv, CommandShape
    <2> QED
      BY <1>1, <2>1 DEF MeshIsTrue
  <1> QED
    BY <1>2, <1>3, <1>4, <1>5 DEF TilingInv

\* A tile's checksum is that of the samples just cut.
LEMMA ExtractOneKeeps == ASSUME TilingInv, ExtractOne PROVE TilingInv'
  <1> DEFINE t == NextTile(chosen, DOMAIN tileSet)
             samples == Cut(rasters[opened], SamplingWindow(chosen, t))
  <1>1. /\ tpc = "cutting" /\ DOMAIN tileSet # TilesOf(chosen)
        /\ tileSet' = With(tileSet, t, [samples |-> samples, sha256 |-> samples])
        /\ UNCHANGED <<chosen, build, rasters, recordedAs, tpc, opened, boundTo, mpc, meshOf,
                       tilingEvents>>
    BY DEF ExtractOne
  <1>2. t \in TilesOf(chosen) \ DOMAIN tileSet /\ chosen \in TilePlans
    BY <1>1, NextTileIsNew DEF TilingInv, TileShape, BundleShape
  <1>3. opened \in DOMAIN rasters /\ rasters[opened] \in RasterOf(chosen)
    BY <1>1 DEF TilingInv, CommandShape, BundleShape
  <1> HIDE DEF t
  <1>4. samples \in TileSamples(t)
    BY <1>2, <1>3, Windows DEF Cut, TileSamples, RasterOf
  <1> HIDE DEF samples
  <1>5. /\ DOMAIN tileSet' = DOMAIN tileSet \cup {t}
        /\ tileSet'[t] = [samples |-> samples, sha256 |-> samples]
        /\ \A u \in DOMAIN tileSet : tileSet'[u] = tileSet[u]
    BY <1>1, <1>2 DEF With
  <1>6. BundleShape'
    BY <1>1, BundleStill
  <1>7. TileShape'
    <2>1. tileSet'[t] \in [samples : TileSamples(t), sha256 : TileSamples(t)]
      BY <1>4, <1>5
    <2>2. \A u : TileSamples(u)' = TileSamples(u) /\ TileMesh(u)' = TileMesh(u)
      BY <1>1 DEF TileSamples, TileMesh, Moments
    <2> QED
      BY <1>1, <1>2, <1>5, <2>1, <2>2 DEF TilingInv, TileShape
  <1>8. CommandShape'
    BY <1>1 DEF TilingInv, CommandShape
  <1>9. CutIsTrue'
    BY <1>1 DEF CutIsTrue
  <1>10. MeshIsTrue'
    <2>1. mpc \notin {"meshing", "published"}
      BY <1>1 DEF TilingInv, CommandShape
    <2> QED
      BY <1>1, <2>1 DEF MeshIsTrue
  <1> QED
    BY <1>6, <1>7, <1>8, <1>9, <1>10 DEF TilingInv

\* The seams are measured when every tile is cut.
LEMMA MeasureSeamsKeeps == ASSUME TilingInv, MeasureSeams PROVE TilingInv'
  <1>1. /\ tpc = "cutting" /\ tpc' \in {"assembled", "refused"}
        /\ UNCHANGED <<chosen, build, rasters, recordedAs, opened, tileSet, boundTo, mpc, meshOf,
                       tilingEvents>>
    BY DEF MeasureSeams
  <1>2. BundleShape' /\ TileShape'
    BY <1>1, BundleStill
  <1>3. CommandShape'
    BY <1>1 DEF TilingInv, CommandShape, Bound
  <1>4. CutIsTrue'
    BY <1>1 DEF CutIsTrue
  <1>5. MeshIsTrue'
    <2>1. mpc \notin {"meshing", "published"}
      BY <1>1 DEF TilingInv, CommandShape
    <2> QED
      BY <1>1, <2>1 DEF MeshIsTrue
  <1> QED
    BY <1>2, <1>3, <1>4, <1>5 DEF TilingInv

\* The bundle is found unchanged: its raster is what the manifest records.
LEMMA ReverifyBundleKeeps == ASSUME TilingInv, ReverifyBundle PROVE TilingInv'
  <1>1. /\ tpc = "assembled" /\ tpc' \in {"reverified", "refused"}
        /\ tpc' = "reverified" => SourceUnchanged
        /\ UNCHANGED <<chosen, build, rasters, recordedAs, opened, tileSet, boundTo, mpc, meshOf,
                       tilingEvents>>
    BY DEF ReverifyBundle
  <1>2. BundleShape' /\ TileShape'
    BY <1>1, BundleStill
  <1>3. CommandShape'
    BY <1>1 DEF TilingInv, CommandShape, Bound
  <1>4. CutIsTrue'
    BY <1>1 DEF CutIsTrue, SourceUnchanged, BundleSound
  <1>5. MeshIsTrue'
    <2>1. mpc \notin {"meshing", "published"}
      BY <1>1 DEF TilingInv, CommandShape
    <2> QED
      BY <1>1, <2>1 DEF MeshIsTrue
  <1> QED
    BY <1>2, <1>3, <1>4, <1>5 DEF TilingInv

\* What a tile that matches its source has in common with it.
LEMMA Matching ==
    ASSUME TilingInv, TilesMatchSource, NEW t \in TilesOf(chosen),
           NEW s \in PointsOf(SamplingWindow(chosen, t))
    PROVE  /\ t \in DOMAIN tileSet
           /\ tileSet[t].samples[s] = tileSet[t].sha256[s]
           /\ tileSet[t].sha256[s] = rasters[build.file][s]
  <1>1. /\ t \in DOMAIN tileSet /\ tileSet[t].samples = tileSet[t].sha256
        /\ tileSet[t].samples = Cut(rasters[build.file], SamplingWindow(chosen, t))
    BY DEF TilesMatchSource
  <1>2. Cut(rasters[build.file], SamplingWindow(chosen, t))[s] = rasters[build.file][s]
    BY DEF Cut
  <1> QED
    BY <1>1, <1>2

\* The tiles match the raster of now: what was rewritten since the bundle was
\* found unchanged is newer than they are, so they match the one that was verified.
LEMMA PublishTilesKeeps == ASSUME TilingInv, PublishTiles PROVE TilingInv'
  <1>1. /\ tpc = "reverified" /\ tpc' \in {"published", "refused"}
        /\ tpc' = "published" => TilesMatchSource
        /\ UNCHANGED <<chosen, build, rasters, recordedAs, opened, tileSet, boundTo, mpc, meshOf,
                       tilingEvents>>
    BY DEF PublishTiles
  <1>2. BundleShape' /\ TileShape'
    BY <1>1, BundleStill
  <1>3. CommandShape'
    <2>1. TilesMatchSource => DOMAIN tileSet = TilesOf(chosen)
      BY DEF TilesMatchSource
    <2> QED
      BY <1>1, <2>1 DEF TilingInv, CommandShape, Bound
  <1>4. CutIsTrue'
    <2>1. ASSUME tpc' = "published", NEW t \in DOMAIN tileSet,
                 NEW s \in PointsOf(SamplingWindow(chosen, t))
          PROVE  tileSet[t].sha256[s] = recordedAs[boundTo][s]
      <3>1. t \in TilesOf(chosen)
        BY DEF TilingInv, TileShape
      <3>2. tileSet[t].sha256[s] = rasters[build.file][s]
        BY <1>1, <2>1, <3>1, Matching
      <3> QED
        BY <1>1, <3>2 DEF TilingInv, CutIsTrue
    <2> QED
      BY <1>1, <2>1 DEF CutIsTrue
  <1>5. MeshIsTrue'
    <2>1. mpc \notin {"meshing", "published"}
      BY <1>1 DEF TilingInv, CommandShape
    <2> QED
      BY <1>1, <2>1 DEF MeshIsTrue
  <1> QED
    BY <1>2, <1>3, <1>4, <1>5 DEF TilingInv

-----------------------------------------------------------------------------

\* tile-mesh begins with a tile set that matches its source.
LEMMA VerifyTileSetKeeps == ASSUME TilingInv, VerifyTileSet PROVE TilingInv'
  <1>1. /\ tpc = "published" /\ mpc = "idle" /\ mpc' \in {"meshing", "refused"}
        /\ UNCHANGED <<chosen, build, rasters, recordedAs, tpc, opened, tileSet, boundTo, meshOf,
                       tilingEvents>>
    BY DEF VerifyTileSet
  <1>2. BundleShape' /\ TileShape'
    BY <1>1, BundleStill
  <1>3. CommandShape'
    BY <1>1 DEF TilingInv, CommandShape, Bound
  <1>4. CutIsTrue'
    BY <1>1 DEF TilingInv, CutIsTrue
  <1>5. MeshIsTrue'
    <2>1. DOMAIN meshOf' = {}
      BY <1>1 DEF TilingInv, CommandShape
    <2> QED
      BY <2>1 DEF MeshIsTrue
  <1> QED
    BY <1>2, <1>3, <1>4, <1>5 DEF TilingInv

\* A mesh is of the tile's samples as they are when it is built.
LEMMA MeshTileKeeps == ASSUME TilingInv, MeshTile PROVE TilingInv'
  <1> DEFINE t == NextTile(chosen, DOMAIN meshOf)
             mesh == CoreValues(t)
  <1>1. /\ mpc = "meshing" /\ DOMAIN meshOf # TilesOf(chosen)
        /\ meshOf' = With(meshOf, t, mesh)
        /\ UNCHANGED <<chosen, build, rasters, recordedAs, tpc, opened, tileSet, boundTo, mpc,
                       tilingEvents>>
    BY DEF MeshTile
  <1>2. tpc = "published" /\ DOMAIN tileSet = TilesOf(chosen) /\ chosen \in TilePlans
        /\ DOMAIN meshOf \subseteq TilesOf(chosen)
    BY <1>1 DEF TilingInv, CommandShape, BundleShape, TileShape
  <1>3. t \in TilesOf(chosen) \ DOMAIN meshOf
    BY <1>1, <1>2, NextTileIsNew
  <1> HIDE DEF t
  <1>4. tileSet[t].samples \in TileSamples(t) /\ tileSet[t].sha256 \in TileSamples(t)
    BY <1>2, <1>3, TileShapes
  <1>5. PointsOf(CoreSamples(chosen, t)) \subseteq PointsOf(SamplingWindow(chosen, t))
    BY <1>2, <1>3, Windows
  <1>6. /\ mesh \in TileMesh(t)
        /\ \A s \in PointsOf(CoreSamples(chosen, t)) : mesh[s] = tileSet[t].samples[s]
    BY <1>4, <1>5 DEF CoreValues, Cut, TileMesh, TileSamples
  <1> HIDE DEF mesh
  <1>7. /\ DOMAIN meshOf' = DOMAIN meshOf \cup {t} /\ meshOf'[t] = mesh
        /\ \A u \in DOMAIN meshOf : meshOf'[u] = meshOf[u]
    BY <1>1, <1>3 DEF With
  <1>8. BundleShape'
    BY <1>1, BundleStill
  <1>9. TileShape'
    <2>1. \A u : TileSamples(u)' = TileSamples(u) /\ TileMesh(u)' = TileMesh(u)
      BY <1>1 DEF TileSamples, TileMesh, Moments
    <2> QED
      BY <1>1, <1>2, <1>3, <1>6, <1>7, <2>1 DEF TilingInv, TileShape
  <1>10. CommandShape'
    BY <1>1, <1>7 DEF TilingInv, CommandShape
  <1>11. CutIsTrue'
    BY <1>1 DEF TilingInv, CutIsTrue
  <1>12. MeshIsTrue'
    <2>1. \A u \in DOMAIN meshOf : \A s \in PointsOf(CoreSamples(chosen, u)) :
              meshOf'[u][s] = tileSet[u].sha256[s] \/ tileSet[u].samples[s] # tileSet[u].sha256[s]
      BY <1>1, <1>7 DEF TilingInv, MeshIsTrue
    <2>2. \A s \in PointsOf(CoreSamples(chosen, t)) :
              meshOf'[t][s] = tileSet[t].sha256[s] \/ tileSet[t].samples[s] # tileSet[t].sha256[s]
      BY <1>6, <1>7
    <2> QED
      BY <1>1, <1>7, <2>1, <2>2 DEF MeshIsTrue
  <1> QED
    BY <1>8, <1>9, <1>10, <1>11, <1>12 DEF TilingInv

\* The tiles have their checksums still, so the meshes are of what was extracted.
LEMMA PublishMeshesKeeps == ASSUME TilingInv, PublishMeshes PROVE TilingInv'
  <1>1. /\ mpc = "meshing" /\ DOMAIN meshOf = TilesOf(chosen) /\ mpc' \in {"published", "refused"}
        /\ mpc' = "published" => TilesMatchSource
        /\ UNCHANGED <<chosen, build, rasters, recordedAs, tpc, opened, tileSet, boundTo, meshOf,
                       tilingEvents>>
    BY DEF PublishMeshes, MeshSetVerifies, SourceRecords
  <1>2. BundleShape' /\ TileShape'
    BY <1>1, BundleStill
  <1>3. CommandShape'
    BY <1>1 DEF TilingInv, CommandShape, Bound
  <1>4. CutIsTrue'
    BY <1>1 DEF TilingInv, CutIsTrue
  <1>5. MeshIsTrue'
    <2>1. ASSUME mpc' = "published", NEW t \in DOMAIN meshOf,
                 NEW s \in PointsOf(CoreSamples(chosen, t))
          PROVE  meshOf[t][s] = recordedAs[boundTo][s]
      <3>1. t \in TilesOf(chosen) /\ chosen \in TilePlans /\ tpc = "published"
        BY <1>1 DEF TilingInv, BundleShape, CommandShape
      <3>2. s \in PointsOf(SamplingWindow(chosen, t))
        BY <3>1, Windows
      <3>3. t \in DOMAIN tileSet /\ tileSet[t].samples[s] = tileSet[t].sha256[s]
        BY <1>1, <2>1, <3>1, <3>2, Matching
      <3>4. meshOf[t][s] = tileSet[t].sha256[s]
        BY <1>1, <3>3 DEF TilingInv, MeshIsTrue
      <3> QED
        BY <3>1, <3>2, <3>3, <3>4 DEF TilingInv, CutIsTrue
    <2> QED
      BY <1>1, <2>1 DEF MeshIsTrue
  <1> QED
    BY <1>2, <1>3, <1>4, <1>5 DEF TilingInv

\* Every step keeps the invariant.
LEMMA TilingStep == TilingInv /\ [TilingNext]_tilingVars => TilingInv'
  <1> SUFFICES ASSUME TilingInv, [TilingNext]_tilingVars PROVE TilingInv'
    OBVIOUS
  <1>1. CASE TilingNext
    BY <1>1, EditRasterKeeps, RebuildBundleKeeps, RecordSlicingKeeps, DamageTileKeeps,
       VerifyBundleKeeps, OpenRasterKeeps, ExtractOneKeeps, MeasureSeamsKeeps,
       ReverifyBundleKeeps, PublishTilesKeeps, VerifyTileSetKeeps, MeshTileKeeps,
       PublishMeshesKeeps DEF TilingNext
  <1>2. CASE UNCHANGED tilingVars
    <2> USE <1>2 DEF tilingVars
    <2>1. BundleShape' /\ TileShape'
      BY BundleStill
    <2>2. CommandShape' /\ CutIsTrue' /\ MeshIsTrue'
      BY DEF TilingInv, CommandShape, CutIsTrue, MeshIsTrue
    <2> QED
      BY <2>1, <2>2 DEF TilingInv
  <1> QED
    BY <1>1, <1>2

\* The invariant says what is promised of published tiles and meshes.
LEMMA InvMeansTerrain == ASSUME TilingInv PROVE TilingTypeOK /\ TilesAreTheTerrain
  <1>1. TilingTypeOK
    BY DEF TilingInv, BundleShape, TileShape, CommandShape, Bound, TilingTypeOK
  <1>2. chosen \in TilePlans
    BY DEF TilingInv, BundleShape
  <1>3. ASSUME tpc = "published", NEW cell \in (0..chosen.rows - 1) \X (0..chosen.columns - 1)
        PROVE  Cardinality({t \in DOMAIN tileSet : cell \in PointsOf(CoreCells(chosen, t))}) = 1
    <2>1. DOMAIN tileSet = TilesOf(chosen)
      BY <1>3 DEF TilingInv, CommandShape
    <2> QED
      BY <1>2, <2>1, CellInOneTile
  <1>4. ASSUME tpc = "published", NEW t \in DOMAIN tileSet
        PROVE  tileSet[t].sha256 = Cut(recordedAs[boundTo], SamplingWindow(chosen, t))
    <2>1. tileSet[t].sha256 \in TileSamples(t)
      BY TileShapes
    <2>2. \A s \in PointsOf(SamplingWindow(chosen, t)) :
              tileSet[t].sha256[s] = recordedAs[boundTo][s]
      BY <1>4 DEF TilingInv, CutIsTrue
    <2> QED
      BY <2>1, <2>2 DEF TileSamples, Cut
  <1>5. ASSUME mpc = "published", NEW t \in TilesOf(chosen)
        PROVE  meshOf[t] = Cut(recordedAs[boundTo], CoreSamples(chosen, t))
    <2>1. t \in DOMAIN meshOf /\ meshOf[t] \in TileMesh(t)
      BY <1>5 DEF TilingInv, CommandShape, TileShape
    <2>2. \A s \in PointsOf(CoreSamples(chosen, t)) : meshOf[t][s] = recordedAs[boundTo][s]
      BY <1>5, <2>1 DEF TilingInv, MeshIsTrue
    <2> QED
      BY <2>1, <2>2 DEF TileMesh, Cut
  <1> QED
    BY <1>1, <1>3, <1>4, <1>5 DEF TilesAreTheTerrain

\* For any raster, any layout and any number of edits, rebuilds, recorded slicings
\* and damages: published tiles have every cell in one core and the samples of the
\* build their assembly names, and published meshes are built of these
\* (extract_tile_set, verify_tile_set, generate_tile_meshes, verify_tile_mesh_set).
THEOREM TilesAreTheTerrainHolds == TilingSpec => [](TilingTypeOK /\ TilesAreTheTerrain)
  BY InvMeansTerrain, TilingInitial, TilingStep, PTL DEF TilingSpec

-----------------------------------------------------------------------------
(*****************************************************************************)
(* The dovetails.                                                            *)
(*                                                                           *)
(* That a male and a cavity keep away from one another is a fact about       *)
(* lines: the margin at both ends of a seam is larger than what a dovetail   *)
(* reaches into its tile, so those of a row and those of a column that come  *)
(* from the same corner stay apart; those of one seam are a spacing apart;   *)
(* those of two seams are in two tiles.                                      *)
(*****************************************************************************)

\* Integer division of any integer, by the two facts it is used by.
LEMMA DividedInt ==
    ASSUME NEW a \in Int, NEW b \in Nat \ {0}
    PROVE  /\ a \div b \in Int /\ a % b \in 0..b - 1
           /\ a = (a \div b) * b + (a % b)
  <1>1. a \div b \in Int
    OBVIOUS
  <1>2. a % b \in 0..b - 1
    OBVIOUS
  <1>3. a % b = a - b * (a \div b)
    OBVIOUS
  <1>4. ASSUME NEW d \in Int, NEW m \in Nat, m = a - b * d
        PROVE  a = d * b + m
    BY <1>4
  <1>5. a = (a \div b) * b + (a % b)
    BY <1>1, <1>2, <1>3, <1>4
  <1> QED
    BY <1>1, <1>2, <1>5

\* A product grows with its first factor.
LEMMA GrowsInt == ASSUME NEW q \in Nat, NEW i \in Int, NEW k \in Int, i <= k PROVE i * q <= k * q
  OBVIOUS

\* A multiple of the divisor bounds the quotient from below ...
LEMMA QuotientAtLeast ==
    ASSUME NEW a \in Int, NEW b \in Nat \ {0}, NEW q \in Int, q * b <= a
    PROVE  q <= a \div b
  <1> DEFINE d == a \div b
             m == a % b
  <1>1. d \in Int /\ m \in 0..b - 1 /\ a = d * b + m
    BY DividedInt
  <1> HIDE DEF d, m
  <1>2. ASSUME d + 1 <= q PROVE FALSE
    <2>1. (d + 1) * b <= q * b
      BY <1>1, <1>2, GrowsInt
    <2>2. (d + 1) * b = d * b + b
      BY <1>1
    <2>3. d * b \in Int /\ q * b \in Int
      BY <1>1
    <2> QED
      BY <1>1, <2>1, <2>2, <2>3
  <1>3. q <= d
    BY <1>1, <1>2
  <1> QED
    BY <1>3 DEF d

\* ... and from above.
LEMMA QuotientAtMost ==
    ASSUME NEW a \in Int, NEW b \in Nat \ {0}, NEW q \in Int, a <= q * b
    PROVE  a \div b <= q
  <1> DEFINE d == a \div b
             m == a % b
  <1>1. d \in Int /\ m \in 0..b - 1 /\ a = d * b + m
    BY DividedInt
  <1> HIDE DEF d, m
  <1>2. ASSUME q + 1 <= d PROVE FALSE
    <2>1. (q + 1) * b <= d * b
      BY <1>1, <1>2, GrowsInt
    <2>2. (q + 1) * b = q * b + b
      OBVIOUS
    <2>3. d * b \in Int /\ q * b \in Int
      BY <1>1
    <2> QED
      BY <1>1, <2>1, <2>2, <2>3
  <1>3. d <= q
    BY <1>1, <1>2
  <1> QED
    BY <1>3 DEF d

\* Dividends that are apart by a multiple of the divisor have quotients apart.
LEMMA QuotientsApart ==
    ASSUME NEW a \in Int, NEW b \in Int, NEW n \in Nat \ {0}, NEW q \in Int, a + q * n <= b
    PROVE  (a \div n) + q <= b \div n
  <1> DEFINE d == a \div n
             m == a % n
  <1>1. d \in Int /\ m \in 0..n - 1 /\ a = d * n + m
    BY DividedInt
  <1> HIDE DEF d, m
  <1>2. (d + q) * n = d * n + q * n
    BY <1>1
  <1>3. d * n \in Int /\ q * n \in Int /\ d + q \in Int
    BY <1>1
  <1>4. (d + q) * n <= b
    BY <1>1, <1>2, <1>3
  <1>5. d + q <= b \div n
    BY <1>3, <1>4, QuotientAtLeast
  <1> QED
    BY <1>5 DEF d

\* The largest of a few numbers is one of them, and none is larger.
LEMMA LargestOf ==
    ASSUME NEW a \in Int, NEW b \in Int, NEW c \in Int
    PROVE  /\ Largest({a, b, c}) \in {a, b, c}
           /\ a <= Largest({a, b, c}) /\ b <= Largest({a, b, c}) /\ c <= Largest({a, b, c})
  <1>1. \E x \in {a, b, c} : \A y \in {a, b, c} : y <= x
    <2>1. CASE b <= a /\ c <= a
      BY <2>1
    <2>2. CASE a <= b /\ c <= b
      BY <2>2
    <2>3. CASE a <= c /\ b <= c
      BY <2>3
    <2> QED
      BY <2>1, <2>2, <2>3
  <1> DEFINE P(x) == x \in {a, b, c} /\ \A y \in {a, b, c} : y <= x
  <1>2. P(CHOOSE x \in {a, b, c} : \A y \in {a, b, c} : y <= x)
    BY <1>1
  <1>3. P(Largest({a, b, c}))
    BY <1>2 DEF Largest
  <1> QED
    BY <1>3

\* What the proofs below need of a policy: the room around a dovetail.
PolicyFacts(p) ==
    /\ Depth(p) \in Nat \ {0} /\ Clearance(p) \in Nat
    /\ Half(MaleHead(p)) \in Nat \ {0} /\ Half(FemaleHead(p)) \in Nat
    /\ Half(MaleHead(p)) <= Half(FemaleHead(p))
    /\ FemaleHead(p) \in Nat \ {0} /\ 2 * Half(FemaleHead(p)) <= FemaleHead(p)
    /\ Margin(p) \in Nat
    /\ Half(FemaleHead(p)) + Depth(p) + Clearance(p) <= Margin(p)
    /\ Spacing(p) \in Nat \ {0} /\ 3 * FemaleHead(p) <= Spacing(p)
    /\ p.base - MaleHeight(p) - Clearance(p) >= Wall(p)

\* A policy that derive_connector_policy does not refuse leaves room: the margin
\* to a corner holds half a cavity and its whole reach.
LEMMA PolicyLeavesRoom ==
    ASSUME NEW p, {p.nozzle, p.feature, p.layer} \subseteq Nat \ {0},
           {p.tolerance, p.base} \subseteq Nat, PolicyExists(p)
    PROVE  PolicyFacts(p)
  <1> DEFINE n == p.nozzle
             f == p.feature
             t == p.tolerance
  <1>1. n \in Nat \ {0} /\ f \in Nat \ {0} /\ p.layer \in Nat \ {0} /\ t \in Nat /\ p.base \in Nat
    OBVIOUS
  <1>2. 4 * t <= 4 * n \/ 4 * t <= 3 * f
    <2>1. t <= n \/ t <= (3 * f) \div 4
      BY <1>1 DEF PolicyExists, Larger
    <2>2. 4 * ((3 * f) \div 4) <= 3 * f
      BY <1>1
    <2> QED
      BY <1>1, <2>1, <2>2
  <1>3. Wall(p) \in Nat
    <2>1. 2 * n \in Nat /\ 3 * p.layer \in Nat
      BY <1>1
    <2>2. Largest({2 * n, f, 3 * p.layer}) \in {2 * n, f, 3 * p.layer}
      <3>1. 2 * n \in Int /\ f \in Int /\ 3 * p.layer \in Int
        BY <1>1
      <3> QED
        BY <3>1, LargestOf
    <2>3. Largest({2 * n, f, 3 * p.layer}) \in Nat
      BY <1>1, <2>1, <2>2
    <2> QED
      BY <2>3 DEF Wall
  <1>4. /\ MaleHead(p) \in {Neck(p) + 2 * f, 12 * n, 10 * f}
        /\ 12 * n <= MaleHead(p) /\ 10 * f <= MaleHead(p)
    <2>1. Neck(p) + 2 * f \in Int /\ 12 * n \in Int /\ 10 * f \in Int
      BY <1>1 DEF Neck, Larger
    <2> QED
      BY <2>1, LargestOf DEF MaleHead
  <1>5. Neck(p) = (IF 8 * n >= 6 * f THEN 8 * n ELSE 6 * f)
    BY DEF Neck, Larger
  <1>6. Depth(p) = (IF 8 * n >= 6 * f THEN 8 * n ELSE 6 * f)
    BY DEF Depth, Larger
  <1>7. Spacing(p) = (IF 100 * n >= 80 * f THEN 100 * n ELSE 80 * f)
    BY DEF Spacing, Larger
  <1>8. MaleHead(p) \in Nat \ {0} /\ FemaleHead(p) = MaleHead(p) + t /\ Clearance(p) = t
    BY <1>1, <1>4, <1>5 DEF FemaleHead, Clearance
  <1> DEFINE m == MaleHead(p)
             g == Half(m)
             h == Half(m + t)
  <1>9. /\ m \in Nat /\ t \in Nat
        /\ g \in Nat /\ 2 * g <= m /\ m <= 2 * g + 1
        /\ h \in Nat /\ 2 * h <= m + t /\ m + t <= 2 * h + 1
    <2>1. \A x \in Nat : Half(x) \in Nat /\ 2 * Half(x) <= x /\ x <= 2 * Half(x) + 1
      BY DEF Half
    <2>2. m \in Nat /\ t \in Nat /\ m + t \in Nat
      BY <1>1, <1>8
    <2> HIDE DEF m
    <2> QED
      BY <2>1, <2>2
  <1>10. Margin(p) \in Nat /\ 3 * g <= Margin(p)
    <2>1. 4 * Wall(p) \in Nat /\ 3 * g \in Nat
      BY <1>3, <1>9
    <2> QED
      BY <2>1 DEF Margin, Larger
  <1>11. /\ 3 * (m + t) <= Spacing(p) /\ 12 * n <= m /\ 10 * f <= m
         /\ Spacing(p) \in Nat \ {0} /\ Depth(p) \in Nat \ {0}
    BY <1>1, <1>2, <1>4, <1>5, <1>6, <1>7
  <1>12. FemaleHead(p) = m + t /\ Clearance(p) = t /\ m # 0
    BY <1>8
  <1> HIDE DEF n, f, t, m, g, h
  <1>13. g # 0 /\ g <= h /\ h + Depth(p) + t <= 3 * g
    BY <1>1, <1>2, <1>6, <1>9, <1>11
  <1>14. p.base - MaleHeight(p) - t >= Wall(p)
    <2>1. DesiredHeight(p) \in Int
      <3>1. 4 * n \in Int /\ 3 * f \in Int /\ 6 * p.layer \in Int
        BY <1>1
      <3>2. Largest({4 * n, 3 * f, 6 * p.layer}) \in {4 * n, 3 * f, 6 * p.layer}
        BY <3>1, LargestOf
      <3>3. Largest({4 * n, 3 * f, 6 * p.layer}) \in Int
        BY <3>1, <3>2
      <3> QED
        BY <3>3 DEF DesiredHeight, n, f
    <2> QED
      BY <1>1, <1>3, <1>8, <2>1 DEF MaleHeight, AvailableHeight, Smaller, t
  <1>15. /\ Half(MaleHead(p)) = g /\ Half(FemaleHead(p)) = h
    BY <1>12 DEF g, h, m
  <1> QED
    BY <1>1, <1>9, <1>10, <1>11, <1>12, <1>13, <1>14, <1>15 DEF PolicyFacts

\* The dovetails of a seam stand a margin away from both corners, and so far from
\* one another that two cavities do not touch (_connector_centers).
LEMMA CentersFit ==
    ASSUME NEW start \in Nat, NEW stop \in Nat, PolicyFacts(Printer), SeamLongEnough(start, stop)
    PROVE  /\ Centers(start, stop) # {}
           /\ \A y \in Centers(start, stop) :
                 /\ y \in Int
                 /\ start + Margin(Printer) <= y /\ y + Margin(Printer) <= stop
           /\ \A y, z \in Centers(start, stop) :
                 \/ y = z
                 \/ y + FemaleHead(Printer) <= z \/ z + FemaleHead(Printer) <= y
  <1> DEFINE m == Margin(Printer)
             f == FemaleHead(Printer)
             s == Spacing(Printer)
             u == stop - start - 2 * m
             n == Larger(1, RoundedUp(u, s))
             At(k) == (u * k) \div (n + 1)
  <1>1. /\ m \in Nat /\ f \in Nat \ {0} /\ s \in Nat \ {0} /\ 3 * f <= s
        /\ u \in Nat /\ start + m + u + m = stop
    BY DEF PolicyFacts, SeamLongEnough
  <1>2. Centers(start, stop) = {start + m + At(k) : k \in 1..n}
    BY DEF Centers
  <1>3. n \in Nat \ {0} /\ (n = 1 \/ (n - 1) * s <= u)
    <2>1. -u \in Int
      BY <1>1
    <2> HIDE DEF u, s
    <2>2. (-u) \div s \in Int /\ (-u) % s \in 0..s - 1 /\ -u = ((-u) \div s) * s + ((-u) % s)
      BY <1>1, <2>1, DividedInt
    <2> DEFINE c == (-u) \div s
               r == (-u) % s
    <2>3. c \in Int /\ r \in 0..s - 1 /\ -u = c * s + r /\ RoundedUp(u, s) = -c
      BY <2>2 DEF RoundedUp
    <2> HIDE DEF c, r
    <2>4. n \in Nat \ {0} /\ (n = 1 \/ n = -c)
      BY <2>3 DEF Larger
    <2>5. (-c - 1) * s = -(c * s) - s
      BY <2>3, <1>1
    <2>6. c * s \in Int
      BY <2>3, <1>1
    <2>7. (-c - 1) * s <= u
      BY <1>1, <2>3, <2>5, <2>6
    <2> QED
      BY <2>4, <2>7
  <1> HIDE DEF n, s, u, m, f
  <1>4. ASSUME NEW k \in 1..n PROVE At(k) \in 0..u
    <2>1. n + 1 \in Nat \ {0} /\ k \in Nat /\ u * k \in Int /\ 0 * (n + 1) = 0
      BY <1>1, <1>3
    <2>2. 0 <= u * k
      <3>1. 0 * u <= k * u
        BY <1>1, <2>1, GrowsInt
      <3> QED
        BY <1>1, <2>1, <3>1
    <2>3. u * k <= u * (n + 1)
      <3>1. k * u <= (n + 1) * u
        BY <1>1, <1>3, GrowsInt
      <3> QED
        BY <1>1, <1>3, <3>1
    <2>4. 0 <= At(k) /\ At(k) <= u
      BY <1>1, <2>1, <2>2, <2>3, QuotientAtLeast, QuotientAtMost
    <2>5. At(k) \in Int
      BY <2>1, DividedInt
    <2> QED
      BY <1>1, <2>4, <2>5
  <1>5. ASSUME NEW k \in 1..n, NEW l \in 1..n, k < l PROVE At(k) + f <= At(l)
    <2>1. (n - 1) * s <= u
      BY <1>3, <1>5
    <2>2. f * (n + 1) <= u
      <3>1. (n - 1) * (3 * f) <= (n - 1) * s
        <4>1. (3 * f) * (n - 1) <= s * (n - 1)
          BY <1>1, <1>3, GrowsInt
        <4> QED
          BY <1>1, <1>3, <4>1
      <3>2. (n - 1) * (3 * f) = 3 * (n * f) - 3 * f
        BY <1>1, <1>3
      <3>3. 2 * f <= n * f
        BY <1>1, <1>3, <1>5, GrowsInt
      <3>4. f * (n + 1) = n * f + f
        BY <1>1, <1>3
      <3>5. n * f \in Int /\ (n - 1) * s \in Int /\ (n - 1) * (3 * f) \in Int
        BY <1>1, <1>3
      <3> QED
        BY <1>1, <2>1, <3>1, <3>2, <3>3, <3>4, <3>5
    <2>3. u * k + u <= u * l
      <3>1. (k + 1) * u <= l * u
        BY <1>1, <1>5, GrowsInt
      <3> QED
        BY <1>1, <3>1
    <2>4. u * k \in Int /\ u * l \in Int /\ f * (n + 1) \in Int /\ n + 1 \in Nat \ {0}
      BY <1>1, <1>3
    <2>5. u * k + f * (n + 1) <= u * l
      BY <1>1, <2>2, <2>3, <2>4
    <2> QED
      BY <1>1, <2>4, <2>5, QuotientsApart
  <1> HIDE DEF At
  <1>6. Centers(start, stop) # {}
    BY <1>2, <1>3
  <1>7. ASSUME NEW y \in Centers(start, stop)
        PROVE  y \in Int /\ start + m <= y /\ y + m <= stop
    BY <1>1, <1>2, <1>4
  <1>8. ASSUME NEW y \in Centers(start, stop), NEW z \in Centers(start, stop), y # z
        PROVE  y + f <= z \/ z + f <= y
    <2>1. PICK k \in 1..n : y = start + m + At(k)
      BY <1>2
    <2>2. PICK l \in 1..n : z = start + m + At(l)
      BY <1>2
    <2>3. k < l \/ l < k
      BY <1>3, <1>8, <2>1, <2>2
    <2>4. At(k) \in Int /\ At(l) \in Int
      BY <1>1, <1>4
    <2> QED
      BY <1>1, <1>5, <2>1, <2>2, <2>3, <2>4
  <1> QED
    BY <1>6, <1>7, <1>8 DEF m, f

\* Where the lines between the tiles are.
X(j) == XOf(PartStart(chosen.columns, TileColumns(chosen), j))
Y(i) == YOf(PartStart(chosen.rows, TileRows(chosen), i))

\* Rounding the lines of a grid down to micrometres keeps their order and the ends.
LEMMA LinesOf ==
    ASSUME NEW size \in Nat, NEW cells \in Nat \ {0}
    PROVE  /\ \A k \in 0..cells : (size * k) \div cells \in 0..size
           /\ (size * 0) \div cells = 0 /\ (size * cells) \div cells = size
           /\ \A i, k \in 0..cells : i <= k => (size * i) \div cells <= (size * k) \div cells
  <1> DEFINE L(k) == (size * k) \div cells
  <1>1. ASSUME NEW i \in 0..cells, NEW k \in 0..cells, i <= k PROVE L(i) <= L(k)
    <2>1. i * size <= k * size
      BY <1>1, GrowsInt
    <2>2. size * i \in Int /\ size * k \in Int /\ size * i + 0 * cells <= size * k
      BY <2>1
    <2>3. L(i) + 0 <= L(k)
      BY <2>2, QuotientsApart
    <2>4. L(i) \in Int
      BY <2>2, DividedInt
    <2> QED
      BY <2>3, <2>4
  <1>2. L(0) = 0
    <2>1. size * 0 = 0 /\ 0 <= 0 * cells /\ 0 * cells <= 0
      OBVIOUS
    <2>2. 0 \div cells <= 0 /\ 0 <= 0 \div cells /\ 0 \div cells \in Int
      BY <2>1, QuotientAtLeast, QuotientAtMost, DividedInt
    <2> QED
      BY <2>1, <2>2
  <1>3. L(cells) = size
    <2>1. size * cells \in Int /\ size * cells <= size * cells
      OBVIOUS
    <2>2. size <= L(cells) /\ L(cells) <= size /\ L(cells) \in Int
      BY <2>1, QuotientAtLeast, QuotientAtMost, DividedInt
    <2> QED
      BY <2>2
  <1>4. ASSUME NEW k \in 0..cells PROVE L(k) \in 0..size
    <2>1. 0 \in 0..cells /\ cells \in 0..cells
      OBVIOUS
    <2>2. L(0) <= L(k) /\ L(k) <= L(cells)
      BY <1>1, <2>1
    <2>3. L(k) \in Int
      <3>1. size * k \in Int
        OBVIOUS
      <3> QED
        BY <3>1, DividedInt
    <2> QED
      BY <1>2, <1>3, <2>2, <2>3
  <1> QED
    BY <1>1, <1>2, <1>3, <1>4

\* The lines between the tiles, in micrometres.
LEMMA Lines ==
    ASSUME chosen \in TilePlans
    PROVE  /\ \A j \in 0..TileColumns(chosen) : X(j) \in Nat
           /\ \A j, k \in 0..TileColumns(chosen) : j <= k => X(j) <= X(k)
           /\ X(TileColumns(chosen)) = ModelSize(chosen).width
           /\ \A i \in 0..TileRows(chosen) : Y(i) \in Nat
           /\ \A i, k \in 0..TileRows(chosen) : i <= k => Y(i) <= Y(k)
           /\ Y(TileRows(chosen)) = ModelSize(chosen).depth
  <1>1. /\ chosen.rows \in Nat \ {0} /\ chosen.columns \in Nat \ {0}
        /\ TileRows(chosen) \in Nat \ {0} /\ TileColumns(chosen) \in Nat \ {0}
    BY Layout
  <1>2. ModelSize(chosen).width \in Nat /\ ModelSize(chosen).depth \in Nat
    <2>1. /\ chosen.cell \in Nat \ {0} /\ chosen.drift \in Nat
      BY TilingAssumption
    <2>2. chosen.rows * chosen.cell + chosen.drift \in Nat
          /\ chosen.columns * chosen.cell + chosen.drift \in Nat
      BY <1>1, <2>1
    <2> QED
      BY <2>2 DEF ModelSize
  <1> DEFINE w == ModelSize(chosen).width
             d == ModelSize(chosen).depth
             m == chosen.columns
             n == chosen.rows
             Col(j) == PartStart(m, TileColumns(chosen), j)
             Row(i) == PartStart(n, TileRows(chosen), i)
  <1>3. \A j : X(j) = (w * Col(j)) \div m
    BY DEF X, XOf
  <1>4. \A i : Y(i) = (d * Row(i)) \div n
    BY DEF Y, YOf
  <1>5. /\ \A j \in 0..TileColumns(chosen) : Col(j) \in 0..m
        /\ Col(TileColumns(chosen)) = m
        /\ \A j, k \in 0..TileColumns(chosen) : j <= k => Col(j) <= Col(k)
    BY <1>1, AxisParts
  <1>6. /\ \A i \in 0..TileRows(chosen) : Row(i) \in 0..n
        /\ Row(TileRows(chosen)) = n
        /\ \A i, k \in 0..TileRows(chosen) : i <= k => Row(i) <= Row(k)
    BY <1>1, AxisParts
  <1>7. /\ \A k \in 0..m : (w * k) \div m \in 0..w
        /\ (w * m) \div m = w
        /\ \A i, k \in 0..m : i <= k => (w * i) \div m <= (w * k) \div m
    BY <1>1, <1>2, LinesOf
  <1>8. /\ \A k \in 0..n : (d * k) \div n \in 0..d
        /\ (d * n) \div n = d
        /\ \A i, k \in 0..n : i <= k => (d * i) \div n <= (d * k) \div n
    BY <1>1, <1>2, LinesOf
  <1> DEFINE LX(k) == (w * k) \div m
             LY(k) == (d * k) \div n
  <1>9. /\ \A j : X(j) = LX(Col(j))
        /\ \A k \in 0..m : LX(k) \in 0..w
        /\ LX(m) = w
        /\ \A i, k \in 0..m : i <= k => LX(i) <= LX(k)
    BY <1>3, <1>7
  <1>10. /\ \A i : Y(i) = LY(Row(i))
         /\ \A k \in 0..n : LY(k) \in 0..d
         /\ LY(n) = d
         /\ \A i, k \in 0..n : i <= k => LY(i) <= LY(k)
    BY <1>4, <1>8
  <1> HIDE DEF LX, LY, Col, Row, w, d, m, n
  <1>11. /\ \A j \in 0..TileColumns(chosen) : X(j) \in Nat
         /\ \A j, k \in 0..TileColumns(chosen) : j <= k => X(j) <= X(k)
         /\ X(TileColumns(chosen)) = w
    BY <1>2, <1>5, <1>9 DEF w
  <1>12. /\ \A i \in 0..TileRows(chosen) : Y(i) \in Nat
         /\ \A i, k \in 0..TileRows(chosen) : i <= k => Y(i) <= Y(k)
         /\ Y(TileRows(chosen)) = d
    BY <1>2, <1>6, <1>10 DEF d
  <1> QED
    BY <1>11, <1>12 DEF w, d

\* A tile is the box between its lines.
LEMMA Boxes ==
    ASSUME NEW t
    PROVE  TileBox(t) = [west |-> X(t[2]), east |-> X(t[2] + 1),
                         north |-> Y(t[1]), south |-> Y(t[1] + 1)]
BY DEF TileBox, CoreCells, X, Y

\* A dovetail across a seam between two tiles of a row, or of a column.
InRow(c, i, j) ==
    /\ i \in 0..TileRows(chosen) - 1 /\ j \in Nat /\ j + 1 \in 0..TileColumns(chosen) - 1
    /\ c = [male |-> <<i, j>>, female |-> <<i, j + 1>>, seam |-> X(j + 1), center |-> c.center]
    /\ c.center \in Centers(Y(i), Y(i + 1))
    /\ SeamLongEnough(Y(i), Y(i + 1))
InColumn(c, i, j) ==
    /\ i \in Nat /\ i + 1 \in 0..TileRows(chosen) - 1 /\ j \in 0..TileColumns(chosen) - 1
    /\ c = [male |-> <<i, j>>, female |-> <<i + 1, j>>, seam |-> Y(i + 1), center |-> c.center]
    /\ c.center \in Centers(X(j), X(j + 1))
    /\ SeamLongEnough(X(j), X(j + 1))

DovetailsOf(pair) ==
    IF pair[2] = East(pair[1])
    THEN {[male |-> pair[1], female |-> pair[2], seam |-> TileBox(pair[1]).east, center |-> y] :
          y \in Centers(TileBox(pair[1]).north, TileBox(pair[1]).south)}
    ELSE {[male |-> pair[1], female |-> pair[2], seam |-> TileBox(pair[1]).south, center |-> x] :
          x \in Centers(TileBox(pair[1]).west, TileBox(pair[1]).east)}

\* The dovetails are those of each seam.
LEMMA Dovetails == PlannedConnectors = UNION {DovetailsOf(pair) : pair \in Neighbours(chosen)}
BY DEF PlannedConnectors, DovetailsOf

\* Two neighbours follow one another in a row or in a column.
LEMMA NeighbourShape ==
    ASSUME chosen \in TilePlans, NEW pair \in Neighbours(chosen)
    PROVE  \E i \in 0..TileRows(chosen) - 1, j \in 0..TileColumns(chosen) - 1 :
              /\ pair[1] = <<i, j>>
              /\ \/ pair[2] = <<i, j + 1>> /\ j + 1 \in 0..TileColumns(chosen) - 1
                 \/ pair[2] = <<i + 1, j>> /\ i + 1 \in 0..TileRows(chosen) - 1
  <1>1. /\ TileRows(chosen) \in Nat \ {0} /\ TileColumns(chosen) \in Nat \ {0}
    BY Layout
  <1>2. pair[1] \in TilesOf(chosen) /\ pair[2] \in TilesOf(chosen)
        /\ (pair[2] = East(pair[1]) \/ pair[2] = South(pair[1]))
    BY DEF Neighbours
  <1>3. PICK i \in 0..TileRows(chosen) - 1, j \in 0..TileColumns(chosen) - 1 : pair[1] = <<i, j>>
    BY <1>2 DEF TilesOf
  <1>4. East(pair[1]) = <<i, j + 1>> /\ South(pair[1]) = <<i + 1, j>>
    BY <1>3 DEF East, South
  <1> QED
    BY <1>2, <1>3, <1>4 DEF TilesOf

\* Every planned dovetail goes across one seam of a row or of a column ...
LEMMA PlannedShape ==
    ASSUME chosen \in TilePlans, SeamsLongEnough, NEW c \in PlannedConnectors
    PROVE  \E i, j \in Nat : InRow(c, i, j) \/ InColumn(c, i, j)
  <1>1. PICK pair \in Neighbours(chosen) : c \in DovetailsOf(pair)
    BY Dovetails
  <1>2. PICK i \in 0..TileRows(chosen) - 1, j \in 0..TileColumns(chosen) - 1 :
              /\ pair[1] = <<i, j>>
              /\ \/ pair[2] = <<i, j + 1>> /\ j + 1 \in 0..TileColumns(chosen) - 1
                 \/ pair[2] = <<i + 1, j>> /\ i + 1 \in 0..TileRows(chosen) - 1
    BY NeighbourShape
  <1>3. /\ TileRows(chosen) \in Nat \ {0} /\ TileColumns(chosen) \in Nat \ {0}
    BY Layout
  <1>4. i \in Nat /\ j \in Nat
    BY <1>3
  <1>5. /\ TileBox(pair[1]).west = X(j) /\ TileBox(pair[1]).east = X(j + 1)
        /\ TileBox(pair[1]).north = Y(i) /\ TileBox(pair[1]).south = Y(i + 1)
    BY <1>2, Boxes
  <1>6. East(pair[1]) = <<i, j + 1>>
    BY <1>2 DEF East
  <1>7. CASE pair[2] = <<i, j + 1>> /\ j + 1 \in 0..TileColumns(chosen) - 1
    <2>1. SeamLongEnough(Y(i), Y(i + 1))
      BY <1>5, <1>6, <1>7 DEF SeamsLongEnough
    <2>2. PICK y \in Centers(Y(i), Y(i + 1)) :
              c = [male |-> pair[1], female |-> pair[2], seam |-> X(j + 1), center |-> y]
      BY <1>1, <1>5, <1>6, <1>7 DEF DovetailsOf
    <2>3. InRow(c, i, j)
      BY <1>2, <1>4, <1>7, <2>1, <2>2 DEF InRow
    <2> QED
      BY <1>4, <2>3
  <1>8. CASE pair[2] = <<i + 1, j>> /\ i + 1 \in 0..TileRows(chosen) - 1
    <2>1. pair[2] # East(pair[1])
      BY <1>4, <1>6, <1>8
    <2>2. SeamLongEnough(X(j), X(j + 1))
      BY <1>5, <2>1 DEF SeamsLongEnough
    <2>3. PICK x \in Centers(X(j), X(j + 1)) :
              c = [male |-> pair[1], female |-> pair[2], seam |-> Y(i + 1), center |-> x]
      BY <1>1, <1>5, <2>1 DEF DovetailsOf
    <2>4. InColumn(c, i, j)
      BY <1>2, <1>4, <1>8, <2>2, <2>3 DEF InColumn
    <2> QED
      BY <1>4, <2>4
  <1> QED
    BY <1>2, <1>7, <1>8

\* ... and every center of a seam of a row has its dovetail ...
LEMMA PlannedInRow ==
    ASSUME chosen \in TilePlans, NEW i \in Nat, NEW j \in Nat,
           i \in 0..TileRows(chosen) - 1, j + 1 \in 0..TileColumns(chosen) - 1,
           NEW y \in Centers(Y(i), Y(i + 1))
    PROVE  [male |-> <<i, j>>, female |-> <<i, j + 1>>, seam |-> X(j + 1), center |-> y]
              \in PlannedConnectors
  <1> DEFINE pair == <<<<i, j>>, <<i, j + 1>>>>
  <1>1. /\ TileRows(chosen) \in Nat \ {0} /\ TileColumns(chosen) \in Nat \ {0}
    BY Layout
  <1>2. pair \in Neighbours(chosen)
    BY <1>1 DEF Neighbours, TilesOf, East, South
  <1>3. /\ TileBox(pair[1]).east = X(j + 1)
        /\ TileBox(pair[1]).north = Y(i) /\ TileBox(pair[1]).south = Y(i + 1)
    BY Boxes
  <1>4. pair[2] = East(pair[1]) /\ pair[1] = <<i, j>> /\ pair[2] = <<i, j + 1>>
    BY DEF East
  <1> HIDE DEF pair
  <1>5. [male |-> pair[1], female |-> pair[2], seam |-> X(j + 1), center |-> y] \in DovetailsOf(pair)
    BY <1>3, <1>4 DEF DovetailsOf
  <1> QED
    BY <1>2, <1>4, <1>5, Dovetails

\* ... and so has every center of a seam of a column.
LEMMA PlannedInColumn ==
    ASSUME chosen \in TilePlans, NEW i \in Nat, NEW j \in Nat,
           i + 1 \in 0..TileRows(chosen) - 1, j \in 0..TileColumns(chosen) - 1,
           NEW x \in Centers(X(j), X(j + 1))
    PROVE  [male |-> <<i, j>>, female |-> <<i + 1, j>>, seam |-> Y(i + 1), center |-> x]
              \in PlannedConnectors
  <1> DEFINE pair == <<<<i, j>>, <<i + 1, j>>>>
  <1>1. /\ TileRows(chosen) \in Nat \ {0} /\ TileColumns(chosen) \in Nat \ {0}
    BY Layout
  <1>2. pair \in Neighbours(chosen)
    BY <1>1 DEF Neighbours, TilesOf, East, South
  <1>3. /\ TileBox(pair[1]).south = Y(i + 1)
        /\ TileBox(pair[1]).west = X(j) /\ TileBox(pair[1]).east = X(j + 1)
    BY Boxes
  <1>4. pair[2] # East(pair[1]) /\ pair[1] = <<i, j>> /\ pair[2] = <<i + 1, j>>
    BY DEF East
  <1> HIDE DEF pair
  <1>5. [male |-> pair[1], female |-> pair[2], seam |-> Y(i + 1), center |-> x] \in DovetailsOf(pair)
    BY <1>3, <1>4 DEF DovetailsOf
  <1> QED
    BY <1>2, <1>4, <1>5, Dovetails

Reach == Depth(Printer) + Clearance(Printer)

\* Where a dovetail of a row is: from its seam to the east, and away from the
\* corners of the seam by as much as it reaches.
LEMMA RowRoom ==
    ASSUME chosen \in TilePlans, PolicyFacts(Printer), NEW c, NEW i \in Nat, NEW j \in Nat,
           InRow(c, i, j)
    PROVE  /\ c.center \in Int
           /\ Male(c).west = X(j + 1) /\ Male(c).east = X(j + 1) + Depth(Printer)
           /\ Cavity(c).west = X(j + 1) /\ Cavity(c).east = X(j + 1) + Reach
           /\ Male(c).north = c.center - Half(MaleHead(Printer))
           /\ Male(c).south = c.center + Half(MaleHead(Printer))
           /\ Cavity(c).north = c.center - Half(FemaleHead(Printer))
           /\ Cavity(c).south = c.center + Half(FemaleHead(Printer))
           /\ Y(i) + Reach <= Cavity(c).north /\ Cavity(c).south + Reach <= Y(i + 1)
  <1>1. /\ c.male = <<i, j>> /\ c.female = <<i, j + 1>> /\ c.seam = X(j + 1)
        /\ c.center \in Centers(Y(i), Y(i + 1)) /\ SeamLongEnough(Y(i), Y(i + 1))
    BY DEF InRow
  <1>2. /\ i \in 0..TileRows(chosen) /\ i + 1 \in 0..TileRows(chosen)
        /\ j + 1 \in 0..TileColumns(chosen)
    <2>1. TileRows(chosen) \in Nat \ {0} /\ TileColumns(chosen) \in Nat \ {0}
      BY Layout
    <2> QED
      BY <2>1 DEF InRow
  <1>3. Y(i) \in Nat /\ Y(i + 1) \in Nat /\ X(j + 1) \in Nat
    BY <1>2, Lines
  <1>4. c.center \in Int /\ Y(i) + Margin(Printer) <= c.center
        /\ c.center + Margin(Printer) <= Y(i + 1)
    BY <1>1, <1>3, CentersFit
  <1>5. c.female = East(c.male)
    BY <1>1 DEF East
  <1> QED
    BY <1>1, <1>3, <1>4, <1>5 DEF Male, Cavity, Reaching, Reach, PolicyFacts

\* Where a dovetail of a column is: from its seam to the south, and away from the
\* corners of the seam by as much as it reaches.
LEMMA ColumnRoom ==
    ASSUME chosen \in TilePlans, PolicyFacts(Printer), NEW c, NEW i \in Nat, NEW j \in Nat,
           InColumn(c, i, j)
    PROVE  /\ c.center \in Int
           /\ Male(c).north = Y(i + 1) /\ Male(c).south = Y(i + 1) + Depth(Printer)
           /\ Cavity(c).north = Y(i + 1) /\ Cavity(c).south = Y(i + 1) + Reach
           /\ Male(c).west = c.center - Half(MaleHead(Printer))
           /\ Male(c).east = c.center + Half(MaleHead(Printer))
           /\ Cavity(c).west = c.center - Half(FemaleHead(Printer))
           /\ Cavity(c).east = c.center + Half(FemaleHead(Printer))
           /\ X(j) + Reach <= Cavity(c).west /\ Cavity(c).east + Reach <= X(j + 1)
  <1>1. /\ c.male = <<i, j>> /\ c.female = <<i + 1, j>> /\ c.seam = Y(i + 1)
        /\ c.center \in Centers(X(j), X(j + 1)) /\ SeamLongEnough(X(j), X(j + 1))
    BY DEF InColumn
  <1>2. /\ j \in 0..TileColumns(chosen) /\ j + 1 \in 0..TileColumns(chosen)
        /\ i + 1 \in 0..TileRows(chosen)
    <2>1. TileRows(chosen) \in Nat \ {0} /\ TileColumns(chosen) \in Nat \ {0}
      BY Layout
    <2> QED
      BY <2>1 DEF InColumn
  <1>3. X(j) \in Nat /\ X(j + 1) \in Nat /\ Y(i + 1) \in Nat
    BY <1>2, Lines
  <1>4. c.center \in Int /\ X(j) + Margin(Printer) <= c.center
        /\ c.center + Margin(Printer) <= X(j + 1)
    BY <1>1, <1>3, CentersFit
  <1>5. c.female # East(c.male)
    BY <1>1 DEF East
  <1> QED
    BY <1>1, <1>3, <1>4, <1>5 DEF Male, Cavity, Reaching, Reach, PolicyFacts

\* A male that passes the checks ends inside the next tile; and if a cavity is cut
\* from the tile after that one, the whole cavity of the first does too.
LEMMA RowReaches ==
    ASSUME chosen \in TilePlans, PolicyFacts(Printer),
           FitPasses(PlannedConnectors), BoundsMatch(PlannedConnectors),
           NEW c \in PlannedConnectors, NEW i \in Nat, NEW j \in Nat, InRow(c, i, j)
    PROVE  /\ X(j + 1) + Depth(Printer) <= X(j + 2)
           /\ j + 2 < TileColumns(chosen) => X(j + 1) + Reach <= X(j + 2)
  <1>1. TileRows(chosen) \in Nat \ {0} /\ TileColumns(chosen) \in Nat \ {0}
    BY Layout
  <1>2. /\ i \in 0..TileRows(chosen) - 1 /\ j + 1 \in 0..TileColumns(chosen) - 1
        /\ c.female = <<i, j + 1>> /\ c.center \in Centers(Y(i), Y(i + 1))
        /\ SeamLongEnough(Y(i), Y(i + 1))
    BY DEF InRow
  <1>3. /\ X(j + 1) \in Nat /\ X(j + 2) \in Nat /\ X(j + 1) <= X(j + 2)
    <2>1. j + 1 \in 0..TileColumns(chosen) /\ j + 2 \in 0..TileColumns(chosen) /\ j + 1 <= j + 2
      BY <1>1, <1>2
    <2> QED
      BY <2>1, Lines
  <1>4. Depth(Printer) \in Nat \ {0} /\ Clearance(Printer) \in Nat
        /\ Half(MaleHead(Printer)) \in Nat \ {0} /\ Half(FemaleHead(Printer)) \in Nat
    BY DEF PolicyFacts
  <1>5. CASE j + 2 < TileColumns(chosen)
    <2> DEFINE d == [male |-> <<i, j + 1>>, female |-> <<i, (j + 1) + 1>>,
                     seam |-> X((j + 1) + 1), center |-> c.center]
    <2>1. (j + 1) + 1 \in 0..TileColumns(chosen) - 1 /\ j + 1 \in Nat
      BY <1>1, <1>5
    <2>2. d \in PlannedConnectors
      BY <1>2, <2>1, PlannedInRow
    <2>3. d.male = <<i, j + 1>> /\ d.center = c.center
      OBVIOUS
    <2>4. InRow(d, i, j + 1)
      BY <1>2, <2>1 DEF InRow
    <2> HIDE DEF d
    <2>5. ~Meets(Male(d), Cavity(c))
      <3>1. c \in FemalesOf(PlannedConnectors, d.male)
        BY <1>2, <2>3 DEF FemalesOf
      <3> QED
        BY <2>2, <3>1 DEF FitPasses
    <2>6. /\ Male(d).west = X((j + 1) + 1) /\ Male(d).east = X((j + 1) + 1) + Depth(Printer)
          /\ Male(d).north = c.center - Half(MaleHead(Printer))
          /\ Male(d).south = c.center + Half(MaleHead(Printer))
      BY <2>1, <2>3, <2>4, RowRoom
    <2>7. (j + 1) + 1 = j + 2
      OBVIOUS
    <2>8. /\ c.center \in Int
          /\ Cavity(c).west = X(j + 1) /\ Cavity(c).east = X(j + 1) + Reach
          /\ Cavity(c).north = c.center - Half(FemaleHead(Printer))
          /\ Cavity(c).south = c.center + Half(FemaleHead(Printer))
      BY RowRoom
    <2> QED
      BY <1>3, <1>4, <2>5, <2>6, <2>7, <2>8 DEF Meets, Reach
  <1>6. CASE j + 2 = TileColumns(chosen)
    <2>1. Male(c).east <= ModelSize(chosen).width
      BY DEF BoundsMatch, Inside
    <2>2. X(j + 2) = ModelSize(chosen).width
      BY <1>6, Lines
    <2>3. Male(c).east = X(j + 1) + Depth(Printer)
      BY RowRoom
    <2> QED
      BY <1>6, <2>1, <2>2, <2>3
  <1> QED
    BY <1>1, <1>2, <1>5, <1>6

\* The same for the dovetails of a column.
LEMMA ColumnReaches ==
    ASSUME chosen \in TilePlans, PolicyFacts(Printer),
           FitPasses(PlannedConnectors), BoundsMatch(PlannedConnectors),
           NEW c \in PlannedConnectors, NEW i \in Nat, NEW j \in Nat, InColumn(c, i, j)
    PROVE  /\ Y(i + 1) + Depth(Printer) <= Y(i + 2)
           /\ i + 2 < TileRows(chosen) => Y(i + 1) + Reach <= Y(i + 2)
  <1>1. TileRows(chosen) \in Nat \ {0} /\ TileColumns(chosen) \in Nat \ {0}
    BY Layout
  <1>2. /\ j \in 0..TileColumns(chosen) - 1 /\ i + 1 \in 0..TileRows(chosen) - 1
        /\ c.female = <<i + 1, j>> /\ c.center \in Centers(X(j), X(j + 1))
        /\ SeamLongEnough(X(j), X(j + 1))
    BY DEF InColumn
  <1>3. /\ Y(i + 1) \in Nat /\ Y(i + 2) \in Nat /\ Y(i + 1) <= Y(i + 2)
    <2>1. i + 1 \in 0..TileRows(chosen) /\ i + 2 \in 0..TileRows(chosen) /\ i + 1 <= i + 2
      BY <1>1, <1>2
    <2> QED
      BY <2>1, Lines
  <1>4. Depth(Printer) \in Nat \ {0} /\ Clearance(Printer) \in Nat
        /\ Half(MaleHead(Printer)) \in Nat \ {0} /\ Half(FemaleHead(Printer)) \in Nat
    BY DEF PolicyFacts
  <1>5. CASE i + 2 < TileRows(chosen)
    <2> DEFINE d == [male |-> <<i + 1, j>>, female |-> <<(i + 1) + 1, j>>,
                     seam |-> Y((i + 1) + 1), center |-> c.center]
    <2>1. (i + 1) + 1 \in 0..TileRows(chosen) - 1 /\ i + 1 \in Nat
      BY <1>1, <1>5
    <2>2. d \in PlannedConnectors
      BY <1>2, <2>1, PlannedInColumn
    <2>3. d.male = <<i + 1, j>> /\ d.center = c.center
      OBVIOUS
    <2>4. InColumn(d, i + 1, j)
      BY <1>2, <2>1 DEF InColumn
    <2> HIDE DEF d
    <2>5. ~Meets(Male(d), Cavity(c))
      <3>1. c \in FemalesOf(PlannedConnectors, d.male)
        BY <1>2, <2>3 DEF FemalesOf
      <3> QED
        BY <2>2, <3>1 DEF FitPasses
    <2>6. /\ Male(d).north = Y((i + 1) + 1) /\ Male(d).south = Y((i + 1) + 1) + Depth(Printer)
          /\ Male(d).west = c.center - Half(MaleHead(Printer))
          /\ Male(d).east = c.center + Half(MaleHead(Printer))
      BY <2>1, <2>3, <2>4, ColumnRoom
    <2>7. (i + 1) + 1 = i + 2
      OBVIOUS
    <2>8. /\ c.center \in Int
          /\ Cavity(c).north = Y(i + 1) /\ Cavity(c).south = Y(i + 1) + Reach
          /\ Cavity(c).west = c.center - Half(FemaleHead(Printer))
          /\ Cavity(c).east = c.center + Half(FemaleHead(Printer))
      BY ColumnRoom
    <2> QED
      BY <1>3, <1>4, <2>5, <2>6, <2>7, <2>8 DEF Meets, Reach
  <1>6. CASE i + 2 = TileRows(chosen)
    <2>1. Male(c).south <= ModelSize(chosen).depth
      BY DEF BoundsMatch, Inside
    <2>2. Y(i + 2) = ModelSize(chosen).depth
      BY <1>6, Lines
    <2>3. Male(c).south = Y(i + 1) + Depth(Printer)
      BY ColumnRoom
    <2> QED
      BY <1>6, <2>1, <2>2, <2>3
  <1> QED
    BY <1>1, <1>2, <1>5, <1>6

\* A plan that passed the checks.
GoodPlan ==
    /\ chosen \in TilePlans /\ PolicyFacts(Printer) /\ SeamsLongEnough
    /\ FitPasses(PlannedConnectors) /\ BoundsMatch(PlannedConnectors)

\* The numbers of a policy that the geometry uses.
LEMMA ReachFacts ==
    ASSUME PolicyFacts(Printer)
    PROVE  /\ Reach \in Nat \ {0} /\ Depth(Printer) \in Nat \ {0} /\ Depth(Printer) <= Reach
           /\ Half(MaleHead(Printer)) \in Nat \ {0} /\ Half(FemaleHead(Printer)) \in Nat
           /\ Half(MaleHead(Printer)) <= Half(FemaleHead(Printer))
           /\ FemaleHead(Printer) \in Nat /\ 2 * Half(FemaleHead(Printer)) <= FemaleHead(Printer)
BY DEF PolicyFacts, Reach

\* The lines are in the order of the tiles.
LEMMA LinesInOrder ==
    ASSUME chosen \in TilePlans
    PROVE  /\ \A i, k \in Nat : i <= k /\ k <= TileRows(chosen) =>
                 Y(i) \in Nat /\ Y(k) \in Nat /\ Y(i) <= Y(k)
           /\ \A j, l \in Nat : j <= l /\ l <= TileColumns(chosen) =>
                 X(j) \in Nat /\ X(l) \in Nat /\ X(j) <= X(l)
  <1>1. TileRows(chosen) \in Nat \ {0} /\ TileColumns(chosen) \in Nat \ {0}
    BY Layout
  <1>2. ASSUME NEW i \in Nat, NEW k \in Nat, i <= k, k <= TileRows(chosen)
        PROVE  Y(i) \in Nat /\ Y(k) \in Nat /\ Y(i) <= Y(k)
    <2>1. i \in 0..TileRows(chosen) /\ k \in 0..TileRows(chosen)
      BY <1>1, <1>2
    <2> QED
      BY <1>2, <2>1, Lines
  <1>3. ASSUME NEW j \in Nat, NEW l \in Nat, j <= l, l <= TileColumns(chosen)
        PROVE  X(j) \in Nat /\ X(l) \in Nat /\ X(j) <= X(l)
    <2>1. j \in 0..TileColumns(chosen) /\ l \in 0..TileColumns(chosen)
      BY <1>1, <1>3
    <2> QED
      BY <1>3, <2>1, Lines
  <1> QED
    BY <1>2, <1>3

\* The lines around a dovetail of a row.
LEMMA RowLines ==
    ASSUME chosen \in TilePlans, NEW c, NEW i \in Nat, NEW j \in Nat, InRow(c, i, j)
    PROVE  /\ i < TileRows(chosen) /\ j + 1 < TileColumns(chosen)
           /\ Y(i) \in Nat /\ Y(i + 1) \in Nat /\ X(j + 1) \in Nat /\ X(j + 2) \in Nat
  <1>1. TileRows(chosen) \in Nat \ {0} /\ TileColumns(chosen) \in Nat \ {0}
    BY Layout
  <1>2. i \in 0..TileRows(chosen) - 1 /\ j + 1 \in 0..TileColumns(chosen) - 1
    BY DEF InRow
  <1>3. /\ i < TileRows(chosen) /\ j + 1 < TileColumns(chosen)
        /\ i <= i + 1 /\ i + 1 <= TileRows(chosen) /\ i + 1 \in Nat
        /\ j + 1 <= j + 2 /\ j + 2 <= TileColumns(chosen) /\ j + 1 \in Nat /\ j + 2 \in Nat
    BY <1>1, <1>2
  <1> QED
    BY <1>3, LinesInOrder

\* The lines around a dovetail of a column.
LEMMA ColumnLines ==
    ASSUME chosen \in TilePlans, NEW c, NEW i \in Nat, NEW j \in Nat, InColumn(c, i, j)
    PROVE  /\ j < TileColumns(chosen) /\ i + 1 < TileRows(chosen)
           /\ X(j) \in Nat /\ X(j + 1) \in Nat /\ Y(i + 1) \in Nat /\ Y(i + 2) \in Nat
  <1>1. TileRows(chosen) \in Nat \ {0} /\ TileColumns(chosen) \in Nat \ {0}
    BY Layout
  <1>2. j \in 0..TileColumns(chosen) - 1 /\ i + 1 \in 0..TileRows(chosen) - 1
    BY DEF InColumn
  <1>3. /\ j < TileColumns(chosen) /\ i + 1 < TileRows(chosen)
        /\ j <= j + 1 /\ j + 1 <= TileColumns(chosen) /\ j + 1 \in Nat
        /\ i + 1 <= i + 2 /\ i + 2 <= TileRows(chosen) /\ i + 1 \in Nat /\ i + 2 \in Nat
    BY <1>1, <1>2
  <1> QED
    BY <1>3, LinesInOrder

\* Two dovetails of rows do not meet.
LEMMA RowsApart ==
    ASSUME GoodPlan, NEW c \in PlannedConnectors, NEW d \in PlannedConnectors, c # d,
           NEW i \in Nat, NEW j \in Nat, InRow(c, i, j),
           NEW k \in Nat, NEW l \in Nat, InRow(d, k, l)
    PROVE  ~Meets(Cavity(c), Cavity(d))
  <1>0. chosen \in TilePlans /\ PolicyFacts(Printer)
    BY DEF GoodPlan
  <1>1. /\ c.center \in Int /\ d.center \in Int
        /\ Cavity(c).west = X(j + 1) /\ Cavity(c).east = X(j + 1) + Reach
        /\ Cavity(d).west = X(l + 1) /\ Cavity(d).east = X(l + 1) + Reach
        /\ Cavity(c).north = c.center - Half(FemaleHead(Printer))
        /\ Cavity(c).south = c.center + Half(FemaleHead(Printer))
        /\ Cavity(d).north = d.center - Half(FemaleHead(Printer))
        /\ Cavity(d).south = d.center + Half(FemaleHead(Printer))
        /\ Y(i) + Reach <= Cavity(c).north /\ Cavity(c).south + Reach <= Y(i + 1)
        /\ Y(k) + Reach <= Cavity(d).north /\ Cavity(d).south + Reach <= Y(k + 1)
    BY <1>0, RowRoom
  <1>2. /\ j + 2 < TileColumns(chosen) => X(j + 1) + Reach <= X(j + 2)
        /\ l + 2 < TileColumns(chosen) => X(l + 1) + Reach <= X(l + 2)
    BY <1>0, RowReaches DEF GoodPlan
  <1>3. /\ Reach \in Nat \ {0} /\ Half(FemaleHead(Printer)) \in Nat
        /\ FemaleHead(Printer) \in Nat /\ 2 * Half(FemaleHead(Printer)) <= FemaleHead(Printer)
    BY <1>0, ReachFacts
  <1>4. TileRows(chosen) \in Nat /\ TileColumns(chosen) \in Nat
    BY <1>0, Layout
  <1>5. CASE i < k
    <2>1. /\ Y(i + 1) \in Nat /\ Y(k) \in Nat /\ Y(i + 1) <= Y(k)
      <3>1. i + 1 <= k /\ k <= TileRows(chosen)
        BY <1>0, <1>4, <1>5, RowLines
      <3> QED
        BY <1>0, <1>4, <3>1, LinesInOrder
    <2> QED
      BY <1>1, <1>3, <2>1 DEF Meets
  <1>6. CASE k < i
    <2>1. /\ Y(k + 1) \in Nat /\ Y(i) \in Nat /\ Y(k + 1) <= Y(i)
      <3>1. k + 1 <= i /\ i <= TileRows(chosen)
        BY <1>0, <1>4, <1>6, RowLines
      <3> QED
        BY <1>0, <1>4, <3>1, LinesInOrder
    <2> QED
      BY <1>1, <1>3, <2>1 DEF Meets
  <1>7. CASE i = k /\ j < l
    <2>1. /\ X(j + 1) \in Nat /\ X(j + 2) \in Nat /\ X(l + 1) \in Nat /\ X(j + 2) <= X(l + 1)
          /\ j + 2 < TileColumns(chosen)
      <3>1. j + 2 <= l + 1 /\ l + 1 \in Nat /\ l + 1 < TileColumns(chosen)
        BY <1>0, <1>7, RowLines
      <3>2. l + 1 <= TileColumns(chosen) /\ j + 2 < TileColumns(chosen)
        BY <1>4, <3>1
      <3> QED
        BY <1>0, <1>4, <3>1, <3>2, LinesInOrder
    <2> QED
      BY <1>1, <1>2, <1>3, <2>1 DEF Meets
  <1>8. CASE i = k /\ l < j
    <2>1. /\ X(l + 1) \in Nat /\ X(l + 2) \in Nat /\ X(j + 1) \in Nat /\ X(l + 2) <= X(j + 1)
          /\ l + 2 < TileColumns(chosen)
      <3>1. l + 2 <= j + 1 /\ j + 1 \in Nat /\ j + 1 < TileColumns(chosen)
        BY <1>0, <1>8, RowLines
      <3>2. j + 1 <= TileColumns(chosen) /\ l + 2 < TileColumns(chosen)
        BY <1>4, <3>1
      <3> QED
        BY <1>0, <1>4, <3>1, <3>2, LinesInOrder
    <2> QED
      BY <1>1, <1>2, <1>3, <2>1 DEF Meets
  <1>9. CASE i = k /\ j = l
    <2>1. c.center # d.center
      BY <1>9 DEF InRow
    <2>2. /\ c.center \in Centers(Y(i), Y(i + 1)) /\ d.center \in Centers(Y(i), Y(i + 1))
          /\ SeamLongEnough(Y(i), Y(i + 1))
      BY <1>9 DEF InRow
    <2>3. Y(i) \in Nat /\ Y(i + 1) \in Nat
      BY <1>0, RowLines
    <2>4. \/ c.center + FemaleHead(Printer) <= d.center
          \/ d.center + FemaleHead(Printer) <= c.center
      BY <1>0, <2>1, <2>2, <2>3, CentersFit
    <2> QED
      BY <1>1, <1>3, <2>4 DEF Meets
  <1> QED
    BY <1>5, <1>6, <1>7, <1>8, <1>9

\* Two dovetails of columns do not meet.
LEMMA ColumnDovetailsApart ==
    ASSUME GoodPlan, NEW c \in PlannedConnectors, NEW d \in PlannedConnectors, c # d,
           NEW i \in Nat, NEW j \in Nat, InColumn(c, i, j),
           NEW k \in Nat, NEW l \in Nat, InColumn(d, k, l)
    PROVE  ~Meets(Cavity(c), Cavity(d))
  <1>0. chosen \in TilePlans /\ PolicyFacts(Printer)
    BY DEF GoodPlan
  <1>1. /\ c.center \in Int /\ d.center \in Int
        /\ Cavity(c).north = Y(i + 1) /\ Cavity(c).south = Y(i + 1) + Reach
        /\ Cavity(d).north = Y(k + 1) /\ Cavity(d).south = Y(k + 1) + Reach
        /\ Cavity(c).west = c.center - Half(FemaleHead(Printer))
        /\ Cavity(c).east = c.center + Half(FemaleHead(Printer))
        /\ Cavity(d).west = d.center - Half(FemaleHead(Printer))
        /\ Cavity(d).east = d.center + Half(FemaleHead(Printer))
        /\ X(j) + Reach <= Cavity(c).west /\ Cavity(c).east + Reach <= X(j + 1)
        /\ X(l) + Reach <= Cavity(d).west /\ Cavity(d).east + Reach <= X(l + 1)
    BY <1>0, ColumnRoom
  <1>2. /\ i + 2 < TileRows(chosen) => Y(i + 1) + Reach <= Y(i + 2)
        /\ k + 2 < TileRows(chosen) => Y(k + 1) + Reach <= Y(k + 2)
    BY <1>0, ColumnReaches DEF GoodPlan
  <1>3. /\ Reach \in Nat \ {0} /\ Half(FemaleHead(Printer)) \in Nat
        /\ FemaleHead(Printer) \in Nat /\ 2 * Half(FemaleHead(Printer)) <= FemaleHead(Printer)
    BY <1>0, ReachFacts
  <1>4. TileRows(chosen) \in Nat /\ TileColumns(chosen) \in Nat
    BY <1>0, Layout
  <1>5. CASE j < l
    <2>1. /\ X(j + 1) \in Nat /\ X(l) \in Nat /\ X(j + 1) <= X(l)
      <3>1. j + 1 <= l /\ l <= TileColumns(chosen)
        BY <1>0, <1>4, <1>5, ColumnLines
      <3> QED
        BY <1>0, <1>4, <3>1, LinesInOrder
    <2> QED
      BY <1>1, <1>3, <2>1 DEF Meets
  <1>6. CASE l < j
    <2>1. /\ X(l + 1) \in Nat /\ X(j) \in Nat /\ X(l + 1) <= X(j)
      <3>1. l + 1 <= j /\ j <= TileColumns(chosen)
        BY <1>0, <1>4, <1>6, ColumnLines
      <3> QED
        BY <1>0, <1>4, <3>1, LinesInOrder
    <2> QED
      BY <1>1, <1>3, <2>1 DEF Meets
  <1>7. CASE j = l /\ i < k
    <2>1. /\ Y(i + 1) \in Nat /\ Y(i + 2) \in Nat /\ Y(k + 1) \in Nat /\ Y(i + 2) <= Y(k + 1)
          /\ i + 2 < TileRows(chosen)
      <3>1. i + 2 <= k + 1 /\ k + 1 \in Nat /\ k + 1 < TileRows(chosen)
        BY <1>0, <1>7, ColumnLines
      <3>2. k + 1 <= TileRows(chosen) /\ i + 2 < TileRows(chosen)
        BY <1>4, <3>1
      <3> QED
        BY <1>0, <1>4, <3>1, <3>2, LinesInOrder
    <2> QED
      BY <1>1, <1>2, <1>3, <2>1 DEF Meets
  <1>8. CASE j = l /\ k < i
    <2>1. /\ Y(k + 1) \in Nat /\ Y(k + 2) \in Nat /\ Y(i + 1) \in Nat /\ Y(k + 2) <= Y(i + 1)
          /\ k + 2 < TileRows(chosen)
      <3>1. k + 2 <= i + 1 /\ i + 1 \in Nat /\ i + 1 < TileRows(chosen)
        BY <1>0, <1>8, ColumnLines
      <3>2. i + 1 <= TileRows(chosen) /\ k + 2 < TileRows(chosen)
        BY <1>4, <3>1
      <3> QED
        BY <1>0, <1>4, <3>1, <3>2, LinesInOrder
    <2> QED
      BY <1>1, <1>2, <1>3, <2>1 DEF Meets
  <1>9. CASE j = l /\ i = k
    <2>1. c.center # d.center
      BY <1>9 DEF InColumn
    <2>2. /\ c.center \in Centers(X(j), X(j + 1)) /\ d.center \in Centers(X(j), X(j + 1))
          /\ SeamLongEnough(X(j), X(j + 1))
      BY <1>9 DEF InColumn
    <2>3. X(j) \in Nat /\ X(j + 1) \in Nat
      BY <1>0, ColumnLines
    <2>4. \/ c.center + FemaleHead(Printer) <= d.center
          \/ d.center + FemaleHead(Printer) <= c.center
      BY <1>0, <2>1, <2>2, <2>3, CentersFit
    <2> QED
      BY <1>1, <1>3, <2>4 DEF Meets
  <1> QED
    BY <1>5, <1>6, <1>7, <1>8, <1>9

\* A dovetail of a row does not meet one of a column: around every corner, each
\* keeps the distance the other reaches.
LEMMA RowAndColumnApart ==
    ASSUME GoodPlan, NEW c \in PlannedConnectors, NEW d \in PlannedConnectors,
           NEW i \in Nat, NEW j \in Nat, InRow(c, i, j),
           NEW k \in Nat, NEW l \in Nat, InColumn(d, k, l)
    PROVE  ~Meets(Cavity(c), Cavity(d)) /\ ~Meets(Cavity(d), Cavity(c))
  <1>0. chosen \in TilePlans /\ PolicyFacts(Printer)
    BY DEF GoodPlan
  <1>1. /\ c.center \in Int
        /\ Cavity(c).north = c.center - Half(FemaleHead(Printer))
        /\ Cavity(c).south = c.center + Half(FemaleHead(Printer))
        /\ Y(i) + Reach <= Cavity(c).north /\ Cavity(c).south + Reach <= Y(i + 1)
    BY <1>0, RowRoom
  <1>2. Cavity(d).north = Y(k + 1) /\ Cavity(d).south = Y(k + 1) + Reach
    BY <1>0, ColumnRoom
  <1>3. k + 2 < TileRows(chosen) => Y(k + 1) + Reach <= Y(k + 2)
    BY <1>0, ColumnReaches DEF GoodPlan
  <1>4. Reach \in Nat \ {0} /\ Half(FemaleHead(Printer)) \in Nat
    BY <1>0, ReachFacts
  <1>5. TileRows(chosen) \in Nat
    BY <1>0, Layout
  <1>6. Y(i) \in Nat /\ Y(i + 1) \in Nat /\ Y(k + 1) \in Nat /\ Y(k + 2) \in Nat
        /\ i < TileRows(chosen) /\ k + 1 < TileRows(chosen)
    BY <1>0, RowLines, ColumnLines
  <1>7. CASE i < k + 1
    <2>1. i + 1 <= k + 1 /\ k + 1 \in Nat /\ k + 1 <= TileRows(chosen)
      BY <1>5, <1>6, <1>7
    <2>2. Y(i + 1) <= Y(k + 1)
      BY <1>0, <1>5, <2>1, LinesInOrder
    <2> QED
      BY <1>1, <1>2, <1>4, <1>6, <2>2 DEF Meets
  <1>8. CASE k + 1 < i
    <2>1. k + 2 <= i /\ i <= TileRows(chosen) /\ k + 2 < TileRows(chosen)
      BY <1>5, <1>6, <1>8
    <2>2. Y(k + 2) <= Y(i)
      BY <1>0, <1>5, <2>1, LinesInOrder
    <2> QED
      BY <1>1, <1>2, <1>3, <1>4, <1>6, <2>1, <2>2 DEF Meets
  <1>9. CASE i = k + 1
    BY <1>1, <1>2, <1>4, <1>6, <1>9 DEF Meets
  <1> QED
    BY <1>7, <1>8, <1>9

\* A male is inside its cavity, and both are boxes of integers.
LEMMA MaleInCavity ==
    ASSUME GoodPlan, NEW c \in PlannedConnectors
    PROVE  /\ Inside(Male(c), Cavity(c))
           /\ Cavity(c).west \in Int /\ Cavity(c).east \in Int
           /\ Cavity(c).north \in Int /\ Cavity(c).south \in Int
           /\ Male(c).west \in Int /\ Male(c).east \in Int
           /\ Male(c).north \in Int /\ Male(c).south \in Int
  <1>0. chosen \in TilePlans /\ PolicyFacts(Printer)
    BY DEF GoodPlan
  <1>1. /\ Reach \in Nat \ {0} /\ Depth(Printer) \in Nat \ {0} /\ Depth(Printer) <= Reach
        /\ Half(MaleHead(Printer)) \in Nat \ {0} /\ Half(FemaleHead(Printer)) \in Nat
        /\ Half(MaleHead(Printer)) <= Half(FemaleHead(Printer))
    BY <1>0, ReachFacts
  <1>2. PICK i, j \in Nat : InRow(c, i, j) \/ InColumn(c, i, j)
    BY PlannedShape DEF GoodPlan
  <1>3. CASE InRow(c, i, j)
    <2>1. X(j + 1) \in Nat
      BY <1>0, <1>3, RowLines
    <2> QED
      BY <1>0, <1>1, <1>3, <2>1, RowRoom DEF Inside
  <1>4. CASE InColumn(c, i, j)
    <2>1. Y(i + 1) \in Nat
      BY <1>0, <1>4, ColumnLines
    <2> QED
      BY <1>0, <1>1, <1>4, <2>1, ColumnRoom DEF Inside
  <1> QED
    BY <1>2, <1>3, <1>4

\* No two dovetails meet.
LEMMA ConnectorsApart ==
    ASSUME GoodPlan, NEW c \in PlannedConnectors, NEW d \in PlannedConnectors, c # d
    PROVE  ~Meets(Male(c), Male(d)) /\ ~Meets(Cavity(c), Cavity(d))
  <1>1. PICK i, j \in Nat : InRow(c, i, j) \/ InColumn(c, i, j)
    BY PlannedShape DEF GoodPlan
  <1>2. PICK k, l \in Nat : InRow(d, k, l) \/ InColumn(d, k, l)
    BY PlannedShape DEF GoodPlan
  <1>3. ~Meets(Cavity(c), Cavity(d))
    BY <1>1, <1>2, RowsApart, ColumnDovetailsApart, RowAndColumnApart
  <1>4. ~Meets(Male(c), Male(d))
    BY <1>3, MaleInCavity DEF Inside, Meets
  <1> QED
    BY <1>3, <1>4

\* A male of a row enters its female tile and no other.
LEMMA RowEnters ==
    ASSUME GoodPlan, NEW c \in PlannedConnectors, NEW i \in Nat, NEW j \in Nat, InRow(c, i, j)
    PROVE  /\ Inside(Male(c), TileBox(c.female))
           /\ \A t \in TilesOf(chosen) :
                 t # c.male /\ Meets(Male(c), TileBox(t)) => t = c.female
  <1>0. chosen \in TilePlans /\ PolicyFacts(Printer)
    BY DEF GoodPlan
  <1>1. /\ c.center \in Int /\ c.male = <<i, j>> /\ c.female = <<i, j + 1>>
        /\ Male(c).west = X(j + 1) /\ Male(c).east = X(j + 1) + Depth(Printer)
        /\ Y(i) <= Male(c).north /\ Male(c).north \in Int
        /\ Male(c).south <= Y(i + 1) /\ Male(c).south \in Int
    <2>1. /\ Reach \in Nat /\ Half(MaleHead(Printer)) \in Nat /\ Half(FemaleHead(Printer)) \in Nat
          /\ Half(MaleHead(Printer)) <= Half(FemaleHead(Printer))
      BY <1>0, ReachFacts
    <2>2. Y(i) \in Nat /\ Y(i + 1) \in Nat
      BY <1>0, RowLines
    <2>3. c.male = <<i, j>> /\ c.female = <<i, j + 1>>
      BY DEF InRow
    <2>4. /\ c.center \in Int
          /\ Male(c).west = X(j + 1) /\ Male(c).east = X(j + 1) + Depth(Printer)
          /\ Male(c).north = c.center - Half(MaleHead(Printer))
          /\ Male(c).south = c.center + Half(MaleHead(Printer))
          /\ Cavity(c).north = c.center - Half(FemaleHead(Printer))
          /\ Cavity(c).south = c.center + Half(FemaleHead(Printer))
          /\ Y(i) + Reach <= Cavity(c).north /\ Cavity(c).south + Reach <= Y(i + 1)
      BY <1>0, RowRoom
    <2> QED
      BY <2>1, <2>2, <2>3, <2>4
  <1>2. X(j + 1) + Depth(Printer) <= X(j + 2) /\ Depth(Printer) \in Nat
    BY <1>0, RowReaches, ReachFacts DEF GoodPlan
  <1>3. /\ X(j + 1) \in Nat /\ X(j + 2) \in Nat /\ Y(i) \in Nat /\ Y(i + 1) \in Nat
    BY <1>0, RowLines
  <1>4. /\ TileBox(c.female).west = X(j + 1) /\ TileBox(c.female).east = X((j + 1) + 1)
        /\ TileBox(c.female).north = Y(i) /\ TileBox(c.female).south = Y(i + 1)
    BY <1>1, Boxes
  <1>5. Inside(Male(c), TileBox(c.female))
    <2>1. TileBox(c.female).east = X(j + 2)
      <3>1. (j + 1) + 1 = j + 2
        OBVIOUS
      <3> QED
        BY <1>4, <3>1
    <2>2. /\ X(j + 1) <= Male(c).west /\ Male(c).east <= X(j + 2)
          /\ Y(i) <= Male(c).north /\ Male(c).south <= Y(i + 1)
      BY <1>1, <1>2, <1>3
    <2> QED
      BY <1>4, <2>1, <2>2 DEF Inside
  <1>7. /\ i + 1 \in Nat /\ j + 1 \in Nat /\ i + 2 \in Nat /\ j + 2 \in Nat
        /\ i <= TileRows(chosen) /\ j <= TileColumns(chosen)
        /\ i + 1 <= TileRows(chosen) /\ j + 1 <= TileColumns(chosen)
        /\ j + 2 <= TileColumns(chosen)
    BY <1>0, RowLines, Layout
  <1>6. ASSUME NEW t \in TilesOf(chosen), t # c.male, Meets(Male(c), TileBox(t))
        PROVE  t = c.female
    <2>1. TileRows(chosen) \in Nat /\ TileColumns(chosen) \in Nat
      BY <1>0, Layout
    <2>2. PICK k \in 0..TileRows(chosen) - 1, l \in 0..TileColumns(chosen) - 1 : t = <<k, l>>
      BY DEF TilesOf
    <2>3. k \in Nat /\ l \in Nat /\ k + 1 \in Nat /\ l + 1 \in Nat
          /\ k + 1 <= TileRows(chosen) /\ l + 1 <= TileColumns(chosen)
          /\ k <= TileRows(chosen) /\ l <= TileColumns(chosen)
      BY <2>1
    <2>4. /\ TileBox(t).west = X(l) /\ TileBox(t).east = X(l + 1)
          /\ TileBox(t).north = Y(k) /\ TileBox(t).south = Y(k + 1)
      BY <2>2, Boxes
    <2>5. k = i
      <3>1. CASE k < i
        <4>0. k + 1 <= i
          BY <2>3, <3>1
        <4>1. Y(k + 1) <= Y(i) /\ Y(k + 1) \in Nat
          BY <1>0, <1>7, <2>3, <4>0, LinesInOrder
        <4> QED
          BY <1>1, <1>3, <1>6, <2>4, <4>1 DEF Meets
      <3>2. CASE i < k
        <4>0. i + 1 <= k
          BY <2>3, <3>2
        <4>1. Y(i + 1) <= Y(k) /\ Y(k) \in Nat
          BY <1>0, <1>7, <2>3, <4>0, LinesInOrder
        <4> QED
          BY <1>1, <1>3, <1>6, <2>4, <4>1 DEF Meets
      <3> QED
        BY <2>3, <3>1, <3>2
    <2>6. ~(l < j)
      <3> SUFFICES ASSUME l < j PROVE FALSE
        OBVIOUS
      <3>0. l + 1 <= j + 1
        BY <2>3
      <3>1. X(l + 1) <= X(j + 1) /\ X(l + 1) \in Nat
        BY <1>0, <1>7, <2>3, <3>0, LinesInOrder
      <3> QED
        BY <1>1, <1>3, <1>6, <2>4, <3>1 DEF Meets
    <2>7. ~(j + 1 < l)
      <3> SUFFICES ASSUME j + 1 < l PROVE FALSE
        OBVIOUS
      <3>0. j + 2 <= l
        BY <2>3
      <3>1. X(j + 2) <= X(l) /\ X(l) \in Nat
        BY <1>0, <1>7, <2>3, <3>0, LinesInOrder
      <3> QED
        BY <1>1, <1>2, <1>3, <1>6, <2>4, <3>1 DEF Meets
    <2>8. l # j
      BY <1>1, <1>6, <2>2, <2>5
    <2>9. l = j + 1
      BY <2>3, <2>6, <2>7, <2>8
    <2> QED
      BY <1>1, <2>2, <2>5, <2>9
  <1> QED
    BY <1>5, <1>6

\* A male of a column enters its female tile and no other.
LEMMA ColumnEnters ==
    ASSUME GoodPlan, NEW c \in PlannedConnectors, NEW i \in Nat, NEW j \in Nat, InColumn(c, i, j)
    PROVE  /\ Inside(Male(c), TileBox(c.female))
           /\ \A t \in TilesOf(chosen) :
                 t # c.male /\ Meets(Male(c), TileBox(t)) => t = c.female
  <1>0. chosen \in TilePlans /\ PolicyFacts(Printer)
    BY DEF GoodPlan
  <1>1. /\ c.center \in Int /\ c.male = <<i, j>> /\ c.female = <<i + 1, j>>
        /\ Male(c).north = Y(i + 1) /\ Male(c).south = Y(i + 1) + Depth(Printer)
        /\ X(j) <= Male(c).west /\ Male(c).west \in Int
        /\ Male(c).east <= X(j + 1) /\ Male(c).east \in Int
    <2>1. /\ Reach \in Nat /\ Half(MaleHead(Printer)) \in Nat /\ Half(FemaleHead(Printer)) \in Nat
          /\ Half(MaleHead(Printer)) <= Half(FemaleHead(Printer))
      BY <1>0, ReachFacts
    <2>2. X(j) \in Nat /\ X(j + 1) \in Nat
      BY <1>0, ColumnLines
    <2>3. c.male = <<i, j>> /\ c.female = <<i + 1, j>>
      BY DEF InColumn
    <2>4. /\ c.center \in Int
          /\ Male(c).north = Y(i + 1) /\ Male(c).south = Y(i + 1) + Depth(Printer)
          /\ Male(c).west = c.center - Half(MaleHead(Printer))
          /\ Male(c).east = c.center + Half(MaleHead(Printer))
          /\ Cavity(c).west = c.center - Half(FemaleHead(Printer))
          /\ Cavity(c).east = c.center + Half(FemaleHead(Printer))
          /\ X(j) + Reach <= Cavity(c).west /\ Cavity(c).east + Reach <= X(j + 1)
      BY <1>0, ColumnRoom
    <2> QED
      BY <2>1, <2>2, <2>3, <2>4
  <1>2. Y(i + 1) + Depth(Printer) <= Y(i + 2) /\ Depth(Printer) \in Nat
    BY <1>0, ColumnReaches, ReachFacts DEF GoodPlan
  <1>3. /\ Y(i + 1) \in Nat /\ Y(i + 2) \in Nat /\ X(j) \in Nat /\ X(j + 1) \in Nat
    BY <1>0, ColumnLines
  <1>4. /\ TileBox(c.female).north = Y(i + 1) /\ TileBox(c.female).south = Y((i + 1) + 1)
        /\ TileBox(c.female).west = X(j) /\ TileBox(c.female).east = X(j + 1)
    BY <1>1, Boxes
  <1>5. Inside(Male(c), TileBox(c.female))
    <2>1. TileBox(c.female).south = Y(i + 2)
      <3>1. (i + 1) + 1 = i + 2
        OBVIOUS
      <3> QED
        BY <1>4, <3>1
    <2>2. /\ Y(i + 1) <= Male(c).north /\ Male(c).south <= Y(i + 2)
          /\ X(j) <= Male(c).west /\ Male(c).east <= X(j + 1)
      BY <1>1, <1>2, <1>3
    <2> QED
      BY <1>4, <2>1, <2>2 DEF Inside
  <1>7. /\ i + 1 \in Nat /\ j + 1 \in Nat /\ i + 2 \in Nat /\ j + 2 \in Nat
        /\ i <= TileRows(chosen) /\ j <= TileColumns(chosen)
        /\ i + 1 <= TileRows(chosen) /\ j + 1 <= TileColumns(chosen)
        /\ i + 2 <= TileRows(chosen)
    BY <1>0, ColumnLines, Layout
  <1>6. ASSUME NEW t \in TilesOf(chosen), t # c.male, Meets(Male(c), TileBox(t))
        PROVE  t = c.female
    <2>1. TileRows(chosen) \in Nat /\ TileColumns(chosen) \in Nat
      BY <1>0, Layout
    <2>2. PICK k \in 0..TileRows(chosen) - 1, l \in 0..TileColumns(chosen) - 1 : t = <<k, l>>
      BY DEF TilesOf
    <2>3. k \in Nat /\ l \in Nat /\ k + 1 \in Nat /\ l + 1 \in Nat
          /\ k + 1 <= TileRows(chosen) /\ l + 1 <= TileColumns(chosen)
          /\ k <= TileRows(chosen) /\ l <= TileColumns(chosen)
      BY <2>1
    <2>4. /\ TileBox(t).west = X(l) /\ TileBox(t).east = X(l + 1)
          /\ TileBox(t).north = Y(k) /\ TileBox(t).south = Y(k + 1)
      BY <2>2, Boxes
    <2>5. l = j
      <3>1. CASE l < j
        <4>0. l + 1 <= j
          BY <2>3, <3>1
        <4>1. X(l + 1) <= X(j) /\ X(l + 1) \in Nat
          BY <1>0, <1>7, <2>3, <4>0, LinesInOrder
        <4> QED
          BY <1>1, <1>3, <1>6, <2>4, <4>1 DEF Meets
      <3>2. CASE j < l
        <4>0. j + 1 <= l
          BY <2>3, <3>2
        <4>1. X(j + 1) <= X(l) /\ X(l) \in Nat
          BY <1>0, <1>7, <2>3, <4>0, LinesInOrder
        <4> QED
          BY <1>1, <1>3, <1>6, <2>4, <4>1 DEF Meets
      <3> QED
        BY <2>3, <3>1, <3>2
    <2>6. ~(k < i)
      <3> SUFFICES ASSUME k < i PROVE FALSE
        OBVIOUS
      <3>0. k + 1 <= i + 1
        BY <2>3
      <3>1. Y(k + 1) <= Y(i + 1) /\ Y(k + 1) \in Nat
        BY <1>0, <1>7, <2>3, <3>0, LinesInOrder
      <3> QED
        BY <1>1, <1>3, <1>6, <2>4, <3>1 DEF Meets
    <2>7. ~(i + 1 < k)
      <3> SUFFICES ASSUME i + 1 < k PROVE FALSE
        OBVIOUS
      <3>0. i + 2 <= k
        BY <2>3
      <3>1. Y(i + 2) <= Y(k) /\ Y(k) \in Nat
        BY <1>0, <1>7, <2>3, <3>0, LinesInOrder
      <3> QED
        BY <1>1, <1>2, <1>3, <1>6, <2>4, <3>1 DEF Meets
    <2>8. k # i
      BY <1>1, <1>6, <2>2, <2>5
    <2>9. k = i + 1
      BY <2>3, <2>6, <2>7, <2>8
    <2> QED
      BY <1>1, <2>2, <2>5, <2>9
  <1> QED
    BY <1>5, <1>6

\* Where tile-connect is, and the plan it works on.
PrintShape ==
    /\ ppc \in {"idle", "planned", "published", "refused"}
    /\ connectors \in {{}, PlannedConnectors}
    /\ connectors # {} => SeamsLongEnough /\ PolicyExists(Printer)
    /\ ppc \in {"planned", "published"} =>
          connectors = PlannedConnectors /\ SeamsLongEnough /\ PolicyExists(Printer)
    /\ ppc = "published" => PrintTilesPass(connectors)

PrintInv == TilingInv /\ PrintShape

\* The printer of a plan has the fields that its model in the code demands.
LEMMA PolicyOfPrinter ==
    ASSUME chosen \in TilePlans, PolicyExists(Printer)
    PROVE  PolicyFacts(Printer)
BY PrinterAssumption, PolicyLeavesRoom DEF Printer

\* Every seam has a dovetail.
LEMMA SeamsConnected ==
    ASSUME chosen \in TilePlans, PolicyFacts(Printer), SeamsLongEnough, NEW pair \in Neighbours(chosen)
    PROVE  \E c \in PlannedConnectors : c.male = pair[1] /\ c.female = pair[2]
  <1>1. PICK i \in 0..TileRows(chosen) - 1, j \in 0..TileColumns(chosen) - 1 :
              /\ pair[1] = <<i, j>>
              /\ \/ pair[2] = <<i, j + 1>> /\ j + 1 \in 0..TileColumns(chosen) - 1
                 \/ pair[2] = <<i + 1, j>> /\ i + 1 \in 0..TileRows(chosen) - 1
    BY NeighbourShape
  <1>2. TileRows(chosen) \in Nat \ {0} /\ TileColumns(chosen) \in Nat \ {0}
    BY Layout
  <1>3. i \in Nat /\ j \in Nat
    BY <1>2
  <1>4. /\ TileBox(pair[1]).west = X(j) /\ TileBox(pair[1]).east = X(j + 1)
        /\ TileBox(pair[1]).north = Y(i) /\ TileBox(pair[1]).south = Y(i + 1)
    BY <1>1, Boxes
  <1>5. East(pair[1]) = <<i, j + 1>>
    BY <1>1 DEF East
  <1>6. X(j) \in Nat /\ X(j + 1) \in Nat /\ Y(i) \in Nat /\ Y(i + 1) \in Nat
    <2>1. /\ j <= j + 1 /\ j + 1 <= TileColumns(chosen) /\ j + 1 \in Nat
          /\ i <= i + 1 /\ i + 1 <= TileRows(chosen) /\ i + 1 \in Nat
      BY <1>2
    <2> QED
      BY <1>3, <2>1, LinesInOrder
  <1>7. CASE pair[2] = <<i, j + 1>> /\ j + 1 \in 0..TileColumns(chosen) - 1
    <2>1. SeamLongEnough(Y(i), Y(i + 1))
      BY <1>4, <1>5, <1>7 DEF SeamsLongEnough
    <2>2. PICK y \in Centers(Y(i), Y(i + 1)) : TRUE
      BY <1>6, <2>1, CentersFit
    <2>3. [male |-> <<i, j>>, female |-> <<i, j + 1>>, seam |-> X(j + 1), center |-> y]
              \in PlannedConnectors
      BY <1>3, <1>7, <2>2, PlannedInRow
    <2> QED
      BY <1>1, <1>7, <2>3
  <1>8. CASE pair[2] = <<i + 1, j>> /\ i + 1 \in 0..TileRows(chosen) - 1
    <2>1. pair[2] # East(pair[1])
      BY <1>3, <1>5, <1>8
    <2>2. SeamLongEnough(X(j), X(j + 1))
      BY <1>4, <2>1 DEF SeamsLongEnough
    <2>3. PICK x \in Centers(X(j), X(j + 1)) : TRUE
      BY <1>6, <2>2, CentersFit
    <2>4. [male |-> <<i, j>>, female |-> <<i + 1, j>>, seam |-> Y(i + 1), center |-> x]
              \in PlannedConnectors
      BY <1>3, <1>8, <2>3, PlannedInColumn
    <2> QED
      BY <1>1, <1>8, <2>4
  <1> QED
    BY <1>1, <1>7, <1>8

\* A male enters its female tile and no other.
LEMMA MaleEnters ==
    ASSUME GoodPlan, NEW c \in PlannedConnectors
    PROVE  /\ Inside(Male(c), TileBox(c.female))
           /\ \A t \in TilesOf(chosen) :
                 t # c.male /\ Meets(Male(c), TileBox(t)) => t = c.female
  <1>1. PICK i, j \in Nat : InRow(c, i, j) \/ InColumn(c, i, j)
    BY PlannedShape DEF GoodPlan
  <1> QED
    BY <1>1, RowEnters, ColumnEnters

\* The tiles of a dovetail are tiles of the plan.
LEMMA ConnectorTypes ==
    ASSUME chosen \in TilePlans, SeamsLongEnough, NEW c \in PlannedConnectors
    PROVE  {c.male, c.female} \subseteq TilesOf(chosen) /\ c.seam \in Nat
  <1>1. PICK i, j \in Nat : InRow(c, i, j) \/ InColumn(c, i, j)
    BY PlannedShape
  <1>2. TileRows(chosen) \in Nat \ {0} /\ TileColumns(chosen) \in Nat \ {0}
    BY Layout
  <1>3. CASE InRow(c, i, j)
    <2>1. c.male = <<i, j>> /\ c.female = <<i, j + 1>> /\ c.seam = X(j + 1)
      BY <1>3 DEF InRow
    <2>2. i < TileRows(chosen) /\ j + 1 < TileColumns(chosen) /\ X(j + 1) \in Nat
      BY <1>3, RowLines
    <2> QED
      BY <1>2, <2>1, <2>2 DEF TilesOf
  <1>4. CASE InColumn(c, i, j)
    <2>1. c.male = <<i, j>> /\ c.female = <<i + 1, j>> /\ c.seam = Y(i + 1)
      BY <1>4 DEF InColumn
    <2>2. j < TileColumns(chosen) /\ i + 1 < TileRows(chosen) /\ Y(i + 1) \in Nat
      BY <1>4, ColumnLines
    <2> QED
      BY <1>2, <2>1, <2>2 DEF TilesOf
  <1> QED
    BY <1>1, <1>3, <1>4

\* What the invariant says of a published plan is what is promised of it.
LEMMA PrintInvMeansFit == ASSUME PrintInv PROVE PrintTypeOK /\ TilesFitTogether
  <1>1. chosen \in TilePlans
    BY DEF PrintInv, TilingInv, BundleShape
  <1>2. PrintTypeOK
    <2>1. TilingTypeOK
      BY InvMeansTerrain DEF PrintInv
    <2>2. ASSUME NEW c \in connectors
          PROVE  {c.male, c.female} \subseteq TilesOf(chosen) /\ c.seam \in Nat
      BY <1>1, ConnectorTypes DEF PrintInv, PrintShape
    <2> QED
      BY <2>1, <2>2 DEF PrintTypeOK, PrintInv, PrintShape
  <1>3. ASSUME ppc = "published"
        PROVE  /\ GoodPlan /\ connectors = PlannedConnectors
               /\ FitsBuildVolume(connectors)
               /\ Printer.base - MaleHeight(Printer) - Clearance(Printer) >= Wall(Printer)
    <2>1. /\ connectors = PlannedConnectors /\ SeamsLongEnough /\ PolicyExists(Printer)
          /\ PrintTilesPass(connectors)
      BY <1>3 DEF PrintInv, PrintShape
    <2>2. PolicyFacts(Printer)
      BY <1>1, <2>1, PolicyOfPrinter
    <2> QED
      BY <1>1, <2>1, <2>2 DEF GoodPlan, PrintTilesPass, PolicyFacts
  <1>4. TilesFitTogether
    <2> SUFFICES ASSUME ppc = "published"
        PROVE  /\ \A pair \in Neighbours(chosen) :
                     \E c \in connectors : c.male = pair[1] /\ c.female = pair[2]
               /\ \A c \in connectors, t \in TilesOf(chosen) :
                     t # c.male /\ Meets(Male(c), TileBox(t)) => t = c.female
               /\ \A c \in connectors : Inside(Male(c), TileBox(c.female)) /\ Inside(Male(c), Cavity(c))
               /\ \A c, d \in connectors :
                     c # d => ~Meets(Male(c), Male(d)) /\ ~Meets(Cavity(c), Cavity(d))
      BY <1>3 DEF TilesFitTogether
    <2>1. GoodPlan /\ connectors = PlannedConnectors
      BY <1>3
    <2> QED
      BY <2>1, SeamsConnected, MaleEnters, MaleInCavity, ConnectorsApart DEF GoodPlan
  <1> QED
    BY <1>2, <1>4

\* The plan is a function of the configuration.
LEMMA PlanOfConfiguration ==
    ASSUME chosen' = chosen
    PROVE  /\ PlannedConnectors' = PlannedConnectors
           /\ SeamsLongEnough' <=> SeamsLongEnough
           /\ PolicyExists(Printer)' <=> PolicyExists(Printer)
           /\ connectors' = connectors => (PrintTilesPass(connectors)' <=> PrintTilesPass(connectors))
  <1>1. Printer' = Printer
    BY DEF Printer
  <1>2. \A t : TileBox(t)' = TileBox(t)
    BY DEF TileBox, XOf, YOf
  <1>3. \A a, b : Centers(a, b)' = Centers(a, b)
    BY <1>1 DEF Centers
  <1>4. PlannedConnectors' = PlannedConnectors
    BY <1>2, <1>3 DEF PlannedConnectors
  <1>5. SeamsLongEnough' <=> SeamsLongEnough
    BY <1>1, <1>2 DEF SeamsLongEnough, SeamLongEnough
  <1>6. \A c : Male(c)' = Male(c) /\ Cavity(c)' = Cavity(c)
    BY <1>1 DEF Male, Cavity
  <1>7. ASSUME connectors' = connectors
        PROVE  PrintTilesPass(connectors)' <=> PrintTilesPass(connectors)
    <2>1. FitPasses(connectors)' <=> FitPasses(connectors)
      BY <1>6, <1>7 DEF FitPasses
    <2>2. OneComponent(connectors)' <=> OneComponent(connectors)
      BY <1>6, <1>7 DEF OneComponent
    <2>3. BoundsMatch(connectors)' <=> BoundsMatch(connectors)
      BY <1>6, <1>7 DEF BoundsMatch
    <2>4. FitsBuildVolume(connectors)' <=> FitsBuildVolume(connectors)
      BY <1>1, <1>2, <1>6, <1>7 DEF FitsBuildVolume
    <2> QED
      BY <2>1, <2>2, <2>3, <2>4 DEF PrintTilesPass
  <1> QED
    BY <1>1, <1>4, <1>5, <1>7

\* Only tile-connect plans dovetails, and no other command changes their tiles.
LEMMA PrintStep == PrintInv /\ [PrintNext]_<<tilingVars, printVars>> => PrintInv'
  <1> SUFFICES ASSUME PrintInv, [PrintNext]_<<tilingVars, printVars>> PROVE PrintInv'
    OBVIOUS
  <1>1. [TilingNext]_tilingVars
    BY DEF PrintNext, PlanConnectors, PublishPrintTiles, printVars
  <1>2. TilingInv'
    BY <1>1, TilingStep DEF PrintInv
  <1>3. chosen' = chosen
    BY <1>1 DEF TilingNext, tilingVars, EditRaster, RebuildBundle, RecordSlicing, DamageTile,
       VerifyBundle, OpenRaster, ExtractOne, MeasureSeams, ReverifyBundle, PublishTiles,
       VerifyTileSet, MeshTile, PublishMeshes
  <1>4. /\ PlannedConnectors' = PlannedConnectors
        /\ SeamsLongEnough' <=> SeamsLongEnough
        /\ PolicyExists(Printer)' <=> PolicyExists(Printer)
        /\ connectors' = connectors => (PrintTilesPass(connectors)' <=> PrintTilesPass(connectors))
    BY <1>3, PlanOfConfiguration
  <1>5. ASSUME UNCHANGED printVars PROVE PrintShape'
    BY <1>4, <1>5 DEF PrintInv, PrintShape, printVars
  <1>6. ASSUME PlanConnectors PROVE PrintShape'
    BY <1>4, <1>6 DEF PrintInv, PrintShape, PlanConnectors
  <1>7. ASSUME PublishPrintTiles PROVE PrintShape'
    BY <1>4, <1>7 DEF PrintInv, PrintShape, PublishPrintTiles
  <1>8. PrintShape'
    BY <1>5, <1>6, <1>7 DEF PrintNext, PrintInv
  <1> QED
    BY <1>2, <1>8 DEF PrintInv

\* Whatever plan is chosen, and whatever is damaged meanwhile: print tiles that are
\* published go together. Every seam has a dovetail, a male enters no tile but its
\* own, none meets another, no two cavities run into each other, and every tile fits
\* the printer (derive_connector_policy, plan_connectors, _connector_centers,
\* _apply_connectors, verify_print_tile_set).
THEOREM TilesFitTogetherHolds == PrintSpec => [](PrintTypeOK /\ TilesFitTogether)
  <1>1. PrintInit => PrintInv
    BY TilingInitial DEF PrintInit, PrintInv, PrintShape
  <1>2. PrintInv => PrintTypeOK /\ TilesFitTogether
    BY PrintInvMeansFit
  <1> QED
    BY <1>1, <1>2, PrintStep, PTL DEF PrintSpec

\* Connecting the tiles changes none of them: what is published below stays the
\* terrain, whatever tile-connect does (generate_print_tile_set).
THEOREM PrintTilesKeepTheTerrain == PrintSpec => [](TilingTypeOK /\ TilesAreTheTerrain)
  <1>1. PrintInit => TilingInit
    BY DEF PrintInit
  <1>2. [PrintNext]_<<tilingVars, printVars>> => [TilingNext]_tilingVars
    BY DEF PrintNext, PlanConnectors, PublishPrintTiles
  <1> QED
    BY <1>1, <1>2, TilesAreTheTerrainHolds, PTL DEF PrintSpec, TilingSpec

===============================================================================
