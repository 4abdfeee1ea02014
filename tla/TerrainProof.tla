----------------------------- MODULE TerrainProof -----------------------------
(*****************************************************************************)
(* What the raster, scaling and mesh stages promise, for every value of the  *)
(* constants.                                                                *)
(*****************************************************************************)
EXTENDS TerrainGrid, FiniteSetTheorems, SequenceTheorems, NaturalsInduction,
        WellFoundedInduction, TLAPS

-----------------------------------------------------------------------------
(*****************************************************************************)
(* The vertical scale: what was scaled reaches no higher than the limit.     *)
(*****************************************************************************)

\* A clipped scale is a scale.
LEMMA ClippedScale ==
    ASSUME NEW n \in Nat, NEW d \in Nat \ {0}
    PROVE  Clip(<<n, d>>) \in Nat \X (Nat \ {0})
  <1>1. MinScale \in Nat /\ MaxScale \in Nat
    BY TerrainAssumption
  <1>2. Clip(<<n, d>>) \in {<<MinScale, 1>>, <<MaxScale, 1>>, <<n, d>>}
    BY DEF Clip
  <1>3. 1 \in Nat \ {0}
    OBVIOUS
  <1> QED
    BY <1>1, <1>2, <1>3

\* Every policy chooses a scale.
LEMMA PolicyIsAScale ==
    ASSUME NEW mode \in {"natural", "custom", "fit", "auto"}, NEW custom \in {1, MaxScale},
           NEW robust \in Nat
    PROVE  PolicyScale(mode, custom, robust) \in Nat \X (Nat \ {0})
  <1>1. HeightBudget \in Nat /\ MaxScale \in Nat /\ Visible \in Nat /\ custom \in Nat /\ 1 \in Nat \ {0}
    BY TerrainAssumption DEF HeightBudget
  <1>2. CASE mode = "natural"
    <2>1. PolicyScale(mode, custom, robust) = Clip(<<1, 1>>)
      BY <1>2 DEF PolicyScale
    <2> QED
      BY <2>1, ClippedScale
  <1>3. CASE mode = "custom"
    <2>1. PolicyScale(mode, custom, robust) = Clip(<<custom, 1>>)
      BY <1>3 DEF PolicyScale
    <2> QED
      BY <2>1, <1>1, ClippedScale
  <1>4. CASE mode = "fit"
    <2>1. PolicyScale(mode, custom, robust)
            = IF robust = 0 THEN <<MaxScale, 1>> ELSE Clip(<<HeightBudget, robust>>)
      BY <1>4 DEF PolicyScale
    <2>2. robust # 0 => Clip(<<HeightBudget, robust>>) \in Nat \X (Nat \ {0})
      BY <1>1, ClippedScale
    <2> QED
      BY <2>1, <2>2, <1>1
  <1>5. CASE mode = "auto"
    <2> DEFINE wanted == AtMost(HeightBudget, AtLeast(Visible, robust))
    <2>1. PolicyScale(mode, custom, robust)
            = IF robust = 0 THEN <<MaxScale, 1>> ELSE Clip(<<wanted, robust>>)
      BY <1>5 DEF PolicyScale
    <2>2. wanted \in Nat
      BY <1>1 DEF AtMost, AtLeast
    <2> HIDE DEF wanted
    <2>3. robust # 0 => Clip(<<wanted, robust>>) \in Nat \X (Nat \ {0})
      BY <2>2, ClippedScale
    <2> QED
      BY <2>1, <2>3, <1>1
  <1> QED
    BY <1>2, <1>3, <1>4, <1>5

\* What a product with the rise keeps below the limit.
LEMMA Reaches ==
    ASSUME NEW b \in Nat, NEW l \in Nat, b < l, NEW n \in Nat, NEW d \in Nat \ {0}, NEW rise \in Int,
           rise <= 0 \/ n * rise <= (l - b) * d
    PROVE  b * d + rise * n <= l * d
  <1>1. (l - b) * d = l * d - b * d /\ l * d \in Int /\ b * d \in Int /\ n * rise = rise * n
        /\ n * rise \in Int
    OBVIOUS
  <1>2. (l - b) * d >= 0
    <2>1. ASSUME NEW x \in Nat, NEW y \in Nat PROVE x * y >= 0
      OBVIOUS
    <2>2. l - b \in Nat /\ d \in Nat
      OBVIOUS
    <2> QED
      BY <2>1, <2>2
  <1>3. rise <= 0 => n * rise <= 0
    <2>1. ASSUME NEW x \in Nat, NEW y \in Nat PROVE x * y >= 0
      OBVIOUS
    <2>2. ASSUME rise <= 0 PROVE n * rise <= 0
      <3>1. n * (-rise) >= 0
        BY <2>1, <2>2
      <3>2. n * (-rise) = -(n * rise)
        OBVIOUS
      <3> QED
        BY <3>1, <3>2, <1>1
    <2> QED
      BY <2>2
  <1> QED
    BY <1>1, <1>2, <1>3

\* A scale that was capped keeps the highest sample below the limit, and has none
\* if the base alone is above it.
LEMMA CappedFits ==
    ASSUME NEW mode \in {"natural", "custom", "fit", "auto"}, NEW n \in Nat, NEW d \in Nat \ {0},
           NEW high \in Int, NEW zero \in Int, NEW r,
           r.high = high, r.baseline = zero,
           r.scale = Capped(mode, <<n, d>>, high - zero), r.scale # Nothing
    PROVE  /\ ModelHeight(r, high) \in Int /\ HeightLimit * r.scale[2] \in Int
           /\ ModelHeight(r, high) <= HeightLimit * r.scale[2]
  <1> DEFINE rise == high - zero
  <1>1. Base \in Nat /\ HeightLimit \in Nat /\ Base < HeightLimit /\ HeightBudget = HeightLimit - Base
    BY TerrainAssumption DEF HeightBudget
  <1>2. ModelHeight(r, high) = Base * r.scale[2] + rise * r.scale[1]
    BY DEF ModelHeight
  <1>3. rise \in Int
    OBVIOUS
  <1>4. r.scale = Capped(mode, <<n, d>>, rise)
    OBVIOUS
  <1> HIDE DEF rise
  <1>5. CASE rise <= 0 \/ n * rise <= HeightBudget * d
    <2>1. r.scale = <<n, d>>
      BY <1>4, <1>5 DEF Capped
    <2>2. Base * d + rise * n <= HeightLimit * d
      BY <1>1, <1>3, <1>5, Reaches
    <2> QED
      BY <1>1, <1>2, <1>3, <2>1, <2>2
  <1>6. CASE ~(rise <= 0 \/ n * rise <= HeightBudget * d)
    <2>1. r.scale = <<HeightBudget, rise>>
      BY <1>4, <1>6 DEF Capped
    <2>2. HeightBudget \in Nat /\ rise \in Nat \ {0}
      BY <1>1, <1>3, <1>6
    <2>3. HeightBudget * rise <= (HeightLimit - Base) * rise
      BY <1>1, <2>2
    <2>4. Base * rise + rise * HeightBudget <= HeightLimit * rise
      BY <1>1, <2>2, <2>3, Reaches
    <2> QED
      BY <1>1, <1>2, <2>1, <2>2, <2>4
  <1> QED
    BY <1>5, <1>6

\* The inductive invariant of the vertical scale: what was scaled reaches no
\* higher than the limit.
ScaleInv ==
    /\ gpc # "too_high"
    /\ gpc = "scaled" => ModelHeight(relief, relief.high) <= HeightLimit * relief.scale[2]

\* The resolution of the scale publishes a relief only below the limit ...
LEMMA ResolveScalingKeeps == ASSUME ScaleInv, ResolveScaling PROVE ScaleInv'
  <1>1. PICK low \in Elevations, high \in Elevations, robust \in Elevations, zero \in Elevations \cup {0},
          mode \in {"natural", "custom", "fit", "auto"}, custom \in {1, MaxScale}, fits \in BOOLEAN :
          /\ low <= robust /\ robust <= high
          /\ mode # "custom" => custom = 1
          /\ LET policy == PolicyScale(mode, custom, robust - low)
                 scale  == Capped(mode, policy, high - zero)
                 r      == [low |-> low, high |-> high, baseline |-> zero, scale |-> scale]
             IN IF ~fits \/ scale = Nothing THEN Refuse
                ELSE IF ModelHeight(r, low) < MinBase * scale[2] THEN Refuse
                ELSE IF ModelHeight(r, high) > HeightLimit * scale[2] THEN End("too_high")
                ELSE gpc' = "scaled" /\ relief' = r /\ UNCHANGED <<area, cover, grid, budget, target>>
    BY DEF ResolveScaling
  <1> DEFINE policy == PolicyScale(mode, custom, robust - low)
             scale == Capped(mode, policy, high - zero)
             r == [low |-> low, high |-> high, baseline |-> zero, scale |-> scale]
  <1>2. low \in Int /\ high \in Int /\ robust \in Int /\ zero \in Int /\ robust - low \in Nat
    BY <1>1, TerrainAssumption
  <1>3. policy \in Nat \X (Nat \ {0})
    BY <1>2, PolicyIsAScale
  <1>8. IF ~fits \/ scale = Nothing THEN Refuse
        ELSE IF ModelHeight(r, low) < MinBase * scale[2] THEN Refuse
        ELSE IF ModelHeight(r, high) > HeightLimit * scale[2] THEN End("too_high")
        ELSE gpc' = "scaled" /\ relief' = r /\ UNCHANGED <<area, cover, grid, budget, target>>
    BY <1>1
  <1>10. mode \in {"natural", "custom", "fit", "auto"} /\ fits \in BOOLEAN
    BY <1>1
  <1> HIDE DEF policy
  <1>4. PICK n \in Nat, d \in Nat \ {0} : policy = <<n, d>>
    BY <1>3
  <1>5. r.high = high /\ r.baseline = zero /\ r.scale = scale
    OBVIOUS
  <1>9. scale = Capped(mode, policy, high - zero)
    OBVIOUS
  <1> HIDE DEF scale, r
  <1>6. CASE scale # Nothing
    <2>1. r.scale = Capped(mode, <<n, d>>, high - zero) /\ r.scale # Nothing
      BY <1>4, <1>5, <1>6, <1>9
    <2>2. /\ ModelHeight(r, high) \in Int /\ HeightLimit * r.scale[2] \in Int
          /\ ModelHeight(r, high) <= HeightLimit * r.scale[2]
      BY <1>2, <1>4, <1>5, <1>10, <2>1, CappedFits
    <2>3. ~(ModelHeight(r, high) > HeightLimit * scale[2])
      BY <1>5, <2>2
    <2>4. Refuse \/ (gpc' = "scaled" /\ relief' = r)
      BY <1>6, <1>8, <1>10, <2>3
    <2>5. CASE Refuse
      BY <2>5 DEF Refuse, End, ScaleInv
    <2>6. CASE gpc' = "scaled" /\ relief' = r
      <3>1. ScaleInv' <=> ModelHeight(r, r.high) <= HeightLimit * r.scale[2]
        BY <2>6 DEF ScaleInv, ModelHeight
      <3> QED
        BY <1>5, <2>2, <3>1
    <2> QED
      BY <2>4, <2>5, <2>6
  <1>7. CASE scale = Nothing
    BY <1>7, <1>8 DEF Refuse, End, ScaleInv
  <1> QED
    BY <1>6, <1>7

\* ... and no other stage changes it.
LEMMA ScaleStep == ScaleInv /\ [TerrainNext]_terrainVars => ScaleInv'
  <1> SUFFICES ASSUME ScaleInv, [TerrainNext]_terrainVars PROVE ScaleInv'
    OBVIOUS
  <1>1. CASE SelectArea
    BY <1>1 DEF SelectArea, ScaleInv
  <1>2. CASE ReadRaster
    BY <1>2 DEF ReadRaster, Refuse, End, ScaleInv
  <1>3. CASE KeepMetricGrid
    BY <1>3 DEF KeepMetricGrid, ScaleInv
  <1>4. CASE Reproject
    BY <1>4 DEF Reproject, ScaleInv
  <1>5. CASE CropToSourceCoverage
    BY <1>5 DEF CropToSourceCoverage, Refuse, End, ScaleInv
  <1>6. CASE FillSmallNodata
    BY <1>6 DEF FillSmallNodata, Refuse, End, ScaleInv
  <1>7. CASE SampleGrid
    BY <1>7 DEF SampleGrid, Refuse, End, ScaleInv
  <1>8. CASE Preflight
    BY <1>8 DEF Preflight, Refuse, End, ScaleInv
  <1>9. CASE BuildMesh
    BY <1>9 DEF BuildMesh, ScaleInv
  <1>10. CASE VerifyMask
    BY <1>10 DEF VerifyMask, End, ScaleInv
  <1>11. CASE UNCHANGED terrainVars
    BY <1>11 DEF terrainVars, ScaleInv, ModelHeight
  <1> QED
    BY <1>1, <1>2, <1>3, <1>4, <1>5, <1>6, <1>7, <1>8, <1>9, <1>10, <1>11, ResolveScalingKeeps
       DEF TerrainNext

-----------------------------------------------------------------------------
(*****************************************************************************)
(* The largest covered rectangle.                                            *)
(*                                                                           *)
(* A row is scanned with a stack of the columns whose rectangle can still be *)
(* continued to the right. After each column the stack holds an entry for    *)
(* every such rectangle (StackHolds), and the best rectangle is no smaller   *)
(* than any that has ended (BestHolds); every covered rectangle ends at some *)
(* row and some column, the sentinel behind the last one if no other.        *)
(*****************************************************************************)

\* The order of the naturals as a relation.
LessThan == OpToRel(<, Nat)

\* A set of naturals that is not empty has a least element.
LEMMA Least ==
    ASSUME NEW T, T \subseteq Nat, T # {}
    PROVE  \E x \in T : \A y \in T : x <= y
  <1>1. IsWellFoundedOn(LessThan, Nat)
    BY NatLessThanWellFounded DEF LessThan
  <1>2. PICK x \in T : \A y \in T : ~(<<y, x>> \in LessThan)
    BY <1>1, WFMin
  <1>3. ASSUME NEW y \in T PROVE x <= y
    <2>1. x \in Nat /\ y \in Nat /\ ~(<<y, x>> \in LessThan)
      BY <1>2
    <2>2. y < x => <<y, x>> \in LessThan
      BY <2>1 DEF LessThan, OpToRel
    <2> QED
      BY <2>1, <2>2
  <1> QED
    BY <1>3

\* A bounded set of naturals that is not empty has a greatest element, and Max is it.
LEMMA Greatest ==
    ASSUME NEW n \in Nat, NEW T, T \subseteq 0..n, T # {}
    PROVE  Max(T) \in T /\ \A y \in T : y <= Max(T)
  <1> DEFINE U == {m \in 0..n : n - m \in T}
  <1>1. U \subseteq Nat /\ U # {}
    <2>1. PICK t \in T : TRUE
      OBVIOUS
    <2>2. n - t \in 0..n /\ n - (n - t) = t
      BY <2>1
    <2> QED
      BY <2>1, <2>2
  <1>2. PICK m \in U : \A y \in U : m <= y
    BY <1>1, Least
  <1>3. n - m \in T
    BY <1>2
  <1>4. ASSUME NEW y \in T PROVE n - m >= y
    <2>1. y \in 0..n /\ n - y \in 0..n /\ n - (n - y) = y
      OBVIOUS
    <2>2. m <= n - y
      BY <1>2, <2>1
    <2> QED
      BY <1>2, <2>1, <2>2
  <1>5. \E x \in T : \A y \in T : x >= y
    BY <1>3, <1>4
  <1>6. Max(T) \in T /\ \A y \in T : Max(T) >= y
    BY <1>5 DEF Max
  <1>7. \A y \in T : y \in Int
    OBVIOUS
  <1> QED
    BY <1>6, <1>7

\* What holds at 0 and passes from each number to the next holds up to n.
LEMMA UpTo ==
    ASSUME NEW n \in Nat, NEW T, 0 \in T, \A k \in 1..n : k - 1 \in T => k \in T
    PROVE  \A k \in 0..n : k \in T
  <1> DEFINE U == {k \in 0..n : k \notin T}
  <1>1. ASSUME U # {} PROVE FALSE
    <2>4. U \subseteq Nat
      OBVIOUS
    <2>1. PICK k \in U : \A y \in U : k <= y
      BY <1>1, <2>4, Least
    <2>2. k \in 1..n /\ k - 1 \in 0..n /\ ~(k <= k - 1)
      BY <2>1
    <2>3. k - 1 \in T
      BY <2>1, <2>2
    <2> QED
      BY <2>1, <2>2, <2>3
  <1> QED
    BY <1>1

\* f is what n steps of G make of base.
Follows(n, base, G, f) == f[0] = base /\ \A k \in 1..n : f[k] = G[k][f[k - 1]]

\* Every sequence of steps can be followed from any base: that of the recursive
\* functions of the model, which are defined by CHOOSE.
LEMMA StepsExist ==
    ASSUME NEW n \in Nat, NEW T, NEW base \in T, NEW G \in [1..n -> [T -> T]]
    PROVE  \E f \in [0..n -> T] : Follows(n, base, G, f)
  <1> DEFINE Good(m, f) == f[0] = base /\ \A k \in 1..m : f[k] = G[k][f[k - 1]]
             U == {m \in 0..n : \E f \in [0..m -> T] : Good(m, f)}
  <1>1. 0 \in U
    <2> DEFINE g == [k \in 0..0 |-> base]
    <2>1. g \in [0..0 -> T] /\ g[0] = base
      OBVIOUS
    <2>2. \A k \in 1..0 : FALSE
      OBVIOUS
    <2> HIDE DEF g
    <2>3. Good(0, g)
      BY <2>1, <2>2
    <2>4. 0 \in 0..n
      OBVIOUS
    <2> QED
      BY <2>1, <2>3, <2>4
  <1>2. ASSUME NEW m \in 1..n, m - 1 \in U PROVE m \in U
    <2>1. PICK f \in [0..m - 1 -> T] : Good(m - 1, f)
      BY <1>2
    <2>2. m - 1 \in 0..m - 1 /\ f[m - 1] \in T
      OBVIOUS
    <2> DEFINE v == G[m][f[m - 1]]
               g == [k \in 0..m |-> IF k = m THEN v ELSE f[k]]
    <2>3. v \in T
      BY <2>2
    <2> HIDE DEF v
    <2>4. g \in [0..m -> T]
      BY <2>3
    <2>5. g[m] = v /\ \A k \in 0..m - 1 : g[k] = f[k]
      OBVIOUS
    <2>6. g[0] = base
      BY <2>1, <2>5
    <2>7. ASSUME NEW k \in 1..m PROVE g[k] = G[k][g[k - 1]]
      <3>1. CASE k = m
        BY <3>1, <2>5, <2>2 DEF v
      <3>2. CASE k # m
        <4>1. k \in 1..m - 1 /\ k - 1 \in 0..m - 1 /\ k \in 0..m - 1
          BY <3>2
        <4> QED
          BY <4>1, <2>1, <2>5
      <3> QED
        BY <3>1, <3>2
    <2>8. m \in 0..n
      OBVIOUS
    <2> QED
      BY <2>4, <2>6, <2>7, <2>8
  <1> HIDE DEF U
  <1>3. \A k \in 0..n : k \in U
    BY <1>1, <1>2, UpTo
  <1>4. n \in U
    BY <1>3
  <1> QED
    BY <1>4 DEF U, Follows

\* A raster and what is covered of it.
Covering(c) ==
    c.rows \in Nat /\ c.columns \in Nat /\ c.covered \subseteq Cells(c.rows, c.columns)

\* How the heights of a row come from those of the row above.
LEMMA Heights ==
    ASSUME NEW c, Covering(c)
    PROVE  \A r \in 0..c.rows, k \in 0..c.columns :
              /\ HeightsAbove(c)[r][k] \in Nat
              /\ HeightsAbove(c)[r][k] = IF r = 0 \/ <<r - 1, k>> \notin c.covered
                                         THEN 0 ELSE HeightsAbove(c)[r - 1][k] + 1
  <1> DEFINE n == c.rows
             T == [0..c.columns -> Nat]
             Next1(r, f) == [k \in 0..c.columns |->
                                IF r = 0 \/ <<r - 1, k>> \notin c.covered THEN 0 ELSE f[k] + 1]
             Eq(f) == f = [r \in 0..c.rows |-> [k \in 0..c.columns |->
                              IF r = 0 \/ <<r - 1, k>> \notin c.covered THEN 0 ELSE f[r - 1][k] + 1]]
             base == [k \in 0..c.columns |-> 0]
             G == [r \in 1..n |-> [f \in T |-> Next1(r, f)]]
  <1>1. n \in Nat /\ base \in T
    BY DEF Covering
  <1>2. G \in [1..n -> [T -> T]]
    <2>1. ASSUME NEW r \in 1..n, NEW f \in T PROVE Next1(r, f) \in T
      <3>1. ASSUME NEW k \in 0..c.columns
            PROVE  (IF r = 0 \/ <<r - 1, k>> \notin c.covered THEN 0 ELSE f[k] + 1) \in Nat
        <4>1. f[k] \in Nat
          OBVIOUS
        <4> QED
          BY <4>1
      <3> QED
        BY <3>1
    <2> HIDE DEF T, Next1
    <2> QED
      BY <2>1
  <1> HIDE DEF T, G, base, n
  <1>14. \E f \in [0..n -> T] : Follows(n, base, G, f)
    BY <1>1, <1>2, StepsExist
  <1> USE DEF n
  <1>3. PICK f \in [0..n -> T] : f[0] = base /\ \A k \in 1..n : f[k] = G[k][f[k - 1]]
    BY <1>14 DEF Follows
  <1> USE DEF T, G, base
  <1>4. \A r \in 1..n : f[r - 1] \in T /\ G[r][f[r - 1]] = Next1(r, f[r - 1])
    <2> SUFFICES ASSUME NEW r \in 1..n PROVE f[r - 1] \in T /\ G[r][f[r - 1]] = Next1(r, f[r - 1])
      OBVIOUS
    <2>1. r - 1 \in 0..n
      BY <1>1
    <2>2. f[r - 1] \in T
      BY <2>1, <1>3
    <2> HIDE DEF T
    <2> QED
      BY <2>2
  <1>5. Eq(f)
    <2> DEFINE F(r) == [k \in 0..c.columns |->
                              IF r = 0 \/ <<r - 1, k>> \notin c.covered THEN 0 ELSE f[r - 1][k] + 1]
    <2>1. ASSUME NEW r \in 0..n PROVE f[r] = F(r)
      <3>1. CASE r = 0
        BY <1>3, <3>1
      <3>2. CASE r # 0
        <4>1. r \in 1..n
          BY <3>2, <1>1
        <4>2. f[r] = Next1(r, f[r - 1])
          BY <4>1, <1>3, <1>4
        <4> QED
          BY <4>2
      <3> QED
        BY <3>1, <3>2
    <2>2. f = [r \in 0..n |-> f[r]]
      BY <1>3
    <2> HIDE DEF F
    <2>3. f = [r \in 0..n |-> F(r)]
      BY <2>1, <2>2
    <2> QED
      BY <2>3 DEF F
  <1>6. HeightsAbove(c) = CHOOSE g : Eq(g)
    BY DEF HeightsAbove
  <1>7. Eq(HeightsAbove(c))
    <2> HIDE DEF Eq
    <2> QED
      BY <1>5, <1>6
  <1> DEFINE h == HeightsAbove(c)
  <1>8. h = [r \in 0..c.rows |-> [k \in 0..c.columns |->
                 IF r = 0 \/ <<r - 1, k>> \notin c.covered THEN 0 ELSE h[r - 1][k] + 1]]
    BY <1>7
  <1> HIDE DEF h, Eq
  <1>9. \A r \in 0..n, k \in 0..c.columns :
           h[r][k] = IF r = 0 \/ <<r - 1, k>> \notin c.covered THEN 0 ELSE h[r - 1][k] + 1
    <2> SUFFICES ASSUME NEW r \in 0..n, NEW k \in 0..c.columns
                 PROVE  h[r][k] = IF r = 0 \/ <<r - 1, k>> \notin c.covered THEN 0 ELSE h[r - 1][k] + 1
      OBVIOUS
    <2> DEFINE row == [j \in 0..c.columns |->
                 IF r = 0 \/ <<r - 1, j>> \notin c.covered THEN 0 ELSE h[r - 1][j] + 1]
    <2>1. h[r] = row
      BY <1>8
    <2>2. row[k] = IF r = 0 \/ <<r - 1, k>> \notin c.covered THEN 0 ELSE h[r - 1][k] + 1
      OBVIOUS
    <2> QED
      BY <2>1, <2>2
  <1> DEFINE S == {r \in 0..n : \A k \in 0..c.columns : h[r][k] \in Nat}
  <1>10. 0 \in S
    <2>1. 0 \in 0..n
      BY <1>1
    <2>2. \A k \in 0..c.columns : h[0][k] = 0
      BY <2>1, <1>9
    <2> QED
      BY <2>1, <2>2
  <1>11. ASSUME NEW r \in 1..n, r - 1 \in S PROVE r \in S
    <2>1. r \in 0..n /\ \A k \in 0..c.columns : h[r - 1][k] \in Nat
      BY <1>11, <1>1
    <2>2. ASSUME NEW k \in 0..c.columns PROVE h[r][k] \in Nat
      <3>1. h[r][k] = 0 \/ h[r][k] = h[r - 1][k] + 1
        BY <2>1, <1>9
      <3> QED
        BY <2>1, <3>1
    <2> QED
      BY <2>1, <2>2
  <1>12. \A r \in 0..n : r \in S
    <2> HIDE DEF S
    <2> QED
      BY <1>1, <1>10, <1>11, UpTo
  <1> QED
    BY <1>9, <1>12 DEF h

\* A height is that of the covered column above: it counts the covered cells.
LEMMA ColumnRuns ==
    ASSUME NEW c, Covering(c), NEW r \in 0..c.rows, NEW k \in 0..c.columns
    PROVE  /\ HeightsAbove(c)[r][k] <= r
           /\ \A i \in 0..r - 1 :
                 (\A j \in i..r - 1 : <<j, k>> \in c.covered) <=> r - i <= HeightsAbove(c)[r][k]
  <1> DEFINE n == c.rows
             h == HeightsAbove(c)
             P(m) == /\ h[m][k] <= m
                     /\ \A i \in 0..m - 1 :
                           (\A j \in i..m - 1 : <<j, k>> \in c.covered) <=> m - i <= h[m][k]
             S == {m \in 0..n : P(m)}
  <1>1. n \in Nat
    BY DEF Covering
  <1>2. \A m \in 0..n : /\ h[m][k] \in Nat
                        /\ h[m][k] = IF m = 0 \/ <<m - 1, k>> \notin c.covered THEN 0 ELSE h[m - 1][k] + 1
    BY Heights
  <1> HIDE DEF h
  <1>3. 0 \in S
    <2>1. 0 \in 0..n /\ \A i \in 0..0 - 1 : FALSE
      BY <1>1
    <2>2. h[0][k] = 0
      BY <2>1, <1>2
    <2> QED
      BY <2>1, <2>2
  <1>4. ASSUME NEW m \in 1..n, m - 1 \in S PROVE m \in S
    <2>1. P(m - 1) /\ m - 1 \in 0..n /\ m \in 0..n /\ m # 0
      BY <1>1, <1>4
    <2>2. h[m][k] \in Nat /\ h[m - 1][k] \in Nat
      BY <1>2, <2>1
    <2>3. CASE <<m - 1, k>> \notin c.covered
      <3>1. h[m][k] = 0
        BY <1>2, <2>1, <2>3
      <3>2. \A i \in 0..m - 1 : m - 1 \in i..m - 1 /\ ~(m - i <= 0)
        OBVIOUS
      <3> QED
        BY <3>1, <3>2, <2>1, <2>3
    <2>4. CASE <<m - 1, k>> \in c.covered
      <3>1. h[m][k] = h[m - 1][k] + 1
        BY <1>2, <2>1, <2>4
      <3>2. ASSUME NEW i \in 0..m - 1
            PROVE  (\A j \in i..m - 1 : <<j, k>> \in c.covered) <=> m - i <= h[m][k]
        <4>1. CASE i = m - 1
          <5>1. \A j \in i..m - 1 : j = m - 1
            BY <4>1
          <5> QED
            BY <5>1, <2>4, <4>1, <3>1, <2>2
        <4>2. CASE i # m - 1
          <5>1. i \in 0..(m - 1) - 1
            BY <4>2
          <5>2. (\A j \in i..(m - 1) - 1 : <<j, k>> \in c.covered) <=> (m - 1) - i <= h[m - 1][k]
            BY <5>1, <2>1
          <5>3. \A j : j \in i..m - 1 <=> j \in i..(m - 1) - 1 \/ j = m - 1
            BY <5>1
          <5>4. (m - 1) - i <= h[m - 1][k] <=> m - i <= h[m][k]
            BY <3>1, <2>2
          <5> QED
            BY <5>2, <5>3, <5>4, <2>4
        <4> QED
          BY <4>1, <4>2
      <3>3. h[m][k] <= m
        BY <3>1, <2>1, <2>2
      <3> QED
        BY <3>2, <3>3, <2>1
    <2> QED
      BY <2>3, <2>4
  <1>5. \A m \in 0..n : m \in S
    <2> HIDE DEF S
    <2> QED
      BY <1>1, <1>3, <1>4, UpTo
  <1> QED
    BY <1>5 DEF h

\* The entries of a stack, the rectangles, and what a scan keeps between columns.
StackEntries == [at : Nat, height : Nat]
Rectangles   == [top : Int, bottom : Int, left : Int, right : Int]
Scans        == [best : Rectangles, stack : Seq(StackEntries)]

\* Of finitely many areas one is the last of the largest.
LEMMA LastLargest ==
    ASSUME NEW m \in Nat, NEW a \in 0..m, NEW v \in [1..m -> Int], a < m
    PROVE  \E i \in a + 1..m : \A j \in a + 1..m : v[j] < v[i] \/ (v[j] = v[i] /\ j <= i)
  <1> DEFINE Top(i, n) == \A j \in a + 1..n : v[j] < v[i] \/ (v[j] = v[i] /\ j <= i)
             S == {n \in 0..m : a < n => \E i \in a + 1..n : Top(i, n)}
  <1>1. 0 \in S
    OBVIOUS
  <1>2. ASSUME NEW n \in 1..m, n - 1 \in S PROVE n \in S
    <2>1. n \in 0..m
      OBVIOUS
    <2>2. CASE n <= a
      BY <2>1, <2>2
    <2>3. CASE n = a + 1
      <3>1. n \in a + 1..n /\ \A j \in a + 1..n : j = n
        BY <2>3
      <3>2. Top(n, n)
        BY <3>1
      <3> QED
        BY <3>1, <3>2, <2>1
    <2>4. CASE n > a + 1
      <3>1. PICK i \in a + 1..n - 1 : Top(i, n - 1)
        BY <1>2, <2>4
      <3>2. n \in a + 1..n /\ i \in a + 1..n /\ i \in 1..m /\ n \in 1..m /\ v[i] \in Int /\ v[n] \in Int
        BY <2>4
      <3>3. \A j \in a + 1..n : j \in a + 1..n - 1 \/ j = n
        OBVIOUS
      <3>4. CASE v[n] < v[i]
        <4>1. Top(i, n)
          BY <3>1, <3>3, <3>4
        <4> QED
          BY <4>1, <3>2, <2>1
      <3>5. CASE ~(v[n] < v[i])
        <4>1. ASSUME NEW j \in a + 1..n PROVE v[j] < v[n] \/ (v[j] = v[n] /\ j <= n)
          <5>1. CASE j = n
            BY <5>1
          <5>2. CASE j \in a + 1..n - 1
            <6>1. v[j] \in Int /\ (v[j] < v[i] \/ v[j] = v[i])
              BY <5>2, <3>1
            <6> QED
              BY <6>1, <3>2, <3>5
          <5> QED
            BY <5>1, <5>2, <3>3
        <4> QED
          BY <4>1, <3>2, <2>1
      <3> QED
        BY <3>4, <3>5
    <2> QED
      BY <2>2, <2>3, <2>4
  <1> HIDE DEF S
  <1>3. \A n \in 0..m : n \in S
    BY <1>1, <1>2, UpTo
  <1>4. m \in S
    BY <1>3
  <1> QED
    BY <1>4 DEF S

\* What is left of a stack is what is not higher than the column; all above it is.
LEMMA KeptOf ==
    ASSUME NEW stack \in Seq(StackEntries), NEW height \in Nat
    PROVE  /\ Kept(stack, height) \in 0..Len(stack)
           /\ Kept(stack, height) # 0 => stack[Kept(stack, height)].height <= height
           /\ \A i \in Kept(stack, height) + 1..Len(stack) : stack[i].height > height
  <1> DEFINE m == Len(stack)
             T == {0} \cup {i \in DOMAIN stack : stack[i].height <= height}
  <1>1. m \in Nat /\ DOMAIN stack = 1..m
    OBVIOUS
  <1>2. T \subseteq 0..m /\ T # {}
    BY <1>1
  <1>3. Max(T) \in T /\ \A y \in T : y <= Max(T)
    <2> HIDE DEF T, m
    <2> QED
      BY <1>1, <1>2, Greatest
  <1>4. Kept(stack, height) = Max(T)
    BY DEF Kept
  <1>5. \A i \in 1..m : stack[i].height \in Nat
    <2>1. \A i \in 1..m : stack[i] \in StackEntries
      BY <1>1
    <2> QED
      BY <2>1 DEF StackEntries
  <1> DEFINE k == Max(T)
  <1> HIDE DEF k
  <1>6. k \in T /\ \A y \in T : y <= k
    BY <1>3 DEF k
  <1>7. ASSUME NEW i \in k + 1..m PROVE stack[i].height > height
    <2>1. k \in 0..m /\ i \in 1..m /\ ~(i <= k)
      BY <1>6, <1>2, <1>1
    <2>2. i \notin T
      BY <2>1, <1>6
    <2> QED
      BY <2>1, <2>2, <1>1, <1>5
  <1> QED
    BY <1>4, <1>6, <1>7, <1>2 DEF k

\* The rectangle that an entry of the stack ends as, and its area.
LEMMA EndedArea ==
    ASSUME NEW row \in Nat, NEW column \in Nat, NEW e \in StackEntries
    PROVE  /\ EndedBefore(row, column, e) \in Rectangles
           /\ RectangleArea(EndedBefore(row, column, e)) = e.height * (column - e.at)
           /\ RectangleArea(EndedBefore(row, column, e)) \in Int
  <1>1. e.height \in Nat /\ e.at \in Nat
    BY DEF StackEntries
  <1>2. (row + 1) - (row - e.height + 1) = e.height
    BY <1>1
  <1>3. RectangleArea(EndedBefore(row, column, e)) = ((row + 1) - (row - e.height + 1)) * (column - e.at)
    BY DEF RectangleArea, EndedBefore
  <1>4. e.height * (column - e.at) \in Int
    BY <1>1
  <1> QED
    BY <1>1, <1>2, <1>3, <1>4 DEF EndedBefore, Rectangles

\* An area is a number.
LEMMA AreaIsInt == ASSUME NEW b \in Rectangles PROVE RectangleArea(b) \in Int
BY DEF Rectangles, RectangleArea

\* The best rectangle after a column is the old one or one that ended, and no
\* less than any of them.
LEMMA StackBest ==
    ASSUME NEW row \in Nat, NEW height \in Nat, NEW column \in Nat, NEW acc \in Scans
    PROVE  LET new == StackColumn(row, height, column, acc).best
               popped == Kept(acc.stack, height) + 1..Len(acc.stack)
               size(i) == RectangleArea(EndedBefore(row, column, acc.stack[i])) IN
           /\ new = acc.best \/ \E i \in popped : new = EndedBefore(row, column, acc.stack[i])
           /\ RectangleArea(acc.best) <= RectangleArea(new)
           /\ \A i \in popped : size(i) <= RectangleArea(new)
           /\ new \in Rectangles
  <1> DEFINE stack == acc.stack
             kept == Kept(stack, height)
             m == Len(stack)
             popped == kept + 1..m
             size(i) == RectangleArea(EndedBefore(row, column, stack[i]))
             largest == {i \in popped :
                            /\ size(i) > RectangleArea(acc.best)
                            /\ \A j \in popped : size(j) < size(i) \/ (size(j) = size(i) /\ j <= i)}
             new == StackColumn(row, height, column, acc).best
  <1>1. stack \in Seq(StackEntries) /\ acc.best \in Rectangles
    BY DEF Scans
  <1>2. new = IF largest = {} THEN acc.best ELSE EndedBefore(row, column, stack[CHOOSE i \in largest : TRUE])
    BY DEF StackColumn
  <1>3. m \in Nat /\ kept \in 0..m
    BY <1>1, KeptOf
  <1>4. \A i \in 1..m : stack[i] \in StackEntries
    BY <1>1
  <1>5. \A i \in 1..m : size(i) \in Int /\ EndedBefore(row, column, stack[i]) \in Rectangles
    BY <1>4, EndedArea
  <1>6. RectangleArea(acc.best) \in Int
    BY <1>1, AreaIsInt
  <1>7. popped \subseteq 1..m
    BY <1>3
  <1> HIDE DEF kept, m, size, new, stack
  <1>8. CASE largest = {}
    <2>1. new = acc.best
      BY <1>2, <1>8
    <2>2. ASSUME NEW i \in popped PROVE size(i) <= RectangleArea(acc.best)
      <3>1. kept < m
        BY <1>3, <2>2
      <3> DEFINE v == [j \in 1..m |-> size(j)]
      <3>2. v \in [1..m -> Int]
        BY <1>5
      <3> HIDE DEF v
      <3>3. PICK t \in popped : \A j \in popped : v[j] < v[t] \/ (v[j] = v[t] /\ j <= t)
        BY <3>1, <3>2, <1>3, LastLargest
      <3>4. \A j \in popped : v[j] = size(j)
        BY <1>7 DEF v
      <3>5. \A j \in popped : size(j) < size(t) \/ (size(j) = size(t) /\ j <= t)
        BY <3>3, <3>4
      <3>6. ~(size(t) > RectangleArea(acc.best))
        BY <3>3, <3>5, <1>8
      <3>7. size(i) \in Int /\ size(t) \in Int
        BY <1>5, <1>7, <3>3
      <3>8. size(i) <= size(t)
        BY <3>5, <3>7
      <3> QED
        BY <3>6, <3>7, <3>8, <1>6
    <2> QED
      BY <2>1, <2>2, <1>1, <1>6 DEF new, popped, kept, m, size, stack
  <1>9. CASE largest # {}
    <2> DEFINE t == CHOOSE i \in largest : TRUE
    <2>1. t \in largest
      BY <1>9
    <2>2. new = EndedBefore(row, column, stack[t])
      BY <1>2, <1>9
    <2> HIDE DEF t
    <2>3. t \in popped /\ size(t) > RectangleArea(acc.best)
          /\ \A j \in popped : size(j) < size(t) \/ (size(j) = size(t) /\ j <= t)
      BY <2>1
    <2>4. RectangleArea(new) = size(t)
      BY <2>2 DEF size
    <2>5. size(t) \in Int /\ \A j \in popped : size(j) \in Int
      BY <1>5, <1>7, <2>3
    <2>6. new \in Rectangles
      BY <1>5, <1>7, <2>2, <2>3
    <2>7. \A j \in popped : size(j) <= size(t)
      BY <2>3, <2>5
    <2>8. RectangleArea(acc.best) <= size(t)
      BY <2>3, <2>5, <1>6
    <2> QED
      BY <2>2, <2>3, <2>4, <2>6, <2>7, <2>8 DEF new, popped, kept, m, size, stack
  <1> QED
    BY <1>8, <1>9

\* What a column of a height makes of a stack of which kept entries are left.
Continues(old, new, height, column, kept) ==
    /\ new \in Seq(StackEntries)
    /\ \A i \in 1..kept : i \in 1..Len(new) /\ new[i] = old[i]
    /\ \/ Len(new) = kept /\ kept # 0 /\ old[kept].height = height
       \/ /\ Len(new) = kept + 1
          /\ new[kept + 1].height = height
          /\ new[kept + 1].at = IF kept = Len(old) THEN column ELSE old[kept + 1].at
          /\ kept # 0 => old[kept].height < height

\* The stack after a column: what is left of it, and the column's height from
\* where the first popped entry started.
LEMMA StackTop ==
    ASSUME NEW row \in Nat, NEW height \in Nat, NEW column \in Nat, NEW acc \in Scans
    PROVE  Continues(acc.stack, StackColumn(row, height, column, acc).stack, height, column,
                     Kept(acc.stack, height))
  <1> DEFINE old == acc.stack
             kept == Kept(old, height)
             m == Len(old)
             e == [at |-> StartOf(old, kept, column), height |-> height]
             new == StackColumn(row, height, column, acc).stack
  <1>1. old \in Seq(StackEntries)
    BY DEF Scans
  <1>2. m \in Nat /\ kept \in 0..m /\ (kept # 0 => old[kept].height <= height)
    BY <1>1, KeptOf
  <1>3. new = IF kept # 0 /\ old[kept].height = height THEN SubSeq(old, 1, kept)
              ELSE Append(SubSeq(old, 1, kept), e)
    BY DEF StackColumn
  <1>4. \A i \in 1..m : old[i] \in StackEntries
    BY <1>1
  <1>5. e \in StackEntries /\ e.height = height
        /\ e.at = IF kept = m THEN column ELSE old[kept + 1].at
    <2>1. kept # m => kept + 1 \in 1..m
      BY <1>2
    <2>2. kept # m => old[kept + 1].at \in Nat
      BY <2>1, <1>4 DEF StackEntries
    <2>3. StartOf(old, kept, column) = IF kept = m THEN column ELSE old[kept + 1].at
      BY DEF StartOf
    <2> HIDE DEF kept, m, old
    <2> QED
      BY <2>2, <2>3 DEF StackEntries
  <1>6. kept # 0 => old[kept].height \in Nat
    BY <1>2, <1>4 DEF StackEntries
  <1> HIDE DEF kept, old, e, new
  <1> DEFINE s == SubSeq(old, 1, kept)
  <1>7. s \in Seq(StackEntries) /\ Len(s) = kept /\ \A i \in 1..kept : s[i] = old[i]
    BY <1>1, <1>2
  <1> HIDE DEF s
  <1>8. CASE kept # 0 /\ old[kept].height = height
    <2> SUFFICES Continues(old, new, height, column, kept)
      BY DEF old, new, kept
    <2>1. new = s
      BY <1>3, <1>8 DEF s
    <2> QED
      BY <2>1, <1>7, <1>8 DEF Continues
  <1>9. CASE ~(kept # 0 /\ old[kept].height = height)
    <2> SUFFICES Continues(old, new, height, column, kept)
      BY DEF old, new, kept
    <2>1. new = Append(s, e)
      BY <1>3, <1>9 DEF s
    <2>2. new \in Seq(StackEntries) /\ Len(new) = kept + 1 /\ new[kept + 1] = e
          /\ \A i \in 1..kept : i \in 1..Len(new) /\ new[i] = old[i]
      BY <2>1, <1>5, <1>7, <1>2
    <2>3. kept # 0 => old[kept].height < height
      BY <1>2, <1>6, <1>9
    <2> QED
      BY <2>2, <2>3, <1>5 DEF Continues, m
  <1> QED
    BY <1>8, <1>9

\* A column makes of a scan a scan.
LEMMA StackType ==
    ASSUME NEW row \in Nat, NEW height \in Nat, NEW column \in Nat, NEW acc \in Scans
    PROVE  StackColumn(row, height, column, acc) \in Scans
  <1>1. StackColumn(row, height, column, acc).best \in Rectangles
    BY StackBest
  <1>2. StackColumn(row, height, column, acc).stack \in Seq(StackEntries)
    BY StackTop DEF Continues
  <1>3. StackColumn(row, height, column, acc)
          = [best |-> StackColumn(row, height, column, acc).best,
             stack |-> StackColumn(row, height, column, acc).stack]
    BY DEF StackColumn
  <1> HIDE DEF StackColumn
  <1> QED
    BY <1>1, <1>2, <1>3 DEF Scans

\* The columns from l up to q, without q, are as high as x.
AsHigh(h, l, q, x) == \A j \in l..q - 1 : h[j] >= x

\* The stack after the first k columns: what can still be continued to the right.
StackHolds(h, k, s) ==
    /\ \A i \in 1..Len(s) : s[i].at < k /\ AsHigh(h, s[i].at, k, s[i].height)
    /\ \A i, j \in 1..Len(s) : i < j => s[i].height <= s[j].height /\ s[i].at <= s[j].at
    /\ \A l \in 0..k - 1, x \in Nat \ {0} :
          AsHigh(h, l, k, x) => \E i \in 1..Len(s) : s[i].height >= x /\ s[i].at <= l

\* The best rectangle after the first k columns: no less than any that has ended.
BestHolds(h, row, k, first, best) ==
    /\ RectangleArea(first) <= RectangleArea(best)
    /\ \A l, q \in 0..k - 1, x \in Nat \ {0} :
          l < q /\ AsHigh(h, l, q, x) /\ h[q] < x => x * (q - l) <= RectangleArea(best)
    /\ \/ best = first
       \/ \E l, q \in 0..k - 1, x \in Nat \ {0} :
             /\ l < q /\ AsHigh(h, l, q, x)
             /\ best = [top |-> row - x + 1, bottom |-> row + 1, left |-> l, right |-> q]

\* A column keeps the stack: ascending, each entry high from its start up to here,
\* and none that could still be continued is forgotten.
LEMMA StackKeeps ==
    ASSUME NEW row \in Nat, NEW column \in Nat, NEW h, \A j \in 0..column : h[j] \in Nat,
           NEW acc \in Scans, StackHolds(h, column, acc.stack)
    PROVE  StackHolds(h, column + 1, StackColumn(row, h[column], column, acc).stack)
  <1> DEFINE height == h[column]
             new == StackColumn(row, height, column, acc).stack
             old == acc.stack
             kept == Kept(old, height)
             m == Len(old)
  <1>1. height \in Nat /\ column \in 0..column
    OBVIOUS
  <1>2. old \in Seq(StackEntries)
    BY DEF Scans
  <1>3. m \in Nat /\ \A i \in 1..m : old[i].at \in Nat /\ old[i].height \in Nat
    <2>1. \A i \in 1..m : old[i] \in StackEntries
      BY <1>2
    <2> QED
      BY <2>1, <1>2 DEF StackEntries
  <1>4. kept \in 0..m /\ (kept # 0 => old[kept].height <= height)
        /\ \A i \in kept + 1..m : old[i].height > height
    BY <1>1, <1>2, KeptOf
  <1>5. /\ new \in Seq(StackEntries)
        /\ \A i \in 1..kept : i \in 1..Len(new) /\ new[i] = old[i]
        /\ \/ Len(new) = kept /\ kept # 0 /\ old[kept].height = height
           \/ /\ Len(new) = kept + 1
              /\ new[kept + 1].height = height
              /\ new[kept + 1].at = IF kept = m THEN column ELSE old[kept + 1].at
              /\ kept # 0 => old[kept].height < height
    <2> HIDE DEF height
    <2>1. Continues(old, new, height, column, kept)
      BY <1>1, StackTop
    <2> HIDE DEF old, new, kept
    <2> QED
      BY <2>1 DEF Continues
  <1>6. /\ \A i \in 1..m : old[i].at < column /\ AsHigh(h, old[i].at, column, old[i].height)
        /\ \A i, j \in 1..m : i < j => old[i].height <= old[j].height /\ old[i].at <= old[j].at
        /\ \A l \in 0..column - 1, x \in Nat \ {0} :
              AsHigh(h, l, column, x) => \E i \in 1..m : old[i].height >= x /\ old[i].at <= l
    BY DEF StackHolds
  <1> HIDE DEF height, new, old, kept, m
  <1>13. \A i, j \in 1..m : i <= j => old[i].height <= old[j].height /\ old[i].at <= old[j].at
    <2> SUFFICES ASSUME NEW i \in 1..m, NEW j \in 1..m, i <= j
                 PROVE  old[i].height <= old[j].height /\ old[i].at <= old[j].at
      OBVIOUS
    <2>1. i < j \/ i = j
      BY <1>3
    <2> QED
      BY <2>1, <1>3, <1>6
  <1>7. \A i \in 1..kept : i \in 1..m /\ old[i].height <= height
    <2> SUFFICES ASSUME NEW i \in 1..kept PROVE i \in 1..m /\ old[i].height <= height
      OBVIOUS
    <2>1. i \in 1..m /\ kept \in 1..m /\ i <= kept /\ kept # 0
      BY <1>3, <1>4
    <2>2. old[i].height <= old[kept].height /\ old[kept].height <= height
      BY <2>1, <1>13, <1>4
    <2>3. old[i].height \in Nat /\ old[kept].height \in Nat
      BY <2>1, <1>3
    <2> QED
      BY <2>1, <2>2, <2>3, <1>1
  \* The new entry is as high as this column, and so are those from its start on.
  <1>8. ASSUME Len(new) = kept + 1
        PROVE  /\ new[kept + 1].at \in Nat /\ new[kept + 1].at < column + 1
               /\ AsHigh(h, new[kept + 1].at, column, height)
               /\ \A i \in 1..kept : old[i].at <= new[kept + 1].at
    <2>1. new[kept + 1].at = IF kept = m THEN column ELSE old[kept + 1].at
      BY <1>5, <1>8, <1>4
    <2>2. CASE kept = m
      BY <2>1, <2>2, <1>6, <1>7, <1>3 DEF AsHigh
    <2>3. CASE kept # m
      <3>1. kept + 1 \in 1..m /\ kept + 1 \in kept + 1..m
        BY <2>3, <1>4, <1>3
      <3>2. old[kept + 1].at \in Nat /\ old[kept + 1].at < column /\ old[kept + 1].height > height
            /\ AsHigh(h, old[kept + 1].at, column, old[kept + 1].height) /\ old[kept + 1].height \in Nat
        BY <3>1, <1>3, <1>4, <1>6
      <3>3. ASSUME NEW j \in old[kept + 1].at..column - 1 PROVE h[j] >= height
        <4>1. j \in 0..column /\ h[j] \in Nat /\ h[j] >= old[kept + 1].height
          BY <3>2 DEF AsHigh
        <4> QED
          BY <4>1, <3>2, <1>1
      <3>4. \A i \in 1..kept : old[i].at <= old[kept + 1].at
        BY <3>1, <1>7, <1>13, <1>4
      <3> QED
        BY <2>1, <2>3, <3>2, <3>3, <3>4 DEF AsHigh
    <2> QED
      BY <2>2, <2>3
  <1>9. ASSUME NEW i \in 1..Len(new) PROVE i \in 1..kept \/ (i = kept + 1 /\ Len(new) = kept + 1)
    BY <1>4, <1>5, <1>3
  <1>10. ASSUME NEW i \in 1..Len(new)
         PROVE  new[i].at < column + 1 /\ AsHigh(h, new[i].at, column + 1, new[i].height)
    <2>1. CASE i \in 1..kept
      <3>1. new[i] = old[i] /\ old[i].at \in Nat /\ old[i].at < column /\ old[i].height <= height
            /\ AsHigh(h, old[i].at, column, old[i].height)
        BY <2>1, <1>5, <1>6, <1>7, <1>3
      <3>2. \A j \in old[i].at..column + 1 - 1 : j \in old[i].at..column - 1 \/ j = column
        BY <3>1
      <3> QED
        BY <3>1, <3>2 DEF AsHigh, height
    <2>2. CASE i = kept + 1 /\ Len(new) = kept + 1
      <3>1. new[i].height = height /\ new[i].at \in Nat /\ new[i].at < column + 1
            /\ AsHigh(h, new[i].at, column, height)
        BY <2>2, <1>5, <1>8, <1>4
      <3>2. \A j \in new[i].at..column + 1 - 1 : j \in new[i].at..column - 1 \/ j = column
        BY <3>1
      <3>3. \A j \in new[i].at..column + 1 - 1 : h[j] >= new[i].height
        BY <3>1, <3>2, <1>1 DEF AsHigh, height
      <3> QED
        BY <3>1, <3>3 DEF AsHigh
    <2> QED
      BY <2>1, <2>2, <1>9
  <1>11. ASSUME NEW i \in 1..Len(new), NEW j \in 1..Len(new), i < j
         PROVE  new[i].height <= new[j].height /\ new[i].at <= new[j].at
    <2>1. i \in 1..kept /\ new[i] = old[i]
      BY <1>11, <1>9, <1>5, <1>4
    <2>2. CASE j \in 1..kept
      BY <2>1, <2>2, <1>5, <1>6, <1>7, <1>11
    <2>3. CASE j = kept + 1 /\ Len(new) = kept + 1
      BY <2>1, <2>3, <1>5, <1>7, <1>8, <1>4
    <2> QED
      BY <2>2, <2>3, <1>9
  <1>12. ASSUME NEW l \in 0..column + 1 - 1, NEW x \in Nat \ {0}, AsHigh(h, l, column + 1, x)
         PROVE  \E i \in 1..Len(new) : new[i].height >= x /\ new[i].at <= l
    <2>1. height >= x
      BY <1>12 DEF AsHigh, height
    \* The last entry is as high as this column.
    <2> DEFINE t == Len(new)
    <2>2. t \in {kept, kept + 1} /\ t # 0 /\ t \in 1..t /\ new[t].height = height
      BY <1>4, <1>5
    <2>3. CASE l = column
      <3>1. new[t].at < column + 1 /\ new[t].at \in Nat
        <4>1. new[t].at < column + 1
          BY <2>2, <1>10
        <4>2. CASE t = kept
          BY <4>1, <4>2, <2>2, <1>5, <1>7, <1>3
        <4>3. CASE t = kept + 1
          BY <4>1, <4>3, <1>8
        <4> QED
          BY <4>2, <4>3, <2>2
      <3> QED
        BY <3>1, <2>1, <2>2, <2>3
    <2>4. CASE l # column
      <3>1. l \in 0..column - 1 /\ AsHigh(h, l, column, x)
        <4>1. \A j \in l..column - 1 : j \in l..column + 1 - 1
          OBVIOUS
        <4> QED
          BY <4>1, <2>4, <1>12 DEF AsHigh
      <3>2. PICK i \in 1..m : old[i].height >= x /\ old[i].at <= l
        BY <3>1, <1>6
      <3>3. CASE i \in 1..kept
        BY <3>2, <3>3, <1>5
      <3>4. CASE i \notin 1..kept
        <4>1. kept < m /\ kept + 1 <= i /\ kept + 1 \in 1..m
          BY <3>4, <1>4, <1>3
        <4>2. \A e \in 1..m : e <= i => old[e].at <= old[i].at
          BY <1>13
        <4>3. new[t].at <= l /\ t \in 1..Len(new)
          <5>1. CASE t = kept
            <6>1. new[t] = old[kept] /\ kept \in 1..m /\ kept <= i
              BY <5>1, <2>2, <1>5, <1>7, <4>1
            <6> QED
              BY <6>1, <4>2, <3>2, <1>3, <2>2
          <5>2. CASE t = kept + 1
            <6>1. new[t].at = old[kept + 1].at
              BY <5>2, <1>5, <4>1, <1>4
            <6> QED
              BY <6>1, <4>1, <4>2, <3>2, <1>3, <2>2
          <5> QED
            BY <5>1, <5>2, <2>2
        <4> QED
          BY <4>3, <2>1, <2>2
      <3> QED
        BY <3>3, <3>4
    <2> QED
      BY <2>3, <2>4
  <1>14. StackHolds(h, column + 1, new)
    BY <1>10, <1>11, <1>12 DEF StackHolds
  <1> QED
    BY <1>14 DEF new, height

\* A product grows with its factors.
LEMMA ProductGrows ==
    ASSUME NEW a \in Nat, NEW b \in Nat, NEW c \in Nat, NEW d \in Nat, a <= b, c <= d
    PROVE  a * c <= b * d
  <1>1. ASSUME NEW i \in Nat, NEW k \in Nat, NEW q \in Nat, i <= k PROVE i * q <= k * q
    BY <1>1
  <1>2. a * c <= b * c
    BY <1>1
  <1>3. c * b <= d * b
    BY <1>1
  <1>4. b * c = c * b /\ b * d = d * b /\ a * c \in Int /\ b * c \in Int /\ b * d \in Int
    OBVIOUS
  <1> QED
    BY <1>2, <1>3, <1>4

\* A column keeps the best rectangle no less than all that have ended.
LEMMA BestKeeps ==
    ASSUME NEW row \in Nat, NEW column \in Nat, NEW h, \A j \in 0..column : h[j] \in Nat,
           NEW acc \in Scans, NEW first \in Rectangles,
           StackHolds(h, column, acc.stack), BestHolds(h, row, column, first, acc.best)
    PROVE  BestHolds(h, row, column + 1, first, StackColumn(row, h[column], column, acc).best)
  <1> DEFINE height == h[column]
             new == StackColumn(row, height, column, acc).best
             old == acc.stack
             kept == Kept(old, height)
             m == Len(old)
             size(i) == RectangleArea(EndedBefore(row, column, old[i]))
  <1>1. height \in Nat
    OBVIOUS
  <1>2. old \in Seq(StackEntries) /\ acc.best \in Rectangles
    BY DEF Scans
  <1>3. m \in Nat /\ \A i \in 1..m : old[i] \in StackEntries /\ old[i].at \in Nat /\ old[i].height \in Nat
    <2>1. \A i \in 1..m : old[i] \in StackEntries
      BY <1>2
    <2> QED
      BY <2>1, <1>2 DEF StackEntries
  <1>4. kept \in 0..m /\ (kept # 0 => old[kept].height <= height)
        /\ \A i \in kept + 1..m : old[i].height > height
    <2> HIDE DEF height
    <2> QED
      BY <1>1, <1>2, KeptOf
  <1>5. /\ new = acc.best \/ \E i \in kept + 1..m : new = EndedBefore(row, column, old[i])
        /\ RectangleArea(acc.best) <= RectangleArea(new)
        /\ \A i \in kept + 1..m : size(i) <= RectangleArea(new)
        /\ new \in Rectangles
    <2> HIDE DEF height
    <2> QED
      BY <1>1, StackBest
  <1>6. /\ \A i \in 1..m : old[i].at < column /\ AsHigh(h, old[i].at, column, old[i].height)
        /\ \A i, j \in 1..m : i < j => old[i].height <= old[j].height
        /\ \A l \in 0..column - 1, x \in Nat \ {0} :
              AsHigh(h, l, column, x) => \E i \in 1..m : old[i].height >= x /\ old[i].at <= l
    BY DEF StackHolds
  <1>7. \A i \in 1..m : size(i) = old[i].height * (column - old[i].at) /\ size(i) \in Int
    BY <1>3, EndedArea
  <1>8. RectangleArea(new) \in Int /\ RectangleArea(acc.best) \in Int /\ RectangleArea(first) \in Int
    BY <1>2, <1>5, AreaIsInt
  <1> HIDE DEF height, new, old, kept, m, size
  <1>9. RectangleArea(first) <= RectangleArea(new)
    <2>1. RectangleArea(first) <= RectangleArea(acc.best)
      BY DEF BestHolds
    <2> QED
      BY <2>1, <1>5, <1>8
  <1>10. ASSUME NEW l \in 0..column + 1 - 1, NEW q \in 0..column + 1 - 1, NEW x \in Nat \ {0},
                l < q, AsHigh(h, l, q, x), h[q] < x
         PROVE  x * (q - l) <= RectangleArea(new)
    <2>1. x * (q - l) \in Int
      BY <1>10
    <2>2. CASE q # column
      <3>1. l \in 0..column - 1 /\ q \in 0..column - 1
        BY <2>2, <1>10
      <3>2. x * (q - l) <= RectangleArea(acc.best)
        BY <3>1, <1>10 DEF BestHolds
      <3> QED
        BY <3>2, <2>1, <1>5, <1>8
    <2>3. CASE q = column
      <3>1. l \in 0..column - 1 /\ height < x
        BY <2>3, <1>10 DEF height
      <3>2. PICK i \in 1..m : old[i].height >= x /\ old[i].at <= l
        BY <3>1, <2>3, <1>10, <1>6
      <3>3. i \in kept + 1..m
        <4>1. ASSUME i <= kept PROVE FALSE
          <5>1. kept # 0 /\ kept \in 1..m
            BY <4>1, <1>4, <1>3
          <5>2. old[i].height <= old[kept].height
            <6>1. i < kept \/ i = kept
              BY <4>1, <5>1, <1>3
            <6> QED
              BY <6>1, <5>1, <1>6, <1>3
          <5> QED
            BY <5>1, <5>2, <3>1, <3>2, <1>4, <1>3, <1>1
        <4> QED
          BY <4>1, <1>3, <1>4
      <3>4. size(i) = old[i].height * (column - old[i].at)
        BY <1>7
      <3> DEFINE a == column - old[i].at
                 b == column - l
                 y == old[i].height
      <3>5. a \in Nat /\ b \in Nat /\ b <= a /\ y \in Nat /\ x <= y
        BY <3>1, <3>2, <1>3, <1>6
      <3> HIDE DEF a, b, y
      <3>6. x * b <= y * a
        BY <3>5, ProductGrows
      <3>7. size(i) = y * a /\ x * (q - l) = x * b
        BY <3>4, <2>3 DEF a, b, y
      <3>8. size(i) <= RectangleArea(new) /\ size(i) \in Int
        BY <3>3, <1>5, <1>7
      <3> QED
        BY <3>6, <3>7, <3>8, <2>1, <1>8
    <2> QED
      BY <2>2, <2>3
  <1>11. \/ new = first
         \/ \E l, q \in 0..column + 1 - 1, x \in Nat \ {0} :
              /\ l < q /\ AsHigh(h, l, q, x)
              /\ new = [top |-> row - x + 1, bottom |-> row + 1, left |-> l, right |-> q]
    <2>1. CASE new = acc.best
      <3>1. CASE acc.best = first
        BY <2>1, <3>1
      <3>2. CASE acc.best # first
        <4>1. PICK l \in 0..column - 1, q \in 0..column - 1, x \in Nat \ {0} :
                /\ l < q /\ AsHigh(h, l, q, x)
                /\ acc.best = [top |-> row - x + 1, bottom |-> row + 1, left |-> l, right |-> q]
          BY <3>2 DEF BestHolds
        <4>2. l \in 0..column + 1 - 1 /\ q \in 0..column + 1 - 1
          OBVIOUS
        <4> QED
          BY <4>1, <4>2, <2>1
      <3> QED
        BY <3>1, <3>2
    <2>2. ASSUME NEW i \in kept + 1..m, new = EndedBefore(row, column, old[i])
          PROVE  \E l, q \in 0..column + 1 - 1, x \in Nat \ {0} :
                   /\ l < q /\ AsHigh(h, l, q, x)
                   /\ new = [top |-> row - x + 1, bottom |-> row + 1, left |-> l, right |-> q]
      <3>1. i \in 1..m /\ old[i].height > height
        BY <1>3, <1>4
      <3>2. old[i].at \in 0..column + 1 - 1 /\ column \in 0..column + 1 - 1
            /\ old[i].height \in Nat \ {0} /\ old[i].at < column
            /\ AsHigh(h, old[i].at, column, old[i].height)
        BY <3>1, <1>1, <1>3, <1>6
      <3>3. new = [top |-> row - old[i].height + 1, bottom |-> row + 1,
                   left |-> old[i].at, right |-> column]
        BY <2>2 DEF EndedBefore
      <3> QED
        BY <3>2, <3>3
    <2> QED
      BY <2>1, <2>2, <1>5
  <1>12. BestHolds(h, row, column + 1, first, new)
    BY <1>9, <1>10, <1>11 DEF BestHolds
  <1> QED
    BY <1>12 DEF new, height

\* The scan of a row, up to the sentinel of height 0 behind its last column.
LEMMA ScanRowHolds ==
    ASSUME NEW row \in Nat, NEW columns \in Nat, NEW h, \A j \in 0..columns : h[j] \in Nat,
           NEW first \in Rectangles
    PROVE  /\ ScanRow(row, h, columns, first) \in Rectangles
           /\ BestHolds(h, row, columns + 1, first, ScanRow(row, h, columns, first))
  <1> DEFINE n == columns + 1
             base == [best |-> first, stack |-> <<>>]
             G == [k \in 1..n |-> [t \in Scans |-> StackColumn(row, h[k - 1], k - 1, t)]]
             Eq(f) == f = [k \in 0..columns + 1 |->
                              IF k = 0 THEN [best |-> first, stack |-> <<>>]
                              ELSE StackColumn(row, h[k - 1], k - 1, f[k - 1])]
  <1>1. n \in Nat /\ base \in Scans
    BY DEF Scans
  <1>2. \A k \in 1..n : k - 1 \in 0..columns /\ k - 1 \in Nat /\ h[k - 1] \in Nat
    OBVIOUS
  <1>3. \A k \in 1..n : \A t \in Scans : StackColumn(row, h[k - 1], k - 1, t) \in Scans
    <2> HIDE DEF n
    <2> QED
      BY <1>2, StackType
  <1>4. G \in [1..n -> [Scans -> Scans]]
    <2> HIDE DEF n
    <2> QED
      BY <1>3
  <1> HIDE DEF G, base, n
  <1>5. \E f \in [0..n -> Scans] : Follows(n, base, G, f)
    BY <1>1, <1>4, StepsExist
  <1>6. PICK f \in [0..n -> Scans] : f[0] = base /\ \A k \in 1..n : f[k] = G[k][f[k - 1]]
    BY <1>5 DEF Follows
  <1>7. \A k \in 1..n : f[k - 1] \in Scans /\ f[k] = StackColumn(row, h[k - 1], k - 1, f[k - 1])
    <2> SUFFICES ASSUME NEW k \in 1..n
                 PROVE  f[k - 1] \in Scans /\ f[k] = StackColumn(row, h[k - 1], k - 1, f[k - 1])
      OBVIOUS
    <2>1. k - 1 \in 0..n
      BY <1>1
    <2>2. f[k - 1] \in Scans
      BY <2>1
    <2>3. f[k] = G[k][f[k - 1]]
      BY <1>6
    <2> QED
      BY <2>2, <2>3 DEF G
  <1>8. Eq(f)
    <2> DEFINE F(k) == IF k = 0 THEN [best |-> first, stack |-> <<>>]
                       ELSE StackColumn(row, h[k - 1], k - 1, f[k - 1])
    <2>1. ASSUME NEW k \in 0..n PROVE f[k] = F(k)
      <3>1. CASE k = 0
        BY <1>6, <3>1 DEF base
      <3>2. CASE k # 0
        <4>1. k \in 1..n
          BY <3>2, <1>1
        <4> QED
          BY <4>1, <3>2, <1>7
      <3> QED
        BY <3>1, <3>2
    <2>2. f = [k \in 0..n |-> f[k]]
      BY <1>6
    <2> HIDE DEF F
    <2>3. f = [k \in 0..n |-> F(k)]
      BY <2>1, <2>2
    <2> QED
      BY <2>3 DEF F, n
  <1>9. ScanRow(row, h, columns, first) = (CHOOSE g : Eq(g))[columns + 1].best
    BY DEF ScanRow
  <1> DEFINE acc == CHOOSE g : Eq(g)
  <1>10. Eq(acc)
    <2> HIDE DEF Eq
    <2> QED
      BY <1>8
  <1>11. acc = [k \in 0..columns + 1 |->
                   IF k = 0 THEN [best |-> first, stack |-> <<>>]
                   ELSE StackColumn(row, h[k - 1], k - 1, acc[k - 1])]
    BY <1>10
  <1>12. ScanRow(row, h, columns, first) = acc[n].best
    BY <1>9 DEF n
  <1> HIDE DEF acc, Eq
  <1>13. acc[0] = base
    <2>1. 0 \in 0..columns + 1
      BY <1>1 DEF n
    <2> QED
      BY <1>11, <2>1 DEF base
  <1>14. \A k \in 1..n : acc[k] = StackColumn(row, h[k - 1], k - 1, acc[k - 1])
    <2> SUFFICES ASSUME NEW k \in 1..n
                 PROVE  acc[k] = StackColumn(row, h[k - 1], k - 1, acc[k - 1])
      OBVIOUS
    <2>1. k \in 0..columns + 1 /\ k # 0
      BY DEF n
    <2> QED
      BY <1>11, <2>1
  <1> DEFINE Good(k) == /\ acc[k] \in Scans
                        /\ StackHolds(h, k, acc[k].stack)
                        /\ BestHolds(h, row, k, first, acc[k].best)
             S == {k \in 0..n : Good(k)}
  <1>15. 0 \in S
    <2>1. 0 \in 0..n /\ \A l \in 0..0 - 1 : FALSE
      BY <1>1
    <2>2. base.stack = <<>> /\ base.best = first /\ Len(<<>>) = 0 /\ \A i \in 1..0 : FALSE
      BY DEF base
    <2>3. StackHolds(h, 0, base.stack)
      BY <2>1, <2>2 DEF StackHolds
    <2>4. RectangleArea(first) \in Int
      BY AreaIsInt
    <2>5. BestHolds(h, row, 0, first, base.best)
      BY <2>1, <2>2, <2>4 DEF BestHolds
    <2> QED
      BY <1>1, <1>13, <2>1, <2>3, <2>5
  <1>16. ASSUME NEW k \in 1..n, k - 1 \in S PROVE k \in S
    <2> DEFINE j == k - 1
    <2>1. j \in 0..columns /\ j \in Nat /\ j + 1 = k /\ k \in 0..n /\ \A i \in 0..j : i \in 0..columns
      BY <1>1 DEF n
    <2>2. Good(j)
      BY <1>16
    <2>3. acc[k] = StackColumn(row, h[j], j, acc[j])
      BY <1>14
    <2> HIDE DEF j
    <2>4. h[j] \in Nat /\ \A i \in 0..j : h[i] \in Nat
      BY <2>1
    <2>5. acc[k] \in Scans
      BY <2>1, <2>2, <2>3, <2>4, StackType
    <2>6. StackHolds(h, j + 1, acc[k].stack)
      BY <2>1, <2>2, <2>3, <2>4, StackKeeps
    <2>7. BestHolds(h, row, j + 1, first, acc[k].best)
      BY <2>1, <2>2, <2>3, <2>4, BestKeeps
    <2> QED
      BY <2>1, <2>5, <2>6, <2>7
  <1>17. \A k \in 0..n : k \in S
    <2> HIDE DEF S
    <2> QED
      BY <1>1, <1>15, <1>16, UpTo
  <1>18. Good(n)
    BY <1>17, <1>1
  <1> QED
    BY <1>12, <1>18 DEF Scans, n

\* Every covered rectangle that ends in a row is one of those its scan compares ...
LEMMA RowCandidate ==
    ASSUME NEW c, Covering(c), NEW b \in RectanglesOf(c), NEW r \in 0..c.rows - 1, b.bottom = r + 1,
           NEW first \in Rectangles, NEW best \in Rectangles,
           BestHolds(HeightsAbove(c)[r + 1], r, c.columns + 1, first, best)
    PROVE  RectangleArea(b) <= RectangleArea(best)
  <1> DEFINE h == HeightsAbove(c)[r + 1]
             x == b.bottom - b.top
             l == b.left
  <1>1. c.rows \in Nat /\ c.columns \in Nat /\ r \in Nat /\ r + 1 \in 0..c.rows /\ r + 1 # 0
        /\ (r + 1) - 1 = r
    BY DEF Covering
  <1>2. /\ b.top \in 0..c.rows /\ b.bottom \in 0..c.rows /\ b.left \in 0..c.columns
        /\ b.right \in 0..c.columns /\ b.top < b.bottom /\ b.left < b.right
        /\ (b.top..b.bottom - 1) \X (b.left..b.right - 1) \subseteq c.covered
    BY DEF RectanglesOf
  <1>3. x \in Nat \ {0} /\ l \in 0..(c.columns + 1) - 1 /\ b.top \in 0..(r + 1) - 1 /\ (r + 1) - b.top = x
    BY <1>1, <1>2
  <1>4. \A k \in 0..c.columns : h[k] \in Nat
    BY <1>1, Heights
  <1>5. h[c.columns] = 0
    <2>1. <<r, c.columns>> \notin c.covered
      BY <1>1 DEF Covering, Cells
    <2>2. c.columns \in 0..c.columns
      BY <1>1
    <2>3. h[c.columns] = IF r + 1 = 0 \/ <<(r + 1) - 1, c.columns>> \notin c.covered
                         THEN 0 ELSE HeightsAbove(c)[(r + 1) - 1][c.columns] + 1
      BY <1>1, <2>2, Heights
    <2> QED
      BY <2>1, <2>3, <1>1
  <1>6. \A k \in b.left..b.right - 1 : h[k] >= x
    <2> SUFFICES ASSUME NEW k \in b.left..b.right - 1 PROVE h[k] >= x
      OBVIOUS
    <2>1. k \in 0..c.columns
      BY <1>1, <1>2
    <2>2. \A j \in b.top..(r + 1) - 1 : <<j, k>> \in c.covered
      BY <1>2
    <2>3. (\A j \in b.top..(r + 1) - 1 : <<j, k>> \in c.covered) <=> (r + 1) - b.top <= h[k]
      BY <2>1, <1>1, <1>3, ColumnRuns
    <2> QED
      BY <2>1, <2>2, <2>3, <1>3, <1>4
  <1> HIDE DEF h, x, l
  <1> DEFINE Q == {q \in b.right..c.columns : h[q] < x}
  <1>7. Q \subseteq Nat /\ c.columns \in Q
    BY <1>1, <1>2, <1>3, <1>5
  <1>8. PICK q \in Q : \A y \in Q : q <= y
    <2> HIDE DEF Q
    <2> QED
      BY <1>7, Least
  <1>9. q \in 0..(c.columns + 1) - 1 /\ b.right <= q /\ l < q /\ h[q] < x
    BY <1>1, <1>2, <1>8 DEF l
  <1>10. AsHigh(h, l, q, x)
    <2> SUFFICES ASSUME NEW j \in l..q - 1 PROVE h[j] >= x
      BY DEF AsHigh
    <2>1. CASE j < b.right
      BY <2>1, <1>2, <1>6, <1>9 DEF l
    <2>2. CASE ~(j < b.right)
      <3>1. j \in b.right..c.columns /\ j < q /\ j \in 0..c.columns
        BY <2>2, <1>2, <1>9, <1>1 DEF l
      <3>2. ~(h[j] < x)
        BY <3>1, <1>8
      <3> QED
        BY <3>1, <3>2, <1>3, <1>4
    <2> QED
      BY <2>1, <2>2
  <1>11. x * (q - l) <= RectangleArea(best)
    <2>1. BestHolds(h, r, c.columns + 1, first, best)
      BY DEF h
    <2>2. \A i, k \in 0..(c.columns + 1) - 1, y \in Nat \ {0} :
             i < k /\ AsHigh(h, i, k, y) /\ h[k] < y => y * (k - i) <= RectangleArea(best)
      BY <2>1 DEF BestHolds
    <2> HIDE DEF Q
    <2> QED
      BY <2>2, <1>3, <1>9, <1>10
  <1> DEFINE a == b.right - l
             d == q - l
  <1>12. a \in Nat /\ d \in Nat /\ a <= d
    BY <1>2, <1>9 DEF l
  <1>13. x * a <= x * d
    <2> HIDE DEF a, d
    <2> QED
      BY <1>3, <1>12, ProductGrows
  <1>14. RectangleArea(b) = x * a
    BY DEF RectangleArea, x, l
  <1>15. RectangleArea(best) \in Int
    BY AreaIsInt
  <1> HIDE DEF a, d
  <1>16. x * a \in Int /\ x * d \in Int
    BY <1>3, <1>12
  <1> QED
    BY <1>11, <1>13, <1>14, <1>15, <1>16 DEF d

\* ... and what the scan of a row finds is covered.
LEMMA RowBestIsCovered ==
    ASSUME NEW c, Covering(c), NEW r \in 0..c.rows - 1, NEW first, NEW best,
           BestHolds(HeightsAbove(c)[r + 1], r, c.columns + 1, first, best), best # first
    PROVE  best \in RectanglesOf(c)
  <1> DEFINE h == HeightsAbove(c)[r + 1]
  <1>1. c.rows \in Nat /\ c.columns \in Nat /\ r \in Nat /\ r + 1 \in 0..c.rows
    BY DEF Covering
  <1>3. \A k \in 0..c.columns : h[k] \in Nat
    BY <1>1, Heights
  <1>11. BestHolds(h, r, c.columns + 1, first, best)
    OBVIOUS
  <1>12. \A k \in 0..c.columns : h[k] <= r + 1
    BY <1>1, ColumnRuns
  <1>13. \A k \in 0..c.columns, i \in 0..(r + 1) - 1 :
            (\A j \in i..(r + 1) - 1 : <<j, k>> \in c.covered) <=> (r + 1) - i <= h[k]
    BY <1>1, ColumnRuns
  <1> HIDE DEF h
  <1>2. PICK l \in 0..(c.columns + 1) - 1, q \in 0..(c.columns + 1) - 1, x \in Nat \ {0} :
             /\ l < q /\ AsHigh(h, l, q, x)
             /\ best = [top |-> r - x + 1, bottom |-> r + 1, left |-> l, right |-> q]
    <2>1. \/ best = first
          \/ \E l, q \in 0..(c.columns + 1) - 1, x \in Nat \ {0} :
                /\ l < q /\ AsHigh(h, l, q, x)
                /\ best = [top |-> r - x + 1, bottom |-> r + 1, left |-> l, right |-> q]
      BY <1>11, Zenon DEF BestHolds
    <2> QED
      BY <2>1, Zenon
  <1>4. \A k \in l..q - 1 : k \in 0..c.columns /\ h[k] >= x /\ h[k] <= r + 1
    <2> SUFFICES ASSUME NEW k \in l..q - 1 PROVE k \in 0..c.columns /\ h[k] >= x /\ h[k] <= r + 1
      OBVIOUS
    <2>1. k \in 0..c.columns
      BY <1>1, <1>2
    <2>2. h[k] <= r + 1
      BY <2>1, <1>12
    <2> QED
      BY <2>1, <2>2, <1>2 DEF AsHigh
  <1>5. r - x + 1 \in 0..r /\ r - x + 1 \in 0..(r + 1) - 1 /\ (r + 1) - (r - x + 1) = x
    <2>1. l \in l..q - 1
      BY <1>2
    <2>3. h[l] \in Nat /\ x <= h[l] /\ h[l] <= r + 1
      BY <2>1, <1>3, <1>4
    <2>2. x <= r + 1
      BY <2>3, <1>1
    <2> QED
      BY <2>2, <1>1
  <1>6. ASSUME NEW j \in (r - x + 1)..(r + 1) - 1, NEW k \in l..q - 1 PROVE <<j, k>> \in c.covered
    <2>1. k \in 0..c.columns /\ h[k] \in Nat /\ (r + 1) - (r - x + 1) <= h[k]
      BY <1>3, <1>4, <1>5
    <2>2. (\A i \in (r - x + 1)..(r + 1) - 1 : <<i, k>> \in c.covered)
             <=> (r + 1) - (r - x + 1) <= h[k]
      BY <2>1, <1>5, <1>13
    <2> QED
      BY <2>1, <2>2
  <1>7. best.top = r - x + 1 /\ best.bottom = r + 1 /\ best.left = l /\ best.right = q
    BY <1>2
  <1>8. best \in [top : 0..c.rows, bottom : 0..c.rows, left : 0..c.columns, right : 0..c.columns]
    BY <1>1, <1>2, <1>5
  <1>9. best.top < best.bottom /\ best.left < best.right
    BY <1>2, <1>5, <1>7, <1>1
  <1>10. (best.top..best.bottom - 1) \X (best.left..best.right - 1) \subseteq c.covered
    BY <1>6, <1>7
  <1> QED
    BY <1>8, <1>9, <1>10 DEF RectanglesOf

\* The largest covered rectangle is covered, and none is larger: for every raster
\* (largest_true_rectangle).
LEMMA LargestHolds ==
    ASSUME NEW c, Covering(c)
    PROVE  /\ LargestTrueRectangle(c) \in Rectangles
           /\ LargestTrueRectangle(c) = NoRectangle \/ LargestTrueRectangle(c) \in RectanglesOf(c)
           /\ \A b \in RectanglesOf(c) : RectangleArea(b) <= RectangleArea(LargestTrueRectangle(c))
  <1> DEFINE n == c.rows
             heights == HeightsAbove(c)
             G == [r \in 1..n |-> [t \in Rectangles |-> ScanRow(r - 1, heights[r], c.columns, t)]]
             Eq(f) == f = [r \in 0..c.rows |->
                              IF r = 0 THEN NoRectangle
                              ELSE ScanRow(r - 1, HeightsAbove(c)[r], c.columns, f[r - 1])]
  <1>1. n \in Nat /\ c.columns \in Nat /\ NoRectangle \in Rectangles
    BY DEF Covering, Rectangles, NoRectangle
  <1>2. \A r \in 1..n : r - 1 \in Nat /\ r - 1 \in 0..n - 1 /\ r \in 0..n /\ (r - 1) + 1 = r
    BY <1>1
  <1>3. \A r \in 1..n : \A j \in 0..c.columns : heights[r][j] \in Nat
    BY <1>2, Heights
  <1>4. \A r \in 1..n : \A t \in Rectangles :
           /\ ScanRow(r - 1, heights[r], c.columns, t) \in Rectangles
           /\ BestHolds(heights[r], r - 1, c.columns + 1, t, ScanRow(r - 1, heights[r], c.columns, t))
    <2> SUFFICES ASSUME NEW r \in 1..n, NEW t \in Rectangles
                 PROVE  /\ ScanRow(r - 1, heights[r], c.columns, t) \in Rectangles
                        /\ BestHolds(heights[r], r - 1, c.columns + 1, t,
                                     ScanRow(r - 1, heights[r], c.columns, t))
      OBVIOUS
    <2> DEFINE h == heights[r]
    <2>1. r - 1 \in Nat /\ \A j \in 0..c.columns : h[j] \in Nat
      BY <1>2, <1>3
    <2> HIDE DEF h
    <2>2. /\ ScanRow(r - 1, h, c.columns, t) \in Rectangles
          /\ BestHolds(h, r - 1, c.columns + 1, t, ScanRow(r - 1, h, c.columns, t))
      BY <2>1, <1>1, ScanRowHolds
    <2> QED
      BY <2>2 DEF h
  <1>5. G \in [1..n -> [Rectangles -> Rectangles]]
    <2> HIDE DEF n, heights
    <2> QED
      BY <1>4
  <1> HIDE DEF G, n, heights
  <1>6. \E f \in [0..n -> Rectangles] : Follows(n, NoRectangle, G, f)
    BY <1>1, <1>5, StepsExist
  <1>7. PICK f \in [0..n -> Rectangles] :
            f[0] = NoRectangle /\ \A r \in 1..n : f[r] = G[r][f[r - 1]]
    BY <1>6 DEF Follows
  <1>8. \A r \in 1..n : f[r] = ScanRow(r - 1, heights[r], c.columns, f[r - 1])
    <2> SUFFICES ASSUME NEW r \in 1..n
                 PROVE  f[r] = ScanRow(r - 1, heights[r], c.columns, f[r - 1])
      OBVIOUS
    <2>1. r - 1 \in 0..n
      BY <1>1
    <2>2. f[r - 1] \in Rectangles /\ f[r] = G[r][f[r - 1]]
      BY <2>1, <1>7
    <2> QED
      BY <2>2 DEF G
  <1>9. Eq(f)
    <2> DEFINE F(r) == IF r = 0 THEN NoRectangle ELSE ScanRow(r - 1, heights[r], c.columns, f[r - 1])
    <2>1. ASSUME NEW r \in 0..n PROVE f[r] = F(r)
      <3>1. r = 0 \/ r \in 1..n
        BY <1>1
      <3> QED
        BY <3>1, <1>1, <1>7, <1>8
    <2>2. f = [r \in 0..n |-> f[r]]
      BY <1>7
    <2> HIDE DEF F
    <2>3. f = [r \in 0..n |-> F(r)]
      BY <2>1, <2>2
    <2> QED
      BY <2>3 DEF F, n, heights
  <1>10. LargestTrueRectangle(c) = (CHOOSE g : Eq(g))[c.rows]
    BY DEF LargestTrueRectangle
  <1> DEFINE best == CHOOSE g : Eq(g)
  <1>11. Eq(best)
    <2> HIDE DEF Eq
    <2> QED
      BY <1>9
  <1>12. best = [r \in 0..c.rows |->
                   IF r = 0 THEN NoRectangle
                   ELSE ScanRow(r - 1, HeightsAbove(c)[r], c.columns, best[r - 1])]
    BY <1>11
  <1>13. LargestTrueRectangle(c) = best[n]
    BY <1>10 DEF n
  <1> HIDE DEF best, Eq
  <1>14. best[0] = NoRectangle
    <2>1. 0 \in 0..c.rows
      BY <1>1 DEF n
    <2> QED
      BY <2>1, <1>12
  <1>15. \A r \in 1..n : best[r] = ScanRow(r - 1, heights[r], c.columns, best[r - 1])
    <2> SUFFICES ASSUME NEW r \in 1..n
                 PROVE  best[r] = ScanRow(r - 1, heights[r], c.columns, best[r - 1])
      OBVIOUS
    <2>1. r \in 0..c.rows /\ r # 0
      BY DEF n
    <2> QED
      BY <2>1, <1>12 DEF heights
  <1> DEFINE Good(r) == /\ best[r] \in Rectangles
                        /\ best[r] = NoRectangle \/ best[r] \in RectanglesOf(c)
                        /\ \A b \in RectanglesOf(c) :
                              b.bottom <= r => RectangleArea(b) <= RectangleArea(best[r])
             S == {r \in 0..n : Good(r)}
  <1>16. \A b \in RectanglesOf(c) : b \in Rectangles /\ b.bottom \in 1..n
    <2> SUFFICES ASSUME NEW b \in RectanglesOf(c) PROVE b \in Rectangles /\ b.bottom \in 1..n
      OBVIOUS
    <2>1. /\ b \in [top : 0..c.rows, bottom : 0..c.rows, left : 0..c.columns, right : 0..c.columns]
          /\ b.top < b.bottom
      BY DEF RectanglesOf
    <2>2. b \in Rectangles
      BY <2>1 DEF Rectangles
    <2>3. b.bottom \in 1..n
      BY <2>1, <1>1 DEF n
    <2> QED
      BY <2>2, <2>3
  <1>17. 0 \in S
    BY <1>1, <1>14, <1>16
  <1>18. ASSUME NEW r \in 1..n, r - 1 \in S PROVE r \in S
    <2> DEFINE first == best[r - 1]
               new == best[r]
    <2>1. /\ first \in Rectangles
          /\ first = NoRectangle \/ first \in RectanglesOf(c)
          /\ \A b \in RectanglesOf(c) : b.bottom <= r - 1 => RectangleArea(b) <= RectangleArea(first)
      BY <1>18
    <2>2. new = ScanRow(r - 1, heights[r], c.columns, first)
      BY <1>15
    <2> HIDE DEF first, new
    <2>3. new \in Rectangles /\ BestHolds(heights[r], r - 1, c.columns + 1, first, new)
      BY <2>1, <2>2, <1>4
    <2>4. RectangleArea(first) <= RectangleArea(new)
      BY <2>3 DEF BestHolds
    <2>5. RectangleArea(first) \in Int /\ RectangleArea(new) \in Int
      BY <2>1, <2>3, AreaIsInt
    <2> DEFINE p == r - 1
    <2>6. p \in 0..c.rows - 1 /\ p + 1 = r /\ r \in 0..n
      BY <1>2 DEF n
    <2>7. BestHolds(HeightsAbove(c)[p + 1], p, c.columns + 1, first, new)
      BY <2>3, <2>6 DEF heights
    <2> HIDE DEF p
    <2>8. new = NoRectangle \/ new \in RectanglesOf(c)
      BY <2>1, <2>6, <2>7, RowBestIsCovered
    <2>9. ASSUME NEW b \in RectanglesOf(c), b.bottom <= r
          PROVE  RectangleArea(b) <= RectangleArea(new)
      <3>1. b \in Rectangles /\ b.bottom \in 1..n
        BY <1>16
      <3>2. RectangleArea(b) \in Int
        BY <3>1, AreaIsInt
      <3>3. CASE b.bottom = r
        BY <3>3, <2>1, <2>3, <2>6, <2>7, RowCandidate
      <3>4. CASE b.bottom # r
        <4>1. b.bottom <= r - 1
          BY <3>1, <3>4, <2>9, <1>1
        <4>2. RectangleArea(b) <= RectangleArea(first)
          BY <4>1, <2>1
        <4> QED
          BY <4>2, <3>2, <2>4, <2>5
      <3> QED
        BY <3>3, <3>4
    <2> QED
      BY <2>3, <2>6, <2>8, <2>9 DEF new
  <1>19. \A r \in 0..n : r \in S
    <2> HIDE DEF S
    <2> QED
      BY <1>1, <1>17, <1>18, UpTo
  <1>20. Good(n)
    BY <1>19, <1>1
  <1>21. \A b \in RectanglesOf(c) : b.bottom <= n
    BY <1>16, <1>1
  <1> QED
    BY <1>13, <1>20, <1>21

-----------------------------------------------------------------------------
(*****************************************************************************)
(* The samples and the budgets.                                              *)
(*****************************************************************************)

\* A side that is reduced because of a limit stays between 2 and what it was.
LEMMA ReducedInRange ==
    ASSUME NEW side \in Nat \ {0, 1}, NEW other \in Nat \ {0, 1}, NEW limit \in Nat,
           ~(side * other <= limit)
    PROVE  Reduced(side, other, limit) \in 2..side
  <1> DEFINE P(k) == k * k * other <= side * limit
             T == {k \in 0..side : ~P(k)}
  <1>1. \A k \in 0..side : k * k * other \in Int
    OBVIOUS
  <1>2. side * limit \in Nat
    OBVIOUS
  <1>3. side \in T
    <2>1. ASSUME NEW i \in Nat, NEW k \in Nat, NEW q \in Nat \ {0}, i < k PROVE q * i < q * k
      BY <2>1
    <2>2. side * other \in Nat /\ limit < side * other
      OBVIOUS
    <2>3. side * limit < side * (side * other)
      BY <2>1, <2>2
    <2>4. side * (side * other) = side * side * other
      OBVIOUS
    <2>5. ~P(side)
      BY <2>3, <2>4, <1>1, <1>2
    <2> QED
      BY <2>5
  <1>4. 0 \notin T
    <2>1. 0 * 0 * other = 0
      OBVIOUS
    <2> QED
      BY <2>1, <1>2
  <1>5. PICK m \in T : \A y \in T : m <= y
    <2>1. T \subseteq Nat
      OBVIOUS
    <2> HIDE DEF T
    <2> QED
      BY <1>3, <2>1, Least
  <1>6. m \in 1..side /\ m - 1 \in 0..side /\ m - 1 \notin T /\ (m - 1) + 1 = m
    <2>1. m \in 0..side /\ m # 0
      BY <1>4, <1>5
    <2>2. ~(m <= m - 1)
      BY <2>1
    <2>3. m - 1 \notin T
      BY <1>5, <2>2
    <2> QED
      BY <2>1, <2>3
  <1>7. P(m - 1) /\ ~P(m)
    BY <1>5, <1>6
  <1>8. \E k \in 0..side : k * k * other <= side * limit /\ (k + 1) * (k + 1) * other > side * limit
    <2>1. m * m * other > side * limit
      BY <1>7, <1>6, <1>1, <1>2
    <2> QED
      BY <2>1, <1>6, <1>7
  <1> DEFINE r == CHOOSE k \in 0..side :
                    /\ k * k * other <= side * limit
                    /\ (k + 1) * (k + 1) * other > side * limit
  <1>9. r \in 0..side
    BY <1>8
  <1>10. Reduced(side, other, limit) = AtLeast(2, r)
    BY DEF Reduced
  <1> HIDE DEF r
  <1> QED
    BY <1>9, <1>10 DEF AtLeast

\* A shape that is shrunk to a limit is within it, or cannot be smaller.
LEMMA ShrunkHolds ==
    ASSUME NEW a \in Nat \ {0, 1}, NEW b \in Nat \ {0, 1}, NEW shape, NEW limit \in Nat
    PROVE  LET s == Shrunk(<<a, b>>, shape, limit) IN
           s \in (2..a) \X (2..b) /\ (s[1] * s[2] <= limit \/ s[2] = 2)
  <1> DEFINE D == (2..a) \X (2..b)
             n == a + b
             Rows(u) == u[1] * shape[2] >= u[2] * shape[1] /\ u[1] > 2
             Step(u, f) == IF u[1] * u[2] <= limit THEN u
                           ELSE IF Rows(u) THEN f[<<u[1] - 1, u[2]>>]
                           ELSE IF u[2] > 2 THEN f[<<u[1], u[2] - 1>>]
                           ELSE u
             G == [k \in 1..n |-> [f \in [D -> D] |-> [u \in D |-> Step(u, f)]]]
             base == [u \in D |-> u]
             Eq(f) == f = [u \in D |-> IF u[1] * u[2] <= limit THEN u
                           ELSE IF u[1] * shape[2] >= u[2] * shape[1] /\ u[1] > 2
                                THEN f[<<u[1] - 1, u[2]>>]
                           ELSE IF u[2] > 2 THEN f[<<u[1], u[2] - 1>>]
                           ELSE u]
  <1>1. n \in Nat /\ n >= 4 /\ base \in [D -> D]
    OBVIOUS
  <1>2. ASSUME NEW u \in D
        PROVE  /\ u[1] \in Nat /\ u[2] \in Nat /\ u[1] >= 2 /\ u[2] >= 2 /\ u[1] <= a /\ u[2] <= b
               /\ u = <<u[1], u[2]>>
    OBVIOUS
  <1>23. ASSUME NEW u \in D, u[1] > 2
         PROVE  /\ <<u[1] - 1, u[2]>> \in D
                /\ <<u[1] - 1, u[2]>>[1] = u[1] - 1 /\ <<u[1] - 1, u[2]>>[2] = u[2]
    BY <1>2, <1>23
  <1>24. ASSUME NEW u \in D, u[2] > 2
         PROVE  /\ <<u[1], u[2] - 1>> \in D
                /\ <<u[1], u[2] - 1>>[1] = u[1] /\ <<u[1], u[2] - 1>>[2] = u[2] - 1
    BY <1>2, <1>24
  <1>25. \A u \in D : u[1] + u[2] \in Nat /\ 4 <= u[1] + u[2] /\ u[1] + u[2] <= n
    OBVIOUS
  <1>3. ASSUME NEW u \in D, NEW f \in [D -> D] PROVE Step(u, f) \in D
    <2>1. (u[1] > 2 => <<u[1] - 1, u[2]>> \in D) /\ (u[2] > 2 => <<u[1], u[2] - 1>> \in D)
      BY <1>23, <1>24
    <2> HIDE DEF D
    <2>2. (u[1] > 2 => f[<<u[1] - 1, u[2]>>] \in D) /\ (u[2] > 2 => f[<<u[1], u[2] - 1>>] \in D)
      BY <2>1
    <2> QED
      BY <2>2
  <1>4. G \in [1..n -> [[D -> D] -> [D -> D]]]
    <2> HIDE DEF D, n, Step
    <2> QED
      BY <1>3
  <1> HIDE DEF G, n, base, D, Step
  <1>5. \E f \in [0..n -> [D -> D]] : Follows(n, base, G, f)
    BY <1>1, <1>4, StepsExist
  <1>6. PICK f \in [0..n -> [D -> D]] : f[0] = base /\ \A k \in 1..n : f[k] = G[k][f[k - 1]]
    BY <1>5 DEF Follows
  <1>7. \A k \in 1..n : f[k] = [u \in D |-> Step(u, f[k - 1])]
    <2> SUFFICES ASSUME NEW k \in 1..n PROVE f[k] = [u \in D |-> Step(u, f[k - 1])]
      OBVIOUS
    <2>1. k - 1 \in 0..n
      BY <1>1
    <2>2. f[k - 1] \in [D -> D] /\ f[k] = G[k][f[k - 1]]
      BY <2>1, <1>6
    <2> QED
      BY <2>2 DEF G
  \* A shape is settled after as many steps as it has samples to lose.
  <1> DEFINE S == {k \in 0..n - 1 : \A u \in D : u[1] + u[2] <= k + 3 => f[k + 1][u] = f[k][u]}
  <1>8. 0 \in S
    <2>1. \A u \in D : ~(u[1] + u[2] <= 0 + 3)
      BY <1>25
    <2>2. 0 \in 0..n - 1
      BY <1>1
    <2> QED
      BY <2>1, <2>2
  <1>9. ASSUME NEW k \in 1..n - 1, k - 1 \in S PROVE k \in S
    <2>1. k \in 0..n - 1 /\ k \in 1..n /\ k + 1 \in 1..n /\ (k + 1) - 1 = k /\ (k - 1) + 1 = k
      BY <1>1
    <2>2. ASSUME NEW u \in D, u[1] + u[2] <= k + 3 PROVE f[k + 1][u] = f[k][u]
      <3>1. f[k + 1][u] = Step(u, f[k]) /\ f[k][u] = Step(u, f[k - 1])
        <4>1. f[k + 1] = [v \in D |-> Step(v, f[k])] /\ f[k] = [v \in D |-> Step(v, f[k - 1])]
          <5>1. f[k + 1] = [v \in D |-> Step(v, f[(k + 1) - 1])]
            BY <2>1, <1>7
          <5> QED
            BY <5>1, <2>1, <1>7
        <4> QED
          BY <4>1
      <3>2. \A v \in D : v[1] + v[2] <= (k - 1) + 3 => f[k][v] = f[k - 1][v]
        BY <1>9, <2>1
      <3>3. u[1] > 2 => f[k][<<u[1] - 1, u[2]>>] = f[k - 1][<<u[1] - 1, u[2]>>]
        <4> SUFFICES ASSUME u[1] > 2
                     PROVE  f[k][<<u[1] - 1, u[2]>>] = f[k - 1][<<u[1] - 1, u[2]>>]
          OBVIOUS
        <4> DEFINE v == <<u[1] - 1, u[2]>>
        <4>3. u[1] \in Nat /\ u[2] \in Nat /\ k \in Int
          BY <1>2, <2>1
        <4>4. v \in D /\ v[1] = u[1] - 1 /\ v[2] = u[2]
          BY <1>23
        <4> HIDE DEF v
        <4>1. v \in D /\ v[1] + v[2] <= (k - 1) + 3
          BY <2>2, <4>3, <4>4
        <4>2. f[k][v] = f[k - 1][v]
          BY <4>1, <3>2
        <4> QED
          BY <4>2 DEF v
      <3>4. u[2] > 2 => f[k][<<u[1], u[2] - 1>>] = f[k - 1][<<u[1], u[2] - 1>>]
        <4> SUFFICES ASSUME u[2] > 2
                     PROVE  f[k][<<u[1], u[2] - 1>>] = f[k - 1][<<u[1], u[2] - 1>>]
          OBVIOUS
        <4> DEFINE v == <<u[1], u[2] - 1>>
        <4>3. u[1] \in Nat /\ u[2] \in Nat /\ k \in Int
          BY <1>2, <2>1
        <4>4. v \in D /\ v[1] = u[1] /\ v[2] = u[2] - 1
          BY <1>24
        <4> HIDE DEF v
        <4>1. v \in D /\ v[1] + v[2] <= (k - 1) + 3
          BY <2>2, <4>3, <4>4
        <4>2. f[k][v] = f[k - 1][v]
          BY <4>1, <3>2
        <4> QED
          BY <4>2 DEF v
      <3>5. Step(u, f[k]) = Step(u, f[k - 1])
        BY <3>3, <3>4 DEF Step
      <3> QED
        BY <3>1, <3>5
    <2> QED
      BY <2>1, <2>2
  <1>10. n - 1 \in S
    <2>1. n - 1 \in Nat
      BY <1>1
    <2>2. \A k \in 0..n - 1 : k \in S
      <3> HIDE DEF S
      <3> QED
        BY <2>1, <1>8, <1>9, UpTo
    <2> QED
      BY <2>1, <2>2
  <1>11. f[n] = [u \in D |-> Step(u, f[n])]
    <2>1. (n - 1) + 1 = n /\ n \in 1..n /\ n \in 0..n /\ n - 1 \in 0..n
      BY <1>1
    <2>2. \A u \in D : f[n][u] = f[n - 1][u]
      <3>1. ASSUME NEW u \in D PROVE u[1] + u[2] <= (n - 1) + 3
        <4>1. u[1] + u[2] \in Nat /\ u[1] + u[2] <= n
          BY <1>25
        <4> QED
          BY <4>1, <1>1
      <3>2. \A u \in D : u[1] + u[2] <= (n - 1) + 3 => f[(n - 1) + 1][u] = f[n - 1][u]
        BY <1>10
      <3> QED
        BY <2>1, <3>1, <3>2
    <2>3. f[n] \in [D -> D] /\ f[n - 1] \in [D -> D]
      BY <2>1, <1>6
    <2>4. f[n] = f[n - 1]
      BY <2>2, <2>3
    <2>5. f[n] = [u \in D |-> Step(u, f[n - 1])]
      BY <2>1, <1>7
    <2> QED
      BY <2>4, <2>5
  <1>12. Eq(f[n])
    BY <1>11 DEF Step
  <1>13. Shrunk(<<a, b>>, shape, limit) = (CHOOSE g : Eq(g))[<<a, b>>]
    BY DEF Shrunk, D
  <1> DEFINE less == CHOOSE g : Eq(g)
  <1>14. Eq(less)
    <2> HIDE DEF Eq
    <2> QED
      BY <1>12
  <1>15. less = [u \in D |-> Step(u, less)]
    BY <1>14 DEF Step
  <1>16. Shrunk(<<a, b>>, shape, limit) = less[<<a, b>>]
    BY <1>13
  <1> HIDE DEF less, Eq
  <1>17. \A u \in D : less[u] = Step(u, less)
    BY <1>15
  <1> DEFINE Fits(u) == /\ less[u] \in D /\ less[u][1] <= u[1] /\ less[u][2] <= u[2]
                        /\ less[u][1] * less[u][2] <= limit \/ less[u][2] = 2
             R == {k \in 0..n : \A u \in D : u[1] + u[2] <= k => Fits(u)}
  <1>18. 0 \in R
    <2>1. \A u \in D : ~(u[1] + u[2] <= 0)
      BY <1>25
    <2>2. 0 \in 0..n
      BY <1>1
    <2> QED
      BY <2>1, <2>2
  <1>19. ASSUME NEW k \in 1..n, k - 1 \in R PROVE k \in R
    <2>1. k \in 0..n /\ k \in Nat
      BY <1>1
    <2>2. \A v \in D : v[1] + v[2] <= k - 1 => Fits(v)
      BY <1>19
    <2>3. ASSUME NEW u \in D, u[1] + u[2] <= k PROVE Fits(u)
      <3>1. u[1] \in Nat /\ u[2] \in Nat /\ u[2] >= 2
        BY <1>2
      <3>7. u[1] + u[2] <= k
        BY <2>3
      <3>2. less[u] = Step(u, less)
        BY <1>17
      <3>3. CASE u[1] * u[2] <= limit
        <4>1. less[u] = u
          BY <3>2, <3>3 DEF Step
        <4> QED
          BY <4>1, <3>1, <3>3
      <3>4. CASE ~(u[1] * u[2] <= limit) /\ Rows(u)
        <4> DEFINE v == <<u[1] - 1, u[2]>>
        <4>1. less[u] = less[v]
          BY <3>2, <3>4 DEF Step
        <4>5. v \in D /\ v[1] = u[1] - 1 /\ v[2] = u[2]
          BY <1>23, <3>4 DEF Rows
        <4> HIDE DEF v
        <4>2. v \in D /\ v[1] = u[1] - 1 /\ v[2] = u[2] /\ v[1] + v[2] <= k - 1
          BY <4>5, <3>7, <3>1, <2>1
        <4>3. Fits(v)
          BY <4>2, <2>2
        <4>4. less[v][1] \in Nat /\ less[v][2] \in Nat
          <5>1. less[v] \in D
            BY <4>3
          <5> QED
            BY <5>1, <1>2
        <4>6. less[u] \in D /\ less[u][1] \in Nat /\ less[u][2] \in Nat
              /\ less[u][1] <= v[1] /\ less[u][2] <= v[2]
              /\ (less[u][1] * less[u][2] <= limit \/ less[u][2] = 2)
          BY <4>1, <4>3, <4>4
        <4> QED
          BY <4>2, <4>6, <3>1
      <3>5. CASE ~(u[1] * u[2] <= limit) /\ ~Rows(u) /\ u[2] > 2
        <4> DEFINE v == <<u[1], u[2] - 1>>
        <4>1. less[u] = less[v]
          BY <3>2, <3>5 DEF Step
        <4>5. v \in D /\ v[1] = u[1] /\ v[2] = u[2] - 1
          BY <1>24, <3>5 DEF Rows
        <4> HIDE DEF v
        <4>2. v \in D /\ v[1] = u[1] /\ v[2] = u[2] - 1 /\ v[1] + v[2] <= k - 1
          BY <4>5, <3>7, <3>1, <2>1
        <4>3. Fits(v)
          BY <4>2, <2>2
        <4>4. less[v][1] \in Nat /\ less[v][2] \in Nat
          <5>1. less[v] \in D
            BY <4>3
          <5> QED
            BY <5>1, <1>2
        <4>6. less[u] \in D /\ less[u][1] \in Nat /\ less[u][2] \in Nat
              /\ less[u][1] <= v[1] /\ less[u][2] <= v[2]
              /\ (less[u][1] * less[u][2] <= limit \/ less[u][2] = 2)
          BY <4>1, <4>3, <4>4
        <4> QED
          BY <4>2, <4>6, <3>1
      <3>6. CASE ~(u[1] * u[2] <= limit) /\ ~Rows(u) /\ ~(u[2] > 2)
        <4>1. less[u] = u /\ u[2] = 2
          BY <3>1, <3>2, <3>6 DEF Step
        <4> QED
          BY <4>1, <3>1
      <3> QED
        BY <3>3, <3>4, <3>5, <3>6
    <2> QED
      BY <2>1, <2>3
  <1>20. \A k \in 0..n : k \in R
    <2> HIDE DEF R
    <2> QED
      BY <1>1, <1>18, <1>19, UpTo
  <1>21. <<a, b>> \in D /\ n \in R /\ n = a + b
    BY <1>1, <1>20 DEF D, n
  <1>22. Fits(<<a, b>>)
    BY <1>21
  <1> QED
    BY <1>16, <1>22 DEF D

\* The shape that fits a budget: within it if that is possible, never larger than
\* the source, and the source's own if that fits.
LEMMA FitHolds ==
    ASSUME NEW x \in Nat \ {0, 1}, NEW y \in Nat \ {0, 1}, NEW limit \in Nat
    PROVE  LET s == FitShapeToBudget(<<x, y>>, limit) IN
           /\ s[1] \in 2..x /\ s[2] \in 2..y
           /\ s[1] * s[2] <= limit \/ s[2] = 2
           /\ x * y <= limit => s = <<x, y>>
  <1> DEFINE s == FitShapeToBudget(<<x, y>>, limit)
  <1>1. CASE x * y <= limit
    <2>1. s = <<x, y>>
      BY <1>1 DEF FitShapeToBudget
    <2> HIDE DEF s
    <2>2. s[1] = x /\ s[2] = y
      BY <2>1
    <2> QED
      BY <1>1, <2>1, <2>2 DEF s
  <1>2. CASE ~(x * y <= limit)
    <2> DEFINE a == Reduced(x, y, limit)
               b == Reduced(y, x, limit)
    <2>1. a \in 2..x
      BY <1>2, ReducedInRange
    <2>2. b \in 2..y
      <3>1. ~(y * x <= limit)
        BY <1>2
      <3> QED
        BY <3>1, ReducedInRange
    <2>3. s = Shrunk(<<a, b>>, <<x, y>>, limit)
      BY <1>2 DEF FitShapeToBudget
    <2> HIDE DEF a, b, s
    <2>4. a \in Nat \ {0, 1} /\ b \in Nat \ {0, 1}
      BY <2>1, <2>2
    <2>5. s \in (2..a) \X (2..b) /\ (s[1] * s[2] <= limit \/ s[2] = 2)
      BY <2>3, <2>4, ShrunkHolds
    <2>6. s[1] \in 2..x /\ s[2] \in 2..y
      <3>1. s[1] \in 2..a /\ s[2] \in 2..b
        BY <2>5
      <3> QED
        BY <3>1, <2>1, <2>2
    <2> QED
      BY <1>2, <2>5, <2>6 DEF s
  <1> QED
    BY <1>1, <1>2

\* A spacing asks for no more samples than the grid has.
LEMMA SpacingHolds ==
    ASSUME NEW g, g.rows \in Nat \ {0, 1}, g.columns \in Nat \ {0, 1}, NEW spacing \in Spacings
    PROVE  \E x \in 2..g.rows, y \in 2..g.columns : ShapeForSpacing(g, spacing) = <<x, y>>
  <1>1. spacing \in Nat /\ ModelWidth \in Nat
    BY TerrainAssumption DEF TerrainAssumption
  <1>2. CASE spacing = 0
    <2>1. g.rows \in 2..g.rows /\ g.columns \in 2..g.columns
      OBVIOUS
    <2> QED
      BY <1>2, <2>1 DEF ShapeForSpacing
  <1>3. CASE spacing # 0
    <2> DEFINE p == (ModelWidth * g.rows) \div (g.columns * spacing) + 1
               q == ModelWidth \div spacing + 1
    <2>1. q \in Int
      BY <1>1, <1>3
    <2>2. p \in Int
      <3>1. ModelWidth * g.rows \in Int /\ g.columns * spacing \in Nat \ {0}
        <4>1. ASSUME NEW i \in Nat \ {0}, NEW j \in Nat \ {0} PROVE i * j \in Nat \ {0}
          OBVIOUS
        <4> QED
          BY <1>1, <1>3, <4>1
      <3>2. ASSUME NEW i \in Int, NEW j \in Nat \ {0} PROVE i \div j \in Int
        OBVIOUS
      <3>3. (ModelWidth * g.rows) \div (g.columns * spacing) \in Int
        BY <3>1, <3>2
      <3> QED
        BY <3>3
    <2>3. ShapeForSpacing(g, spacing) = <<AtMost(g.rows, AtLeast(2, p)), AtMost(g.columns, AtLeast(2, q))>>
      BY <1>3 DEF ShapeForSpacing
    <2> HIDE DEF p, q
    <2>4. AtMost(g.rows, AtLeast(2, p)) \in 2..g.rows /\ AtMost(g.columns, AtLeast(2, q)) \in 2..g.columns
      BY <2>1, <2>2 DEF AtMost, AtLeast
    <2> QED
      BY <2>3, <2>4
  <1> QED
    BY <1>2, <1>3

\* The limit of cells is what the three budgets allow together.
LEMMA LimitHolds ==
    ASSUME NEW b, b.cells \in CellBudgets, b.memory \in MemoryBudgets, b.triangles \in TriangleBudgets
    PROVE  /\ b.cells \in Nat /\ b.memory \in Nat /\ b.triangles \in Nat /\ CellLimit(b) \in Nat
           /\ \A n \in Nat : n <= CellLimit(b) =>
                 /\ n <= b.cells
                 /\ b.triangles # 0 => 4 * n - 4 <= b.triangles
                 /\ b.memory >= 16 => n <= b.memory
           /\ \A n \in Nat : (/\ n <= b.cells /\ b.memory >= 16 /\ n <= b.memory
                              /\ (b.triangles # 0 => 4 * n - 4 <= b.triangles)) => n <= CellLimit(b)
  <1>1. /\ b.cells \in Nat /\ b.memory \in Nat /\ b.triangles \in Nat
        /\ b.cells >= 16 /\ (b.triangles = 0 \/ b.triangles >= 12)
    BY TerrainAssumption DEF TerrainAssumption
  <1> DEFINE q == (b.triangles + 4) \div 4
  <1>2. q \in Int /\ 4 * q <= b.triangles + 4 /\ b.triangles + 4 < 4 * q + 4
    BY <1>1
  <1>3. CellLimit(b) = AtMost(AtMost(b.cells, AtLeast(16, b.memory)),
                              IF b.triangles = 0 THEN b.cells ELSE AtLeast(4, q))
    BY DEF CellLimit
  <1> HIDE DEF q
  <1> QED
    BY <1>1, <1>2, <1>3 DEF AtMost, AtLeast

-----------------------------------------------------------------------------
(*****************************************************************************)
(* The stages.                                                               *)
(*****************************************************************************)

\* Where there is a grid, where there is a shape of samples, and the grids the
\* stages accept.
Gridded == {"gridded", "filled", "sampled", "scaled", "preflighted", "meshed"}
Sampled == {"sampled", "scaled", "preflighted", "meshed"}
Sized(g) == g.rows \in Nat \ {0, 1} /\ g.columns \in Nat \ {0, 1}
\* What SampleGrid made of the budgets.
BudgetHolds ==
    /\ budget.cells \in Nat /\ budget.memory \in Nat /\ budget.triangles \in Nat
    /\ Affordable(target) \/ target[2] = 2
    /\ budget.memory >= 16 /\ Affordable(budget.wanted) => target = budget.wanted

\* The inductive invariant of the stages.
TerrainInv ==
    /\ gpc \in {"start", "selected", "read", "covered", "refused", "too_high", "accepted", "rejected"}
               \cup Gridded
    /\ gpc \in {"start", "selected", "read"} => cover = Nothing
    /\ gpc = "covered" => Sized(cover) /\ cover.covered \subseteq Cells(cover.rows, cover.columns)
    /\ IF gpc \in Gridded
       THEN Sized(grid) /\ grid.missing \subseteq Cells(grid.rows, grid.columns)
       ELSE grid = Nothing
    /\ IF gpc \in Sampled
       THEN \E x \in 2..grid.rows, y \in 2..grid.columns : target = <<x, y>>
       ELSE target = Nothing
    /\ gpc \in {"sampled", "scaled"} => BudgetHolds
    /\ CropIsLargest

\* The missing samples are cells of the grid.
LEMMA MissingIsOfTheGrid ==
    ASSUME NEW x \in Nat, NEW y \in Nat, NEW missing \in MissingOf(x, y)
    PROVE  missing \subseteq Cells(x, y)
  <1>1. CASE missing = {}
    BY <1>1
  <1>2. CASE missing # {}
    <2>1. PICK f \in [1..MaxMissing -> Cells(x, y)] : missing = Range(f)
      BY <1>2 DEF MissingOf
    <2> QED
      BY <2>1 DEF Range
  <1> QED
    BY <1>1, <1>2

\* The crop to what the source covers is the largest covered rectangle.
LEMMA CropKeeps == ASSUME TerrainInv, CropToSourceCoverage PROVE TerrainInv'
  <1> DEFINE full == [top |-> 0, bottom |-> cover.rows, left |-> 0, right |-> cover.columns]
             crop == IF cover.covered = Cells(cover.rows, cover.columns) THEN full
                     ELSE LargestTrueRectangle(cover)
             rows == crop.bottom - crop.top
             columns == crop.right - crop.left
  <1>1. /\ gpc = "covered" /\ target = Nothing /\ cover.rows \in Nat \ {0, 1} /\ cover.columns \in Nat \ {0, 1}
        /\ cover.covered \subseteq Cells(cover.rows, cover.columns)
    BY DEF CropToSourceCoverage, TerrainInv, Sized, Sampled
  <1>2. /\ crop \in Rectangles
        /\ crop = NoRectangle \/ crop \in RectanglesOf(cover)
        /\ \A b \in RectanglesOf(cover) : RectangleArea(b) <= RectangleArea(crop)
    <2>1. CASE cover.covered = Cells(cover.rows, cover.columns)
      <3>1. crop = full
        BY <2>1
      <3>2. full \in RectanglesOf(cover) /\ full \in Rectangles
        BY <1>1, <2>1 DEF RectanglesOf, Cells, Rectangles
      <3>3. RectangleArea(full) = cover.rows * cover.columns
        BY <1>1 DEF RectangleArea
      <3> HIDE DEF crop, full
      <3>4. ASSUME NEW b \in RectanglesOf(cover) PROVE RectangleArea(b) <= RectangleArea(full)
        <4>1. /\ b.bottom - b.top \in Nat /\ b.bottom - b.top <= cover.rows
              /\ b.right - b.left \in Nat /\ b.right - b.left <= cover.columns
          BY <1>1 DEF RectanglesOf
        <4>2. (b.bottom - b.top) * (b.right - b.left) <= cover.rows * cover.columns
          BY <1>1, <4>1, ProductGrows
        <4> QED
          BY <3>3, <4>2 DEF RectangleArea
      <3> QED
        BY <3>1, <3>2, <3>4
    <2>2. CASE cover.covered # Cells(cover.rows, cover.columns)
      <3>1. crop = LargestTrueRectangle(cover)
        BY <2>2
      <3>2. Covering(cover)
        BY <1>1 DEF Covering
      <3> QED
        BY <3>1, <3>2, LargestHolds
    <2> QED
      BY <2>1, <2>2
  <1>3. IF rows < 2 \/ columns < 2 THEN Refuse
        ELSE /\ gpc' = "gridded" /\ cover' = [rows |-> cover.rows, columns |-> cover.columns,
                                                covered |-> cover.covered, crop |-> crop]
             /\ \E missing \in MissingOf(rows, columns) :
                  grid' = [rows |-> rows, columns |-> columns, missing |-> missing]
             /\ UNCHANGED <<area, budget, target, relief>>
    BY DEF CropToSourceCoverage
  <1> HIDE DEF crop
  <1>4. CASE rows < 2 \/ columns < 2
    <2>1. Refuse
      BY <1>3, <1>4
    <2> QED
      BY <2>1 DEF Refuse, End, TerrainInv, Gridded, Sampled, CropIsLargest
  <1>5. CASE ~(rows < 2 \/ columns < 2)
    <2>1. /\ gpc' = "gridded" /\ cover' = [rows |-> cover.rows, columns |-> cover.columns,
                                             covered |-> cover.covered, crop |-> crop]
          /\ target' = Nothing
      BY <1>1, <1>3, <1>5
    <2>2. PICK missing \in MissingOf(rows, columns) :
            grid' = [rows |-> rows, columns |-> columns, missing |-> missing]
      BY <1>3, <1>5
    <2>3. rows \in Nat \ {0, 1} /\ columns \in Nat \ {0, 1}
      <3>1. rows \in Int /\ columns \in Int
        BY <1>2 DEF Rectangles
      <3> HIDE DEF rows, columns
      <3> QED
        BY <1>5, <3>1
    <2>4. Sized(grid)' /\ (grid.missing \subseteq Cells(grid.rows, grid.columns))'
      <3>1. missing \subseteq Cells(rows, columns)
        BY <2>3, MissingIsOfTheGrid
      <3> HIDE DEF rows, columns
      <3> QED
        BY <2>2, <2>3, <3>1 DEF Sized
    <2>5. crop # NoRectangle
      BY <1>5 DEF NoRectangle
    <2>6. CropIsLargest'
      <3>1. crop \in RectanglesOf(cover) /\ \A b \in RectanglesOf(cover) : RectangleArea(b) <= RectangleArea(crop)
        BY <1>2, <2>5
      <3>2. cover'.crop = crop /\ RectanglesOf(cover') = RectanglesOf(cover)
        BY <2>1 DEF RectanglesOf
      <3>3. CropIsLargest' <=> (cover' # Nothing =>
                /\ cover'.crop \in RectanglesOf(cover')
                /\ \A b \in RectanglesOf(cover') : RectangleArea(b) <= RectangleArea(cover'.crop))
        BY <2>1 DEF CropIsLargest
      <3> QED
        BY <3>1, <3>2, <3>3
    <2> QED
      BY <2>1, <2>4, <2>6 DEF TerrainInv, Gridded, Sampled
  <1> QED
    BY <1>4, <1>5

\* The sampling chooses a shape within the budgets.
LEMMA SampleKeeps == ASSUME TerrainInv, SampleGrid PROVE TerrainInv'
  <1>1. gpc = "filled" /\ grid.rows \in Nat \ {0, 1} /\ grid.columns \in Nat \ {0, 1}
        /\ grid.missing \subseteq Cells(grid.rows, grid.columns)
    BY DEF SampleGrid, TerrainInv, Sized, Gridded
  <1>2. PICK cells \in CellBudgets, memory \in MemoryBudgets, triangles \in TriangleBudgets,
             spacing \in Spacings, strict \in BOOLEAN :
          LET limits == [cells |-> cells, memory |-> memory, triangles |-> triangles]
              wanted == ShapeForSpacing(grid, spacing)
              fitted == FitShapeToBudget(wanted, CellLimit(limits))
          IN IF strict /\ fitted # wanted THEN Refuse
             ELSE /\ gpc' = "sampled" /\ target' = fitted
                  /\ budget' = [cells |-> cells, memory |-> memory, triangles |-> triangles,
                                wanted |-> wanted]
                  /\ UNCHANGED <<area, cover, grid, relief>>
    BY DEF SampleGrid
  <1> DEFINE limits == [cells |-> cells, memory |-> memory, triangles |-> triangles]
             wanted == ShapeForSpacing(grid, spacing)
             limit  == CellLimit(limits)
             fitted == FitShapeToBudget(wanted, limit)
  <1>3. Refuse \/ (/\ gpc' = "sampled" /\ target' = fitted
                   /\ budget' = [cells |-> cells, memory |-> memory, triangles |-> triangles,
                                 wanted |-> wanted]
                   /\ UNCHANGED <<area, cover, grid, relief>>)
    BY <1>2
  <1>4. CASE Refuse
    BY <1>4 DEF Refuse, End, TerrainInv, Gridded, Sampled, CropIsLargest
  <1>5. CASE /\ gpc' = "sampled" /\ target' = fitted
             /\ budget' = [cells |-> cells, memory |-> memory, triangles |-> triangles, wanted |-> wanted]
             /\ UNCHANGED <<area, cover, grid, relief>>
    <2>1. limits.cells = cells /\ limits.memory = memory /\ limits.triangles = triangles
      OBVIOUS
    <2> HIDE DEF limits
    <2>2. /\ cells \in Nat /\ memory \in Nat /\ triangles \in Nat /\ limit \in Nat
          /\ \A n \in Nat : n <= limit =>
                 /\ n <= cells
                 /\ triangles # 0 => 4 * n - 4 <= triangles
                 /\ memory >= 16 => n <= memory
          /\ \A n \in Nat : (/\ n <= cells /\ memory >= 16 /\ n <= memory
                             /\ (triangles # 0 => 4 * n - 4 <= triangles)) => n <= limit
      BY <2>1, LimitHolds
    <2>3. PICK p \in 2..grid.rows, q \in 2..grid.columns : wanted = <<p, q>>
      BY <1>1, SpacingHolds
    <2> HIDE DEF limit, wanted
    <2>4. p \in Nat \ {0, 1} /\ q \in Nat \ {0, 1} /\ p <= grid.rows /\ q <= grid.columns
      BY <1>1
    <2>5. /\ fitted[1] \in 2..p /\ fitted[2] \in 2..q
          /\ fitted[1] * fitted[2] <= limit \/ fitted[2] = 2
          /\ p * q <= limit => fitted = <<p, q>>
      BY <2>2, <2>3, <2>4, FitHolds
    <2>6. fitted = <<fitted[1], fitted[2]>>
      <3>1. CASE p * q <= limit
        <4>1. fitted = <<p, q>>
          BY <3>1, <2>5
        <4> HIDE DEF fitted
        <4>2. fitted[1] = p /\ fitted[2] = q
          BY <4>1
        <4> QED
          BY <4>1, <4>2
      <3>2. CASE ~(p * q <= limit)
        <4> DEFINE a == Reduced(p, q, limit)
                   b == Reduced(q, p, limit)
        <4>1. a \in 2..p
          BY <2>2, <2>4, <3>2, ReducedInRange
        <4>2. b \in 2..q
          <5>1. ~(q * p <= limit)
            BY <3>2, <2>4
          <5> QED
            BY <2>2, <2>4, <5>1, ReducedInRange
        <4>3. fitted = Shrunk(<<a, b>>, <<p, q>>, limit)
          BY <2>3, <3>2 DEF FitShapeToBudget
        <4> HIDE DEF a, b, fitted
        <4>4. a \in Nat \ {0, 1} /\ b \in Nat \ {0, 1}
          BY <4>1, <4>2
        <4>5. fitted \in (2..a) \X (2..b)
          BY <2>2, <4>3, <4>4, ShrunkHolds
        <4> QED
          BY <4>5
      <3> QED
        BY <3>1, <3>2
    <2> DEFINE n == fitted[1] * fitted[2]
    <2> HIDE DEF fitted
    <2>7. fitted[1] \in Nat /\ fitted[2] \in Nat /\ n \in Nat /\ p * q \in Nat
      <3>1. ASSUME NEW i \in Nat, NEW j \in Nat PROVE i * j \in Nat
        OBVIOUS
      <3>2. fitted[1] \in Nat /\ fitted[2] \in Nat
        BY <2>4, <2>5
      <3> QED
        BY <3>1, <3>2, <2>4
    <2>8. \E x \in 2..grid.rows, y \in 2..grid.columns : fitted = <<x, y>>
      <3>1. fitted[1] \in 2..grid.rows /\ fitted[2] \in 2..grid.columns
        BY <1>1, <2>4, <2>5
      <3> QED
        BY <3>1, <2>6
    <2>9. /\ budget'.cells = cells /\ budget'.memory = memory /\ budget'.triangles = triangles
          /\ budget'.wanted = <<p, q>> /\ target' = fitted
      BY <1>5, <2>3
    <2>10. BudgetHolds'
      <3>1. Affordable(target)' <=>
              /\ n <= cells
              /\ triangles # 0 => 4 * fitted[1] * fitted[2] - 4 <= triangles
              /\ memory >= 16 => n <= memory
        BY <2>9 DEF Affordable, TriangleCount
      <3>2. Affordable(budget.wanted)' <=>
              /\ p * q <= cells
              /\ triangles # 0 => 4 * p * q - 4 <= triangles
              /\ memory >= 16 => p * q <= memory
        BY <2>9 DEF Affordable, TriangleCount
      <3>3. 4 * fitted[1] * fitted[2] = 4 * n /\ 4 * p * q = 4 * (p * q)
        BY <2>7, <2>4
      <3>8. n = fitted[1] * fitted[2]
        OBVIOUS
      <3> HIDE DEF n
      <3>4. n <= limit => Affordable(target)'
        BY <2>2, <2>7, <3>1, <3>3
      <3>5. memory >= 16 /\ Affordable(budget.wanted)' => p * q <= limit
        <4> DEFINE w == p * q
        <4>1. /\ w \in Nat /\ 4 * p * q = 4 * w
              /\ Affordable(budget.wanted)' <=>
                    /\ w <= cells
                    /\ triangles # 0 => 4 * p * q - 4 <= triangles
                    /\ memory >= 16 => w <= memory
          BY <2>7, <3>2, <3>3
        <4> HIDE DEF w
        <4>2. memory >= 16 /\ Affordable(budget.wanted)' => w <= limit
          BY <2>2, <4>1
        <4> QED
          BY <4>2 DEF w
      <3>6. Affordable(target)' \/ target'[2] = 2
        BY <2>5, <2>9, <3>4, <3>8
      <3>7. memory >= 16 /\ Affordable(budget.wanted)' => target' = budget'.wanted
        BY <2>5, <2>9, <3>5
      <3> QED
        BY <2>2, <2>9, <3>6, <3>7 DEF BudgetHolds
    <2>11. gpc' = "sampled" /\ grid' = grid
      BY <1>5
    <2>12. (\E x \in 2..grid.rows, y \in 2..grid.columns : target = <<x, y>>)'
      BY <2>8, <2>9, <2>11
    <2> QED
      BY <1>1, <2>10, <2>11, <2>12 DEF TerrainInv, Gridded, Sampled, CropIsLargest, Sized
  <1> QED
    BY <1>3, <1>4, <1>5

\* Every stage keeps the invariant; only the crop and the sampling need more than
\* a look at what they assign.
LEMMA TerrainStep == TerrainInv /\ [TerrainNext]_terrainVars => TerrainInv'
  <1> SUFFICES ASSUME TerrainInv, [TerrainNext]_terrainVars PROVE TerrainInv'
    OBVIOUS
  <1>1. CASE SelectArea
    <2>1. gpc = "start" /\ gpc' \in {"selected", "refused"} /\ UNCHANGED <<cover, grid, budget, target>>
      BY <1>1 DEF SelectArea
    <2> QED
      BY <2>1 DEF TerrainInv, Gridded, Sampled, CropIsLargest
  <1>2. CASE Refuse
    BY <1>2 DEF Refuse, End, TerrainInv, Gridded, Sampled, CropIsLargest
  <1>3. CASE ReadRaster
    <2>1. CASE ~Refuse
      <3>1. gpc = "selected" /\ gpc' = "read" /\ UNCHANGED <<cover, grid, budget, target>>
        BY <1>3, <2>1 DEF ReadRaster
      <3> QED
        BY <3>1 DEF TerrainInv, Gridded, Sampled, CropIsLargest
    <2> QED
      BY <1>2, <2>1
  <1>4. CASE KeepMetricGrid
    <2>1. gpc = "read" /\ gpc' = "gridded" /\ UNCHANGED <<cover, target>>
      BY <1>4 DEF KeepMetricGrid
    <2>2. PICK rows \in GridSides, columns \in GridSides : \E missing \in MissingOf(rows, columns) :
            grid' = [rows |-> rows, columns |-> columns, missing |-> missing]
      BY <1>4 DEF KeepMetricGrid
    <2>3. PICK missing \in MissingOf(rows, columns) :
            grid' = [rows |-> rows, columns |-> columns, missing |-> missing]
      BY <2>2
    <2>4. rows \in Nat \ {0, 1} /\ columns \in Nat \ {0, 1}
      BY TerrainAssumption DEF TerrainAssumption
    <2>5. missing \subseteq Cells(rows, columns)
      BY <2>4, MissingIsOfTheGrid
    <2>6. cover = Nothing /\ target = Nothing
      BY <2>1 DEF TerrainInv, Sampled
    <2>7. Sized(grid)' /\ (grid.missing \subseteq Cells(grid.rows, grid.columns))'
      BY <2>3, <2>4, <2>5 DEF Sized
    <2> QED
      BY <2>1, <2>6, <2>7 DEF TerrainInv, Gridded, Sampled, CropIsLargest
  <1>5. CASE Reproject
    <2>1. gpc = "read" /\ gpc' = "covered" /\ UNCHANGED <<grid, target>>
      BY <1>5 DEF Reproject
    <2>2. PICK rows \in CoverSides, columns \in CoverSides : \E covered \in SUBSET Cells(rows, columns) :
            cover' = [rows |-> rows, columns |-> columns, covered |-> covered]
      BY <1>5 DEF Reproject
    <2>3. PICK covered \in SUBSET Cells(rows, columns) :
            cover' = [rows |-> rows, columns |-> columns, covered |-> covered]
      BY <2>2
    <2>4. rows \in Nat \ {0, 1} /\ columns \in Nat \ {0, 1}
      BY TerrainAssumption DEF TerrainAssumption
    <2>5. Sized(cover)' /\ (cover.covered \subseteq Cells(cover.rows, cover.columns))'
      BY <2>3, <2>4 DEF Sized
    <2> QED
      BY <2>1, <2>5 DEF TerrainInv, Gridded, Sampled, CropIsLargest
  <1>6. CASE CropToSourceCoverage
    BY <1>6, CropKeeps
  <1>7. CASE FillSmallNodata
    <2>1. CASE ~Refuse
      <3>1. gpc = "gridded" /\ gpc' = "filled" /\ UNCHANGED <<grid, target>>
        BY <1>7, <2>1 DEF FillSmallNodata
      <3> QED
        BY <3>1 DEF TerrainInv, Gridded, Sampled, CropIsLargest, Sized
    <2> QED
      BY <1>2, <2>1
  <1>8. CASE SampleGrid
    BY <1>8, SampleKeeps
  <1>9. CASE ResolveScaling
    <2>1. gpc = "sampled"
      BY <1>9 DEF ResolveScaling
    <2>2. Refuse \/ End("too_high") \/ (gpc' = "scaled" /\ UNCHANGED <<area, cover, grid, budget, target>>)
      BY <1>9 DEF ResolveScaling
    <2>3. CASE End("too_high")
      BY <2>3 DEF End, TerrainInv, Gridded, Sampled, CropIsLargest
    <2>4. CASE gpc' = "scaled" /\ UNCHANGED <<area, cover, grid, budget, target>>
      <3>1. BudgetHolds'
        BY <2>1, <2>4 DEF TerrainInv, BudgetHolds, Affordable
      <3> QED
        BY <2>1, <2>4, <3>1 DEF TerrainInv, Gridded, Sampled, CropIsLargest, Sized
    <2> QED
      BY <1>2, <2>2, <2>3, <2>4
  <1>10. CASE Preflight
    <2>1. CASE ~Refuse
      <3>1. gpc = "scaled" /\ gpc' = "preflighted" /\ UNCHANGED <<grid, target>>
        BY <1>10, <2>1 DEF Preflight
      <3> QED
        BY <3>1 DEF TerrainInv, Gridded, Sampled, CropIsLargest, Sized
    <2> QED
      BY <1>2, <2>1
  <1>11. CASE BuildMesh
    BY <1>11 DEF BuildMesh, TerrainInv, Gridded, Sampled, CropIsLargest, Sized
  <1>12. CASE VerifyMask
    <2>1. PICK how \in {"accepted", "rejected"} : End(how)
      BY <1>12 DEF VerifyMask
    <2> QED
      BY <2>1 DEF End, TerrainInv, Gridded, Sampled, CropIsLargest
  <1>13. CASE UNCHANGED terrainVars
    <2>1. BudgetHolds' <=> BudgetHolds
      BY <1>13 DEF terrainVars, BudgetHolds, Affordable
    <2>2. CropIsLargest' <=> CropIsLargest
      BY <1>13 DEF terrainVars, CropIsLargest
    <2> QED
      BY <1>13, <2>1, <2>2 DEF terrainVars, TerrainInv, Sized
  <1> QED
    BY <1>1, <1>3, <1>4, <1>5, <1>6, <1>7, <1>8, <1>9, <1>10, <1>11, <1>12, <1>13 DEF TerrainNext

\* What the invariant says of the samples and the crop is what is promised of them.
LEMMA GridIsWithinBudgets == ASSUME TerrainInv PROVE TerrainTypeOK /\ SamplesFitBudgets /\ CropIsLargest
  <1>1. ASSUME gpc \in Sampled PROVE target[1] \in 2..grid.rows /\ target[2] \in 2..grid.columns
        /\ grid.rows \in Nat /\ grid.columns \in Nat
    BY <1>1 DEF TerrainInv, Gridded, Sampled, Sized
  <1>2. TerrainTypeOK
    <2>1. target = Nothing \/ (target[1] \in Nat /\ target[2] \in Nat)
      <3>1. CASE gpc \in Sampled
        BY <1>1, <3>1
      <3>2. CASE gpc \notin Sampled
        BY <3>2 DEF TerrainInv
      <3> QED
        BY <3>1, <3>2
    <2>2. grid = Nothing \/ grid.missing \subseteq Cells(grid.rows, grid.columns)
      BY DEF TerrainInv
    <2>3. gpc \in {"start", "selected", "read", "covered", "gridded", "filled", "sampled", "scaled",
                   "preflighted", "meshed", "refused", "too_high", "accepted", "rejected"}
      BY DEF TerrainInv, Gridded
    <2> QED
      BY <2>1, <2>2, <2>3 DEF TerrainTypeOK
  <1>3. SamplesFitBudgets
    BY <1>1 DEF SamplesFitBudgets, TerrainInv, BudgetHolds, Sampled
  <1> QED
    BY <1>2, <1>3 DEF TerrainInv

\* A build that passed the gates before the mesh is refused by no gate after it.
LEMMA GatesHold == ASSUME TerrainInv, ScaleInv PROVE GatesFailForCause
  <1> SUFFICES ASSUME gpc = "scaled", NEW g \in DOMAIN Gates
               PROVE  Gates[g] \/ (g = "memory" /\ budget.memory < 16) \/ (g # "height" /\ target[2] = 2)
    BY DEF GatesFailForCause
  <1>1. PICK x \in 2..grid.rows, y \in 2..grid.columns : target = <<x, y>>
    BY DEF TerrainInv, Sampled
  <1>2. x \in Nat /\ y \in Nat /\ target[1] = x /\ target[2] = y
    BY <1>1 DEF TerrainInv, Gridded, Sized
  <1>3. BudgetHolds
    BY DEF TerrainInv
  <1>4. g \in {"cells", "triangles", "memory", "height"}
    BY DEF Gates
  <1> DEFINE n == x * y
  <1>5. n \in Nat /\ 4 * x * y - 4 = 4 * n - 4 /\ n = target[1] * target[2] /\ TriangleCount(target) = 4 * n - 4
    BY <1>2 DEF TriangleCount
  <1>6. /\ Gates.cells = (target[1] * target[2] <= budget.cells)
        /\ Gates.triangles = (TriangleCount(target) <=
                (IF budget.triangles = 0 THEN 4 * budget.cells - 4 ELSE budget.triangles))
        /\ Gates.memory = (target[1] * target[2] <= budget.memory)
        /\ Gates.height = (ModelHeight(relief, relief.high) <= HeightLimit * relief.scale[2])
    BY DEF Gates
  <1> HIDE DEF n
  <1>7. /\ n <= budget.cells => Gates.cells
        /\ 4 * n - 4 <= (IF budget.triangles = 0 THEN 4 * budget.cells - 4 ELSE budget.triangles)
              => Gates.triangles
        /\ n <= budget.memory => Gates.memory
        /\ Gates.height
    BY <1>5, <1>6 DEF ScaleInv
  <1>8. budget.cells \in Nat /\ budget.memory \in Nat /\ budget.triangles \in Nat
    BY <1>3 DEF BudgetHolds
  <1>9. target[2] = 2 \/ (/\ n <= budget.cells
                          /\ budget.triangles # 0 => 4 * n - 4 <= budget.triangles
                          /\ budget.memory >= 16 => n <= budget.memory)
    BY <1>3, <1>5 DEF BudgetHolds, Affordable
  <1>10. CASE target[2] = 2
    BY <1>4, <1>7, <1>10
  <1>11. CASE target[2] # 2
    <2>1. Gates.cells /\ Gates.triangles /\ (Gates.memory \/ budget.memory < 16)
      BY <1>5, <1>7, <1>8, <1>9, <1>11
    <2> QED
      BY <1>4, <1>7, <2>1
  <1> QED
    BY <1>10, <1>11

-----------------------------------------------------------------------------
(*****************************************************************************)
(* The area of interest.                                                     *)
(*                                                                           *)
(* A longitude is a whole number of turns from where a column shows it; a    *)
(* column is in the window of a part if and only if it touches the part. So  *)
(* the columns read are those that touch what was asked for, whichever way   *)
(* the windows were joined, and the rest is arithmetic of remainders.        *)
(*****************************************************************************)

\* Two longitudes a whole number of turns apart.
Same(x, y) == \E n \in Int : x = y + n * Turn

\* Where there is a request, a turn has two longitudes at least.
LEMMA TurnIsWhole == ASSUME AreaRequests # {} PROVE HalfTurn \in Nat \ {0} /\ Turn \in Nat \ {0, 1} /\ Turn = 2 * HalfTurn
  <1>1. HalfTurn \in Nat /\ HalfTurn # 0
    BY TerrainAssumption DEF AreaRequests
  <1> QED
    BY <1>1 DEF Turn

\* Division with a positive divisor.
LEMMA Rest ==
    ASSUME NEW a \in Int, NEW b \in Nat \ {0}
    PROVE  /\ a \div b \in Int /\ a % b \in 0..b - 1
           /\ a = (a \div b) * b + (a % b)
  <1>1. a \div b \in Int
    OBVIOUS
  <1>2. a % b \in 0..b - 1
    OBVIOUS
  <1>3. a % b = a - b * (a \div b)
    OBVIOUS
  <1>4. ASSUME NEW d \in Int, NEW m \in Nat, m = a - b * d
        PROVE  a = d * b + m
    BY <1>4
  <1>5. a = (a \div b) * b + (a % b)
    BY <1>1, <1>2, <1>3, <1>4
  <1> QED
    BY <1>1, <1>2, <1>5

\* No multiple of m but 0 lies strictly between -m and m.
LEMMA MultipleIsNone ==
    ASSUME NEW m \in Nat, NEW n \in Int, -m < n * m, n * m < m
    PROVE  n = 0
  <1>1. n >= 1 => n * m >= m
    OBVIOUS
  <1>2. n <= -1 => n * m <= -m
    OBVIOUS
  <1> QED
    BY <1>1, <1>2

\* The remainder is determined by the equation it satisfies.
LEMMA RestIs ==
    ASSUME NEW m \in Nat \ {0}, NEW x \in Int, NEW r \in 0..m - 1, NEW n \in Int, x = r + n * m
    PROVE  x % m = r
  <1> DEFINE d == x \div m
             s == x % m
  <1>1. d \in Int /\ s \in 0..m - 1 /\ x = d * m + s
    BY Rest
  <1> HIDE DEF d, s
  <1>2. (d - n) * m = r - s
    <2>1. d * m \in Int /\ n * m \in Int /\ (d - n) * m = d * m - n * m
      BY <1>1
    <2> QED
      BY <1>1, <2>1
  <1>3. d - n \in Int /\ -m < (d - n) * m /\ (d - n) * m < m
    BY <1>1, <1>2
  <1>4. d - n = 0
    BY <1>3, MultipleIsNone
  <1>5. (d - n) * m = 0
    BY <1>4
  <1> QED
    BY <1>1, <1>2, <1>5 DEF s

\* Longitudes are shown as the same if and only if they are whole turns apart.
LEMMA SameRest ==
    ASSUME NEW x \in Int, NEW y \in Int, Turn \in Nat \ {0, 1}
    PROVE  x % Turn = y % Turn <=> Same(x, y)
  <1> DEFINE m == Turn
             d == x \div m
             s == x % m
             e == y \div m
             t == y % m
  <1>1. m \in Nat \ {0}
    OBVIOUS
  <1> HIDE DEF m
  <1>2. d \in Int /\ s \in 0..m - 1 /\ x = d * m + s
    BY <1>1, Rest
  <1>3. e \in Int /\ t \in 0..m - 1 /\ y = e * m + t
    BY <1>1, Rest
  <1> HIDE DEF d, s, e, t
  <1>4. ASSUME s = t PROVE \E n \in Int : x = y + n * m
    <2>1. d * m \in Int /\ e * m \in Int /\ (d - e) * m = d * m - e * m
      BY <1>1, <1>2, <1>3
    <2>2. d - e \in Int /\ x = y + (d - e) * m
      BY <1>2, <1>3, <1>4, <2>1
    <2> QED
      BY <2>2
  <1>5. ASSUME NEW n \in Int, x = y + n * m PROVE s = t
    <2>1. e * m \in Int /\ n * m \in Int /\ (e + n) * m = e * m + n * m
      BY <1>1, <1>3
    <2>2. e + n \in Int /\ x = t + (e + n) * m
      BY <1>3, <1>5, <2>1
    <2>3. x % m = t
      BY <2>2, <1>1, <1>3, RestIs
    <2> QED
      BY <2>3 DEF s
  <1>6. s = t <=> \E n \in Int : x = y + n * m
    BY <1>4, <1>5
  <1> QED
    BY <1>6 DEF s, t, m, Same

\* A longitude one further is shown one further, or at the beginning again.
LEMMA NextRest ==
    ASSUME NEW x \in Int, NEW y \in Int, Turn \in Nat \ {0, 1}, Same(y, x + 1)
    PROVE  /\ ((y % Turn) - (x % Turn)) % Turn = 1
           /\ ((x % Turn) - (y % Turn)) % Turn = Turn - 1
  <1> DEFINE m == Turn
             d == x \div m
             s == x % m
             e == y \div m
             t == y % m
  <1>1. m \in Nat \ {0, 1}
    OBVIOUS
  <1>7. PICK n \in Int : y = x + 1 + n * m
    BY DEF Same
  <1> HIDE DEF m
  <1>2. d \in Int /\ s \in 0..m - 1 /\ x = d * m + s
    BY <1>1, Rest
  <1>3. e \in Int /\ t \in 0..m - 1 /\ y = e * m + t
    BY <1>1, Rest
  <1> HIDE DEF d, s, e, t
  <1>4. d * m \in Int /\ e * m \in Int /\ n * m \in Int /\ (n + d - e) * m = n * m + d * m - e * m
        /\ (-(n + d - e) - 1) * m = -(n * m) - d * m + e * m - m
    BY <1>1, <1>2, <1>3
  <1>5. t - s \in Int /\ 1 \in 0..m - 1 /\ n + d - e \in Int /\ t - s = 1 + (n + d - e) * m
    BY <1>1, <1>2, <1>3, <1>7, <1>4
  <1>6. s - t \in Int /\ m - 1 \in 0..m - 1 /\ -(n + d - e) - 1 \in Int
        /\ s - t = (m - 1) + (-(n + d - e) - 1) * m
    BY <1>1, <1>2, <1>3, <1>7, <1>4
  <1>8. (t - s) % m = 1
    BY <1>1, <1>5, RestIs
  <1>9. (s - t) % m = m - 1
    <2> DEFINE c == -(n + d - e) - 1
               r == m - 1
    <2>1. s - t \in Int /\ r \in 0..m - 1 /\ c \in Int /\ s - t = r + c * m
      BY <1>6
    <2> HIDE DEF c, r
    <2>2. (s - t) % m = r
      BY <1>1, <2>1, RestIs
    <2> QED
      BY <2>2 DEF r
  <1> QED
    BY <1>8, <1>9 DEF s, t, m

\* A source, and the longitude a column of it begins at.
IsASource(s) ==
    /\ s.left \in Int /\ s.left >= -Turn /\ s.width \in Nat \ {0} /\ s.step \in Nat \ {0}
    /\ s.mirrored \in BOOLEAN /\ s.width * s.step \in Nat /\ s.width * s.step <= Turn
West(s, k) == IF s.mirrored THEN RightEdge(s) - (k + 1) * s.step ELSE s.left + k * s.step

\* A column shows some longitude of a part.
Touches(s, k, part) == West(s, k) < part.east /\ part.west < West(s, k) + s.step

\* What is known of a source.
LEMMA SourceFacts ==
    ASSUME NEW s \in AreaSources, Turn \in Nat
    PROVE  IsASource(s)
  <1>1. PICK l \in Lefts : s.left = l - Turn
    BY DEF AreaSources
  <1>2. l \in Nat /\ s.width \in Nat \ {0} /\ s.step \in Nat \ {0} /\ s.mirrored \in BOOLEAN
    BY TerrainAssumption DEF AreaSources
  <1>3. s.width * s.step \in Nat
    BY <1>2
  <1>4. s.width * s.step <= Turn
    BY DEF AreaSources
  <1> QED
    BY <1>1, <1>2, <1>3, <1>4 DEF IsASource

\* A column of a raster lies within it.
LEMMA ColumnsFit ==
    ASSUME NEW w \in Nat \ {0}, NEW t \in Nat \ {0}, NEW k \in 0..w - 1
    PROVE  k * t \in Nat /\ (k + 1) * t \in Nat /\ (k + 1) * t = k * t + t /\ (k + 1) * t <= w * t
  <1>1. k * t \in Nat /\ (k + 1) * t \in Nat /\ (k + 1) * t = k * t + t
    OBVIOUS
  <1>2. (w - (k + 1)) * t >= 0
    OBVIOUS
  <1>3. (w - (k + 1)) * t = w * t - (k + 1) * t
    OBVIOUS
  <1> QED
    BY <1>1, <1>2, <1>3

\* A later column begins at least a step further.
LEMMA Further ==
    ASSUME NEW t \in Nat \ {0}, NEW k \in Int, NEW l \in Int, k < l
    PROVE  k * t \in Int /\ l * t \in Int /\ k * t + t <= l * t
  <1>1. (l - k - 1) * t >= 0
    OBVIOUS
  <1>2. (l - k - 1) * t = l * t - k * t - t
    OBVIOUS
  <1> QED
    BY <1>1, <1>2

\* A column of a source lies between its edges.
LEMMA WestOf ==
    ASSUME NEW s, IsASource(s), NEW k \in 0..s.width - 1
    PROVE  /\ West(s, k) \in Int /\ s.left <= West(s, k) /\ West(s, k) + s.step <= RightEdge(s)
           /\ RightEdge(s) \in Int /\ RightEdge(s) = s.left + s.width * s.step
  <1>1. /\ k * s.step \in Nat /\ (k + 1) * s.step \in Nat /\ (k + 1) * s.step = k * s.step + s.step
        /\ (k + 1) * s.step <= s.width * s.step
    BY ColumnsFit DEF IsASource
  <1>2. RightEdge(s) = s.left + s.width * s.step /\ RightEdge(s) \in Int
    BY DEF RightEdge, IsASource
  <1> QED
    BY <1>1, <1>2 DEF West, IsASource

\* Two columns begin at least a step apart ...
LEMMA WestsApart ==
    ASSUME NEW s, IsASource(s), NEW k \in Int, NEW l \in Int, k # l
    PROVE  /\ West(s, k) \in Int /\ West(s, l) \in Int
           /\ West(s, k) + s.step <= West(s, l) \/ West(s, l) + s.step <= West(s, k)
  <1>1. CASE k < l
    <2>1. k * s.step \in Int /\ l * s.step \in Int /\ k * s.step + s.step <= l * s.step
      BY <1>1, Further DEF IsASource
    <2>2. k + 1 \in Int /\ l + 1 \in Int /\ k + 1 < l + 1
      BY <1>1
    <2>3. (k + 1) * s.step \in Int /\ (l + 1) * s.step \in Int
          /\ (k + 1) * s.step + s.step <= (l + 1) * s.step
      BY <2>2, Further DEF IsASource
    <2>4. RightEdge(s) \in Int
      BY DEF RightEdge, IsASource
    <2> QED
      BY <2>1, <2>3, <2>4 DEF West, IsASource
  <1>2. CASE l < k
    <2>1. k * s.step \in Int /\ l * s.step \in Int /\ l * s.step + s.step <= k * s.step
      BY <1>2, Further DEF IsASource
    <2>2. k + 1 \in Int /\ l + 1 \in Int /\ l + 1 < k + 1
      BY <1>2
    <2>3. (k + 1) * s.step \in Int /\ (l + 1) * s.step \in Int
          /\ (l + 1) * s.step + s.step <= (k + 1) * s.step
      BY <2>2, Further DEF IsASource
    <2>4. RightEdge(s) \in Int
      BY DEF RightEdge, IsASource
    <2> QED
      BY <2>1, <2>3, <2>4 DEF West, IsASource
  <1> QED
    BY <1>1, <1>2

\* ... and neighbours exactly one, to the west in a mirrored source.
LEMMA NextWest ==
    ASSUME NEW s, IsASource(s), NEW k \in Int
    PROVE  West(s, k + 1) = IF s.mirrored THEN West(s, k) - s.step ELSE West(s, k) + s.step
  <1>1. (k + 1) * s.step = k * s.step + s.step /\ (k + 1 + 1) * s.step = (k + 1) * s.step + s.step
        /\ k * s.step \in Int /\ (k + 1) * s.step \in Int /\ RightEdge(s) \in Int
    BY DEF IsASource, RightEdge
  <1> QED
    BY <1>1 DEF West, IsASource

\* The longitudes a column shows.
LEMMA Shown ==
    ASSUME NEW s, NEW k
    PROVE  LongitudesOf(s, k) = {x % Turn : x \in West(s, k)..West(s, k) + s.step - 1}
  BY DEF LongitudesOf, West

\* No two columns of a source show the same longitude: it is at most a turn wide.
LEMMA ColumnsApart ==
    ASSUME NEW s, IsASource(s), Turn \in Nat \ {0, 1},
           NEW k \in 0..s.width - 1, NEW l \in 0..s.width - 1, k # l
    PROVE  LongitudesOf(s, k) \cap LongitudesOf(s, l) = {}
  <1> SUFFICES ASSUME NEW x \in West(s, k)..West(s, k) + s.step - 1,
                      NEW y \in West(s, l)..West(s, l) + s.step - 1, x % Turn = y % Turn
               PROVE  FALSE
    BY Shown
  <1>1. /\ West(s, k) \in Int /\ s.left <= West(s, k) /\ West(s, k) + s.step <= RightEdge(s)
        /\ West(s, l) \in Int /\ s.left <= West(s, l) /\ West(s, l) + s.step <= RightEdge(s)
        /\ RightEdge(s) \in Int /\ RightEdge(s) = s.left + s.width * s.step
    BY WestOf
  <1>2. West(s, k) + s.step <= West(s, l) \/ West(s, l) + s.step <= West(s, k)
    BY WestsApart
  <1>3. x \in Int /\ y \in Int /\ x # y /\ x - y < Turn /\ -Turn < x - y
    BY <1>1, <1>2 DEF IsASource
  <1>4. PICK n \in Int : x = y + n * Turn
    BY <1>3, SameRest DEF Same
  <1>5. n * Turn \in Int /\ -Turn < n * Turn /\ n * Turn < Turn
    BY <1>3, <1>4
  <1>6. n = 0
    BY <1>5, MultipleIsNone
  <1> QED
    BY <1>3, <1>4, <1>6

\* Rounding down, by what it is at most.
LEMMA FloorAtMost ==
    ASSUME NEW a \in Int, NEW b \in Nat \ {0}, NEW k \in Int
    PROVE  a \div b <= k <=> a < (k + 1) * b
  <1> DEFINE d == a \div b
             m == a % b
  <1>1. d \in Int /\ m \in 0..b - 1 /\ a = d * b + m
    BY Rest
  <1> HIDE DEF d, m
  <1>2. ASSUME d <= k PROVE a < (k + 1) * b
    <2>1. d < k + 1 /\ k + 1 \in Int
      BY <1>1, <1>2
    <2>2. d * b \in Int /\ (k + 1) * b \in Int /\ d * b + b <= (k + 1) * b
      BY <1>1, <2>1, Further
    <2> QED
      BY <1>1, <2>2
  <1>3. ASSUME k < d PROVE (k + 1) * b <= a
    <2>1. k * b \in Int /\ d * b \in Int /\ k * b + b <= d * b /\ (k + 1) * b = k * b + b
      BY <1>1, <1>3, Further
    <2> QED
      BY <1>1, <2>1
  <1>4. (k + 1) * b \in Int
    OBVIOUS
  <1>5. d <= k <=> a < (k + 1) * b
    BY <1>1, <1>2, <1>3, <1>4
  <1> QED
    BY <1>5 DEF d

\* Rounding up, by what lies below it.
LEMMA BelowCeiling ==
    ASSUME NEW a \in Int, NEW b \in Nat \ {0}, NEW k \in Int
    PROVE  UpDiv(a, b) \in Int /\ (k < UpDiv(a, b) <=> k * b < a)
  <1> DEFINE d == (-a) \div b
             l == -k - 1
  <1>1. -a \in Int /\ l \in Int /\ d \in Int
    OBVIOUS
  <1>2. d <= l <=> -a < (l + 1) * b
    BY <1>1, FloorAtMost
  <1>3. (l + 1) * b = -(k * b) /\ k * b \in Int
    OBVIOUS
  <1>4. UpDiv(a, b) = -d
    BY DEF UpDiv
  <1> HIDE DEF d
  <1>5. k < -d <=> d <= l
    BY <1>1
  <1> QED
    BY <1>1, <1>2, <1>3, <1>4, <1>5

\* The window of a part holds the columns that touch it, mirrored or not.
LEMMA InWindow ==
    ASSUME NEW s, IsASource(s), NEW part, part.west \in Int, part.east \in Int
    PROVE  LET w == WindowOf(s, part) IN
           /\ w.from \in Int /\ w.to \in Int
           /\ \A k \in Int : (w.from <= k /\ k < w.to) <=> Touches(s, k, part)
  <1> DEFINE w == WindowOf(s, part)
             t == s.step
             R == RightEdge(s)
  <1>1. t \in Nat \ {0} /\ R \in Int /\ s.left \in Int /\ s.mirrored \in BOOLEAN
    BY DEF IsASource, RightEdge
  <1>2. ASSUME NEW k \in Int PROVE k * t \in Int /\ (k + 1) * t \in Int /\ (k + 1) * t = k * t + t
    BY <1>1
  <1>3. CASE s.mirrored
    <2> DEFINE a == R - part.east
               b == R - part.west
    <2>1. w.from = a \div t /\ w.to = UpDiv(b, t)
      BY <1>3 DEF WindowOf
    <2>2. a \in Int /\ b \in Int
      BY <1>1
    <2>3. w.from \in Int /\ w.to \in Int
      <3>1. UpDiv(b, t) \in Int
        BY <2>2, <1>1, BelowCeiling, 0 \in Int
      <3>2. a \div t \in Int
        BY <2>2, <1>1, Rest
      <3> QED
        BY <2>1, <3>1, <3>2
    <2>4. ASSUME NEW k \in Int PROVE (w.from <= k /\ k < w.to) <=> Touches(s, k, part)
      <3>1. w.from <= k <=> a < (k + 1) * t
        BY <2>1, <2>2, <1>1, FloorAtMost
      <3>2. k < w.to <=> k * t < b
        BY <2>1, <2>2, <1>1, BelowCeiling
      <3>3. West(s, k) = R - (k + 1) * t
        BY <1>3 DEF West
      <3>4. (a < (k + 1) * t <=> West(s, k) < part.east) /\ (k * t < b <=> part.west < West(s, k) + t)
        <4> HIDE DEF R, t, w
        <4> QED
          BY <1>1, <1>2, <3>3
      <3> QED
        BY <3>1, <3>2, <3>4 DEF Touches
    <2> QED
      BY <2>3, <2>4
  <1>4. CASE ~ s.mirrored
    <2> DEFINE a == part.west - s.left
               b == part.east - s.left
    <2>1. w.from = a \div t /\ w.to = UpDiv(b, t)
      BY <1>4 DEF WindowOf
    <2>2. a \in Int /\ b \in Int
      BY <1>1
    <2>3. w.from \in Int /\ w.to \in Int
      <3>1. UpDiv(b, t) \in Int
        BY <2>2, <1>1, BelowCeiling, 0 \in Int
      <3>2. a \div t \in Int
        BY <2>2, <1>1, Rest
      <3> QED
        BY <2>1, <3>1, <3>2
    <2>4. ASSUME NEW k \in Int PROVE (w.from <= k /\ k < w.to) <=> Touches(s, k, part)
      <3>1. w.from <= k <=> a < (k + 1) * t
        BY <2>1, <2>2, <1>1, FloorAtMost
      <3>2. k < w.to <=> k * t < b
        BY <2>1, <2>2, <1>1, BelowCeiling
      <3>3. West(s, k) = s.left + k * t
        BY <1>4 DEF West
      <3>4. (a < (k + 1) * t <=> part.west < West(s, k) + t) /\ (k * t < b <=> West(s, k) < part.east)
        <4> HIDE DEF R, t, w
        <4> QED
          BY <1>1, <1>2, <3>3
      <3> QED
        BY <3>1, <3>2, <3>4 DEF Touches
    <2> QED
      BY <2>3, <2>4
  <1> QED
    BY <1>1, <1>3, <1>4

\* The columns a window reads.
Reads(w, k) == w.from <= k /\ k < w.to

\* Clipped, it holds those of the source that touch the part.
LEMMA InClipped ==
    ASSUME NEW s, IsASource(s), NEW part, part.west \in Int, part.east \in Int
    PROVE  LET w == Clipped(s, WindowOf(s, part)) IN
           /\ w.from \in Nat /\ w.to \in Int /\ w.to <= s.width
           /\ w = [from |-> w.from, to |-> w.to]
           /\ \A k \in Int : Reads(w, k) <=> k \in 0..s.width - 1 /\ Touches(s, k, part)
  <1> DEFINE v == WindowOf(s, part)
             w == Clipped(s, v)
  <1>1. v.from \in Int /\ v.to \in Int
        /\ \A k \in Int : (v.from <= k /\ k < v.to) <=> Touches(s, k, part)
    BY InWindow
  <1> HIDE DEF v
  <1>2. w.from = AtLeast(0, v.from) /\ w.to = AtMost(s.width, v.to) /\ w = [from |-> w.from, to |-> w.to]
    BY DEF Clipped
  <1>3. s.width \in Nat
    BY DEF IsASource
  <1> HIDE DEF w
  <1>4. /\ w.from \in Nat /\ w.to \in Int /\ w.to <= s.width
        /\ \A k \in Int : Reads(w, k) <=> k \in 0..s.width - 1 /\ v.from <= k /\ k < v.to
    BY <1>1, <1>2, <1>3 DEF AtLeast, AtMost, Reads
  <1> QED
    BY <1>1, <1>2, <1>4 DEF w, v

\* A part of a request, and where it is looked for.
PartOf(s, q, i) == InSourceDomain(s, BboxParts(q)[i])
AskedNothing(q) == q.west = HalfTurn /\ q.east = -HalfTurn

\* The parts of a request: itself, or one on each side of the antimeridian.
LEMMA PartsOf ==
    ASSUME NEW q \in AreaRequests
    PROVE  /\ HalfTurn \in Nat \ {0} /\ Turn \in Nat \ {0, 1} /\ Turn = 2 * HalfTurn
           /\ q.west \in -HalfTurn..HalfTurn /\ q.east \in -HalfTurn..HalfTurn /\ q.west # q.east
           /\ q.west < q.east => DOMAIN BboxParts(q) = {1} /\ Len(BboxParts(q)) = 1 /\ BboxParts(q)[1] = q
           /\ q.west > q.east =>
                 /\ DOMAIN BboxParts(q) = {1, 2} /\ Len(BboxParts(q)) = 2
                 /\ BboxParts(q)[1] = [west |-> q.west, east |-> HalfTurn]
                 /\ BboxParts(q)[2] = [west |-> -HalfTurn, east |-> q.east]
           /\ \A i \in DOMAIN BboxParts(q) :
                 /\ BboxParts(q)[i].west \in Int /\ BboxParts(q)[i].east \in Int
                 /\ BboxParts(q)[i].west <= BboxParts(q)[i].east
  <1>1. HalfTurn \in Nat \ {0} /\ Turn \in Nat \ {0, 1} /\ Turn = 2 * HalfTurn
    BY TurnIsWhole
  <1>2. q.west \in -HalfTurn..HalfTurn /\ q.east \in -HalfTurn..HalfTurn /\ q.west # q.east
    BY DEF AreaRequests
  <1>3. CASE q.west < q.east
    <2>1. ~ (q.west > q.east)
      BY <1>1, <1>2, <1>3
    <2>2. BboxParts(q) = <<q>>
      BY <2>1 DEF BboxParts
    <2>3. DOMAIN BboxParts(q) = {1} /\ Len(BboxParts(q)) = 1 /\ BboxParts(q)[1] = q
      BY <2>2
    <2> QED
      BY <1>1, <1>2, <1>3, <2>1, <2>3
  <1>4. CASE q.west > q.east
    <2>1. ~ (q.west < q.east)
      BY <1>1, <1>2, <1>4
    <2>2. BboxParts(q) = <<[west |-> q.west, east |-> HalfTurn], [west |-> -HalfTurn, east |-> q.east]>>
      BY <1>4 DEF BboxParts
    <2>3. /\ DOMAIN BboxParts(q) = {1, 2} /\ Len(BboxParts(q)) = 2
          /\ BboxParts(q)[1] = [west |-> q.west, east |-> HalfTurn]
          /\ BboxParts(q)[2] = [west |-> -HalfTurn, east |-> q.east]
      BY <2>2
    <2>4. \A i \in DOMAIN BboxParts(q) :
                 /\ BboxParts(q)[i].west \in Int /\ BboxParts(q)[i].east \in Int
                 /\ BboxParts(q)[i].west <= BboxParts(q)[i].east
      <3> HIDE DEF BboxParts
      <3>1. BboxParts(q)[1].west = q.west /\ BboxParts(q)[1].east = HalfTurn
            /\ BboxParts(q)[2].west = -HalfTurn /\ BboxParts(q)[2].east = q.east
        BY <2>3
      <3> QED
        BY <2>3, <3>1, <1>1, <1>2
    <2> QED
      BY <1>1, <1>2, <1>4, <2>1, <2>3, <2>4
  <1> QED
    BY <1>1, <1>2, <1>3, <1>4

\* A request that does not cross the antimeridian ...
LEMMA OnePart ==
    ASSUME NEW q \in AreaRequests, q.west < q.east
    PROVE  /\ DOMAIN BboxParts(q) = {1}
           /\ BboxParts(q)[1].west = q.west /\ BboxParts(q)[1].east = q.east
  <1>1. DOMAIN BboxParts(q) = {1}
    BY PartsOf
  <1>2. BboxParts(q)[1] = q
    BY PartsOf
  <1> QED
    BY <1>1, <1>2

\* ... and one that does.
LEMMA TwoParts ==
    ASSUME NEW q \in AreaRequests, q.west > q.east
    PROVE  /\ DOMAIN BboxParts(q) = {1, 2}
           /\ BboxParts(q)[1].west = q.west /\ BboxParts(q)[1].east = HalfTurn
           /\ BboxParts(q)[2].west = -HalfTurn /\ BboxParts(q)[2].east = q.east
  <1>1. DOMAIN BboxParts(q) = {1, 2}
    BY PartsOf
  <1>2. BboxParts(q)[1] = [west |-> q.west, east |-> HalfTurn]
    BY PartsOf
  <1>3. BboxParts(q)[2] = [west |-> -HalfTurn, east |-> q.east]
    BY PartsOf
  <1> QED
    BY <1>1, <1>2, <1>3

\* A part is looked for where a turn, to the west or to the east, puts it.
LEMMA InDomain ==
    ASSUME NEW s, IsASource(s), NEW part, part.west \in Int, part.east \in Int, Turn \in Nat
    PROVE  \E t \in -1..1 :
              /\ InSourceDomain(s, part) = Shifted(part, t)
              /\ part.west = part.east => t = -1
  <1> DEFINE width(t) == OverlapWidth(s, Shifted(part, t))
             Best(t) == /\ \A u \in -1..1 : width(u) <= width(t)
                        /\ \A u \in -1..1 : u < t => width(u) < width(t)
  <1>1. -1..1 = {-1, 0, 1}
    OBVIOUS
  <1>2. RightEdge(s) \in Int /\ s.left \in Int /\ s.left <= RightEdge(s)
    BY DEF IsASource, RightEdge
  <1>3. ASSUME NEW t \in -1..1
        PROVE  /\ Shifted(part, t).west \in Int /\ Shifted(part, t).east \in Int
               /\ width(t) \in Nat /\ (part.west = part.east => width(t) = 0)
    <2>1. t * Turn \in Int
      OBVIOUS
    <2>2. Shifted(part, t).west = part.west + t * Turn /\ Shifted(part, t).east = part.east + t * Turn
      BY DEF Shifted
    <2>3. Shifted(part, t).west \in Int /\ Shifted(part, t).east \in Int
      BY <2>1, <2>2
    <2>4. part.west = part.east => Shifted(part, t).west = Shifted(part, t).east
      BY <2>2
    <2> DEFINE a == Shifted(part, t).west
               b == Shifted(part, t).east
    <2>5. width(t) = AtLeast(0, AtMost(b, RightEdge(s)) - AtLeast(a, s.left))
      BY DEF OverlapWidth
    <2> HIDE DEF a, b, width
    <2>6. width(t) \in Nat /\ (a = b => width(t) = 0)
      <3>1. a \in Int /\ b \in Int
        BY <2>3 DEF a, b
      <3> QED
        BY <3>1, <2>5, <1>2 DEF AtLeast, AtMost
    <2> QED
      BY <2>3, <2>4, <2>6 DEF a, b
  <1> HIDE DEF width
  <1>4. \E t \in -1..1 : Best(t)
    <2>1. width(-1) \in Nat /\ width(0) \in Nat /\ width(1) \in Nat
      BY <1>1, <1>3
    <2>2. CASE width(0) <= width(-1) /\ width(1) <= width(-1)
      <3>1. Best(-1)
        BY <2>1, <2>2, <1>1
      <3> QED
        BY <3>1, <1>1
    <2>3. CASE width(-1) < width(0) /\ width(1) <= width(0)
      <3>1. Best(0)
        BY <2>1, <2>3, <1>1
      <3> QED
        BY <3>1, <1>1
    <2>4. CASE width(-1) < width(1) /\ width(0) < width(1)
      <3>1. Best(1)
        BY <2>1, <2>4, <1>1
      <3> QED
        BY <3>1, <1>1
    <2> QED
      BY <2>1, <2>2, <2>3, <2>4
  <1> DEFINE t == CHOOSE u \in -1..1 : Best(u)
  <1>5. t \in -1..1 /\ Best(t)
    BY <1>4
  <1>6. InSourceDomain(s, part) = Shifted(part, t)
    BY DEF InSourceDomain, width
  <1> HIDE DEF t
  <1>7. part.west = part.east => t = -1
    <2> SUFFICES ASSUME part.west = part.east, t # -1 PROVE FALSE
      OBVIOUS
    <2>1. -1 < t /\ -1 \in -1..1
      BY <1>5
    <2>2. width(-1) < width(t)
      BY <2>1, <1>5
    <2>3. width(-1) = 0 /\ width(t) = 0
      BY <2>1, <1>3, <1>5
    <2> QED
      BY <2>2, <2>3
  <1> QED
    BY <1>5, <1>6, <1>7

\* Where the parts of a request are looked for.
LEMMA PartIsWhere ==
    ASSUME NEW s, IsASource(s), NEW q \in AreaRequests, NEW i \in DOMAIN BboxParts(q)
    PROVE  \E t \in -1..1 :
              /\ PartOf(s, q, i).west \in Int /\ PartOf(s, q, i).east \in Int
              /\ PartOf(s, q, i).west = BboxParts(q)[i].west + t * Turn
              /\ PartOf(s, q, i).east = BboxParts(q)[i].east + t * Turn
              /\ BboxParts(q)[i].west = BboxParts(q)[i].east => t = -1
  <1>1. Turn \in Nat /\ BboxParts(q)[i].west \in Int /\ BboxParts(q)[i].east \in Int
    BY PartsOf
  <1>2. PICK t \in -1..1 : /\ PartOf(s, q, i) = Shifted(BboxParts(q)[i], t)
                           /\ BboxParts(q)[i].west = BboxParts(q)[i].east => t = -1
    BY <1>1, InDomain DEF PartOf
  <1>3. t * Turn \in Int
    BY <1>1
  <1> QED
    BY <1>1, <1>2, <1>3 DEF Shifted

\* Where the longitudes asked for end, counted on from where they begin.
AskedEnd(q) == IF q.west < q.east THEN q.east ELSE q.east + Turn

\* A column that touches a part shows a longitude that was asked for, except when
\* the request is the antimeridian itself, from 180 degrees to -180.
LEMMA PartAsked ==
    ASSUME NEW s, IsASource(s), NEW q \in AreaRequests, ~ AskedNothing(q), NEW i \in DOMAIN BboxParts(q),
           NEW k \in 0..s.width - 1, Touches(s, k, PartOf(s, q, i))
    PROVE  LongitudesOf(s, k) \cap LongitudesAsked(q) # {}
  <1> DEFINE p == PartOf(s, q, i)
             o == BboxParts(q)[i]
             W == West(s, k)
             x == IF p.west >= W THEN p.west ELSE W
  <1>1. /\ HalfTurn \in Nat \ {0} /\ Turn \in Nat \ {0, 1} /\ Turn = 2 * HalfTurn
        /\ q.west \in -HalfTurn..HalfTurn /\ q.east \in -HalfTurn..HalfTurn /\ q.west # q.east
        /\ o.west \in Int /\ o.east \in Int /\ o.west <= o.east
    BY PartsOf
  <1>2. PICK t \in -1..1 :
              /\ p.west \in Int /\ p.east \in Int
              /\ p.west = o.west + t * Turn /\ p.east = o.east + t * Turn
              /\ o.west = o.east => t = -1
    BY PartIsWhere
  <1>3. W \in Int /\ s.left \in Int /\ s.left >= -Turn /\ s.left <= W /\ s.step \in Nat \ {0}
    BY WestOf DEF IsASource
  <1>4. W < p.east /\ p.west < W + s.step
    BY DEF Touches
  <1> DEFINE y == x - t * Turn
  <1>5. t * Turn \in Int
    BY <1>1
  <1>6. x \in W..W + s.step - 1 /\ x \in Int /\ y \in Int /\ o.west <= y
        /\ (y < o.east \/ (y = o.west /\ o.west = o.east))
    <2> HIDE DEF p, o, W
    <2> QED
      BY <1>1, <1>2, <1>3, <1>4, <1>5
  <1> HIDE DEF p, o, W, x
  <1>7. \E z \in q.west..AskedEnd(q) - 1, n \in Int : x = z + n * Turn
    <2>1. CASE q.west < q.east
      <3>1. o.west = q.west /\ o.east = q.east
        <4>1. i = 1
          BY <2>1, OnePart
        <4> QED
          BY <4>1, <2>1, OnePart DEF o
      <3>2. y \in q.west..AskedEnd(q) - 1
        BY <3>1, <2>1, <1>1, <1>6 DEF AskedEnd
      <3> QED
        BY <3>2, <1>5, <1>6
    <2>2. CASE q.west > q.east
      <3>1. AskedEnd(q) = q.east + Turn
        BY <2>2, <1>1 DEF AskedEnd
      <3>2. CASE i = 1
        <4>1. o.west = q.west /\ o.east = HalfTurn
          BY <2>2, <3>2, TwoParts DEF o
        <4>2. q.west # HalfTurn \/ q.east # -HalfTurn
          BY DEF AskedNothing
        <4>3. y \in q.west..AskedEnd(q) - 1
          BY <3>1, <4>1, <4>2, <1>1, <1>6
        <4> QED
          BY <4>3, <1>5, <1>6
      <3>3. CASE i = 2
        <4>1. o.west = -HalfTurn /\ o.east = q.east
          BY <2>2, <3>3, TwoParts DEF o
        <4>2. o.west # o.east
          <5> SUFFICES ASSUME o.west = o.east PROVE FALSE
            OBVIOUS
          <5>1. t = -1 /\ t * Turn = -Turn
            BY <1>1, <1>2
          <5>2. p.east = o.east - Turn
            BY <5>1, <1>1, <1>2
          <5>3. p.east = -HalfTurn - Turn
            BY <5>2, <4>1
          <5>4. p.east < -Turn /\ -Turn \in Int
            BY <5>3, <1>1
          <5>5. -Turn <= W
            BY <5>4, <1>3
          <5> QED
            BY <5>4, <5>5, <1>2, <1>3, <1>4
        <4>3. y + Turn \in q.west..AskedEnd(q) - 1
          BY <3>1, <4>1, <4>2, <1>1, <1>6
        <4>4. t - 1 \in Int /\ (t - 1) * Turn = t * Turn - Turn
          BY <1>1
        <4>5. x = (y + Turn) + (t - 1) * Turn
          BY <4>4, <1>1, <1>5, <1>6
        <4> QED
          BY <4>3, <4>4, <4>5
      <3> QED
        BY <3>2, <3>3, <2>2, TwoParts
    <2> QED
      BY <2>1, <2>2, <1>1
  <1>8. PICK z \in q.west..AskedEnd(q) - 1, n \in Int : x = z + n * Turn
    BY <1>7
  <1>9. z \in Int
    BY <1>1 DEF AskedEnd
  <1>10. x % Turn = z % Turn
    BY <1>1, <1>6, <1>8, <1>9, SameRest DEF Same
  <1>11. x % Turn \in LongitudesOf(s, k)
    BY <1>6, Shown DEF W
  <1>12. z % Turn \in LongitudesAsked(q)
    BY <1>8 DEF LongitudesAsked, AskedEnd
  <1> QED
    BY <1>10, <1>11, <1>12

\* Such a request touches one column at most, so it is refused.
LEMMA NothingOnce ==
    ASSUME NEW s, IsASource(s), NEW q \in AreaRequests, AskedNothing(q),
           NEW k \in 0..s.width - 1, NEW l \in 0..s.width - 1,
           NEW i \in DOMAIN BboxParts(q), NEW j \in DOMAIN BboxParts(q),
           Touches(s, k, PartOf(s, q, i)), Touches(s, l, PartOf(s, q, j))
    PROVE  k = l
  <1>1. /\ HalfTurn \in Nat \ {0} /\ Turn \in Nat \ {0, 1} /\ Turn = 2 * HalfTurn
        /\ q.west = HalfTurn /\ q.east = -HalfTurn /\ q.west > q.east
    <2>1. HalfTurn \in Nat \ {0} /\ Turn \in Nat \ {0, 1} /\ Turn = 2 * HalfTurn
      BY PartsOf
    <2>2. q.west = HalfTurn /\ q.east = -HalfTurn
      BY DEF AskedNothing
    <2> QED
      BY <2>1, <2>2
  <1>2. /\ DOMAIN BboxParts(q) = {1, 2}
        /\ BboxParts(q)[1].west = q.west /\ BboxParts(q)[1].east = HalfTurn
        /\ BboxParts(q)[2].west = -HalfTurn /\ BboxParts(q)[2].east = q.east
    BY <1>1, TwoParts
  <1>3. ASSUME NEW n \in 0..s.width - 1, NEW e \in DOMAIN BboxParts(q), Touches(s, n, PartOf(s, q, e))
        PROVE  /\ West(s, n) \in Int /\ s.step \in Nat \ {0}
               /\ West(s, n) < HalfTurn - Turn /\ HalfTurn - Turn < West(s, n) + s.step
    <2> DEFINE p == PartOf(s, q, e)
               o == BboxParts(q)[e]
    <2>1. PICK t \in -1..1 :
              /\ p.west \in Int /\ p.east \in Int
              /\ p.west = o.west + t * Turn /\ p.east = o.east + t * Turn
              /\ o.west = o.east => t = -1
      BY PartIsWhere
    <2>2. West(s, n) \in Int /\ s.left \in Int /\ s.left >= -Turn /\ s.left <= West(s, n)
          /\ s.step \in Nat \ {0}
      BY WestOf DEF IsASource
    <2>3. West(s, n) < p.east /\ p.west < West(s, n) + s.step
      BY <1>3 DEF Touches
    <2>4. o.west = o.east /\ o.east = IF e = 1 THEN HalfTurn ELSE -HalfTurn
      BY <1>1, <1>2
    <2> HIDE DEF p, o
    <2>5. t = -1 /\ t * Turn = -Turn
      BY <2>1, <2>4, <1>1
    <2> QED
      BY <2>1, <2>2, <2>3, <2>4, <2>5, <1>1
  <1>4. /\ West(s, k) \in Int /\ s.step \in Nat \ {0}
        /\ West(s, k) < HalfTurn - Turn /\ HalfTurn - Turn < West(s, k) + s.step
        /\ West(s, l) \in Int
        /\ West(s, l) < HalfTurn - Turn /\ HalfTurn - Turn < West(s, l) + s.step
    BY <1>3
  <1>5. k \in Int /\ l \in Int
    OBVIOUS
  <1>6. k # l => West(s, k) + s.step <= West(s, l) \/ West(s, l) + s.step <= West(s, k)
    BY <1>5, WestsApart
  <1> QED
    BY <1>1, <1>4, <1>6

\* If the parts lie within the source, every longitude asked for is shown by a
\* column that touches one.
LEMMA PartsCover ==
    ASSUME NEW s, IsASource(s), NEW q \in AreaRequests,
           \A i \in DOMAIN BboxParts(q) :
              s.left <= PartOf(s, q, i).west /\ PartOf(s, q, i).east <= RightEdge(s),
           NEW v \in LongitudesAsked(q)
    PROVE  \E i \in DOMAIN BboxParts(q), k \in 0..s.width - 1 :
              Touches(s, k, PartOf(s, q, i)) /\ v \in LongitudesOf(s, k)
  <1>1. /\ HalfTurn \in Nat \ {0} /\ Turn \in Nat \ {0, 1} /\ Turn = 2 * HalfTurn
        /\ q.west \in -HalfTurn..HalfTurn /\ q.east \in -HalfTurn..HalfTurn /\ q.west # q.east
    BY PartsOf
  <1>2. PICK z \in q.west..AskedEnd(q) - 1 : v = z % Turn
    BY DEF LongitudesAsked, AskedEnd
  <1>3. z \in Int
    BY <1>1 DEF AskedEnd
  <1>4. \E i \in DOMAIN BboxParts(q), n \in Int :
            BboxParts(q)[i].west <= z + n * Turn /\ z + n * Turn < BboxParts(q)[i].east
    <2>0. 0 * Turn = 0 /\ (-1) * Turn = -Turn /\ 0 \in Int /\ -1 \in Int
      BY <1>1
    <2>1. CASE q.west < q.east
      <3>1. DOMAIN BboxParts(q) = {1} /\ BboxParts(q)[1].west = q.west /\ BboxParts(q)[1].east = q.east
        BY <2>1, OnePart
      <3>2. BboxParts(q)[1].west <= z + 0 * Turn /\ z + 0 * Turn < BboxParts(q)[1].east
        BY <3>1, <2>0, <2>1, <1>1, <1>2, <1>3 DEF AskedEnd
      <3> QED
        BY <3>1, <3>2, <2>0
    <2>2. CASE q.west > q.east
      <3>1. /\ DOMAIN BboxParts(q) = {1, 2}
            /\ BboxParts(q)[1].west = q.west /\ BboxParts(q)[1].east = HalfTurn
            /\ BboxParts(q)[2].west = -HalfTurn /\ BboxParts(q)[2].east = q.east
        BY <2>2, TwoParts
      <3>2. AskedEnd(q) = q.east + Turn
        BY <2>2, <1>1 DEF AskedEnd
      <3>3. CASE z < HalfTurn
        <4>1. BboxParts(q)[1].west <= z + 0 * Turn /\ z + 0 * Turn < BboxParts(q)[1].east
          BY <3>1, <3>3, <2>0, <1>1, <1>2, <1>3
        <4> QED
          BY <4>1, <3>1, <2>0
      <3>4. CASE z >= HalfTurn
        <4>1. BboxParts(q)[2].west <= z + (-1) * Turn /\ z + (-1) * Turn < BboxParts(q)[2].east
          BY <3>1, <3>2, <3>4, <2>0, <1>1, <1>2, <1>3
        <4> QED
          BY <4>1, <3>1, <2>0
      <3> QED
        BY <3>3, <3>4, <1>1, <1>3
    <2> QED
      BY <2>1, <2>2, <1>1
  <1>5. PICK i \in DOMAIN BboxParts(q), n \in Int :
            BboxParts(q)[i].west <= z + n * Turn /\ z + n * Turn < BboxParts(q)[i].east
    BY <1>4
  <1> DEFINE p == PartOf(s, q, i)
             o == BboxParts(q)[i]
  <1>6. PICK t \in -1..1 :
              /\ p.west \in Int /\ p.east \in Int
              /\ p.west = o.west + t * Turn /\ p.east = o.east + t * Turn
    BY PartIsWhere
  <1>7. n * Turn \in Int /\ t * Turn \in Int /\ (n + t) * Turn = n * Turn + t * Turn
        /\ o.west \in Int /\ o.east \in Int
    <2>1. o.west \in Int /\ o.east \in Int
      BY PartsOf
    <2> HIDE DEF o
    <2> QED
      BY <1>1, <2>1
  <1> DEFINE x == z + (n + t) * Turn
  <1>8. x \in Int /\ p.west <= x /\ x < p.east
    <2> HIDE DEF p, o
    <2>1. o.west <= z + n * Turn /\ z + n * Turn < o.east
      BY <1>5 DEF o
    <2> QED
      BY <2>1, <1>3, <1>6, <1>7
  <1>9. s.left <= x /\ x < RightEdge(s) /\ s.left \in Int /\ RightEdge(s) \in Int
    BY <1>8, <1>6 DEF RightEdge, IsASource
  <1>10. x % Turn = v
    <2>1. n + t \in Int
      OBVIOUS
    <2> QED
      BY <2>1, <1>1, <1>2, <1>3, <1>8, SameRest DEF Same
  <1> HIDE DEF x
  <1>11. \E k \in 0..s.width - 1 : West(s, k) <= x /\ x < West(s, k) + s.step
    <2> DEFINE a == IF s.mirrored THEN RightEdge(s) - 1 - x ELSE x - s.left
               k == a \div s.step
               m == a % s.step
    <2>1. a \in Nat /\ a < s.width * s.step /\ s.step \in Nat \ {0} /\ s.width \in Nat \ {0}
          /\ s.mirrored \in BOOLEAN /\ RightEdge(s) = s.left + s.width * s.step
          /\ s.width * s.step \in Nat
      <3>1. s.step \in Nat \ {0} /\ s.width \in Nat \ {0} /\ s.mirrored \in BOOLEAN
            /\ RightEdge(s) = s.left + s.width * s.step /\ s.width * s.step \in Nat
        BY DEF IsASource, RightEdge
      <3>2. a \in Nat /\ a < s.width * s.step
        <4>1. CASE s.mirrored
          BY <4>1, <3>1, <1>8, <1>9
        <4>2. CASE ~ s.mirrored
          BY <4>2, <3>1, <1>8, <1>9
        <4> QED
          BY <4>1, <4>2
      <3> QED
        BY <3>1, <3>2
    <2>2. k \in Int /\ m \in 0..s.step - 1 /\ a = k * s.step + m
      <3> HIDE DEF a
      <3>1. a \in Int /\ s.step \in Nat \ {0}
        BY <2>1
      <3>2. \A e \in Int, b \in Nat \ {0} :
               e \div b \in Int /\ e % b \in 0..b - 1 /\ e = (e \div b) * b + (e % b)
        BY Rest
      <3> QED
        BY Zenon, <3>1, <3>2
    <2> HIDE DEF k, m
    <2>3. k * s.step \in Int /\ (k + 1) * s.step = k * s.step + s.step
      BY <2>1, <2>2
    <2>4. k >= 0
      <3> SUFFICES ASSUME k < 0 PROVE FALSE
        BY <2>2
      <3>1. k * s.step + s.step <= 0 * s.step
        BY <2>1, <2>2, Further
      <3> QED
        BY <3>1, <2>1, <2>2, <2>3
    <2>5. k < s.width
      <3> SUFFICES ASSUME s.width <= k PROVE FALSE
        BY <2>1, <2>2
      <3>1. s.width * s.step <= k * s.step
        <4>1. CASE s.width = k
          BY <4>1, <2>3
        <4>2. CASE s.width < k
          <5>1. s.width \in Int
            BY <2>1
          <5>2. s.width * s.step + s.step <= k * s.step
            BY <5>1, <4>2, <2>1, <2>2, Further
          <5> QED
            BY <5>2, <2>1, <2>3
        <4> QED
          BY <4>1, <4>2, <2>1, <2>2
      <3> QED
        BY <3>1, <2>1, <2>2, <2>3
    <2>6. West(s, k) <= x /\ x < West(s, k) + s.step
      <3>1. CASE s.mirrored
        <4>1. West(s, k) = RightEdge(s) - (k + 1) * s.step /\ a = RightEdge(s) - 1 - x
          BY <3>1 DEF West
        <4> HIDE DEF a
        <4> QED
          BY <4>1, <2>1, <2>2, <2>3, <1>8, <1>9
      <3>2. CASE ~ s.mirrored
        <4>1. West(s, k) = s.left + k * s.step /\ a = x - s.left
          BY <3>2 DEF West
        <4> HIDE DEF a
        <4> QED
          BY <4>1, <2>1, <2>2, <2>3, <1>8, <1>9
      <3> QED
        BY <3>1, <3>2
    <2>7. k \in 0..s.width - 1
      BY <2>1, <2>2, <2>4, <2>5
    <2> QED
      BY <2>6, <2>7
  <1>12. PICK k \in 0..s.width - 1 : West(s, k) <= x /\ x < West(s, k) + s.step
    BY <1>11
  <1>13. West(s, k) \in Int /\ s.step \in Nat
    BY WestOf DEF IsASource
  <1>14. Touches(s, k, p)
    <2> HIDE DEF p
    <2> QED
      BY <1>6, <1>8, <1>12, <1>13 DEF Touches
  <1>15. x % Turn \in LongitudesOf(s, k)
    <2>1. x \in West(s, k)..West(s, k) + s.step - 1
      BY <1>8, <1>12, <1>13
    <2> QED
      BY <2>1, Shown
  <1> QED
    BY <1>10, <1>14, <1>15

\* Flattening one sequence ...
LEMMA FlattenOne ==
    ASSUME NEW f, Len(f) = 1
    PROVE  FlattenSeq(f) = f[1]
  <1> DEFINE Step(g) == [i \in 1..Len(f) |-> IF i = 1 THEN f[i] ELSE g[i - 1] \o f[i]]
             flatten == CHOOSE g : g = Step(g)
             one == [i \in 1..1 |-> f[1]]
  <1>1. FlattenSeq(f) = flatten[Len(f)]
    BY DEF FlattenSeq
  <1>2. one = Step(one)
    <2>1. \A i \in 1..1 : one[i] = IF i = 1 THEN f[i] ELSE one[i - 1] \o f[i]
      OBVIOUS
    <2> QED
      BY <2>1
  <1>3. flatten = Step(flatten)
    BY <1>2
  <1> HIDE DEF flatten
  <1>4. flatten[1] = f[1]
    BY <1>3
  <1> QED
    BY <1>1, <1>4

\* ... two ...
LEMMA FlattenTwo ==
    ASSUME NEW f, Len(f) = 2
    PROVE  FlattenSeq(f) = f[1] \o f[2]
  <1> DEFINE Step(g) == [i \in 1..Len(f) |-> IF i = 1 THEN f[i] ELSE g[i - 1] \o f[i]]
             flatten == CHOOSE g : g = Step(g)
             both == [i \in 1..2 |-> IF i = 1 THEN f[1] ELSE f[1] \o f[2]]
  <1>1. FlattenSeq(f) = flatten[Len(f)]
    BY DEF FlattenSeq
  <1>2. both = Step(both)
    <2>1. both[1] = f[1] /\ both[2] = f[1] \o f[2]
      OBVIOUS
    <2>2. ASSUME NEW i \in 1..2 PROVE both[i] = IF i = 1 THEN f[i] ELSE both[i - 1] \o f[i]
      <3> HIDE DEF both
      <3>1. CASE i = 1
        BY <2>1, <3>1
      <3>2. CASE i = 2
        <4>1. i - 1 = 1 /\ i # 1
          BY <3>2
        <4> QED
          BY <2>1, <3>2, <4>1
      <3> QED
        BY <3>1, <3>2
    <2>3. both = [i \in 1..2 |-> both[i]]
      OBVIOUS
    <2> HIDE DEF both
    <2> QED
      BY <2>2, <2>3
  <1>3. flatten = Step(flatten)
    BY <1>2
  <1> HIDE DEF flatten
  <1>4. flatten[1] = f[1]
    BY <1>3
  <1>5. flatten[2] = flatten[1] \o f[2]
    BY <1>3
  <1> QED
    BY <1>1, <1>4, <1>5

\* ... and none.
LEMMA FlattenNone ==
    ASSUME NEW f, Len(f) = 0
    PROVE  FlattenSeq(f) = f
  BY DEF FlattenSeq

\* A function on 1..n is a sequence.
LEMMA IsSequence ==
    ASSUME NEW n \in Nat, NEW P, NEW f \in [1..n -> P]
    PROVE  f \in Seq(P) /\ Len(f) = n
  BY SMT

\* A window with columns in it, and the columns that touch what was asked for.
AWindow(s, w) == w.from \in Nat /\ w.to \in Int /\ w.from < w.to /\ w.to <= s.width
Wanted(s, q, k) ==
    k \in 0..s.width - 1 /\ \E i \in DOMAIN BboxParts(q) : Touches(s, k, PartOf(s, q, i))

\* What is read is nothing, a window, or two that meet at the seam.
ReadsOne(s, q, windows, a) ==
    /\ windows = <<a>> /\ AWindow(s, a)
    /\ \A k \in Int : Reads(a, k) <=> Wanted(s, q, k)
ReadsTwo(s, q, windows, a, b) ==
    /\ windows = <<a, b>> /\ AWindow(s, a) /\ AWindow(s, b)
    /\ ~ s.mirrored /\ MeetAtSeam(s, a, b)
    /\ \A k \in Int : Reads(a, k) \/ Reads(b, k) <=> Wanted(s, q, k)
    /\ \A k \in Int : ~ (Reads(a, k) /\ Reads(b, k))

\* Two windows are refused, read as one that holds the columns of both when they
\* overlap, or one after the other when they meet at the seam.
LEMMA JoinedOf ==
    ASSUME NEW s, IsASource(s), NEW q, NEW a, NEW b, AWindow(s, a), AWindow(s, b),
           \A k \in Int : Reads(a, k) \/ Reads(b, k) <=> Wanted(s, q, k)
    PROVE  LET windows == JoinedWindows(s, <<a, b>>) IN
           \/ windows = <<>>
           \/ \E c : ReadsOne(s, q, windows, c)
           \/ ReadsTwo(s, q, windows, a, b)
  <1> DEFINE c == [from |-> AtMost(a.from, b.from), to |-> AtLeast(a.to, b.to)]
             windows == JoinedWindows(s, <<a, b>>)
             overlap == AtLeast(a.from, b.from) < AtMost(a.to, b.to)
  <1>1. windows = IF s.mirrored THEN <<>>
                  ELSE IF overlap THEN <<c>>
                  ELSE IF MeetAtSeam(s, a, b) THEN <<a, b>> ELSE <<>>
    BY DEF JoinedWindows
  <1>2. /\ a.from \in Nat /\ a.to \in Int /\ a.from < a.to /\ a.to <= s.width
        /\ b.from \in Nat /\ b.to \in Int /\ b.from < b.to /\ b.to <= s.width
    BY DEF AWindow
  <1>3. CASE ~ s.mirrored /\ overlap
    <2>1. windows = <<c>>
      BY <1>1, <1>3
    <2>2. AWindow(s, c)
      BY <1>2, <1>3 DEF AWindow, AtLeast, AtMost
    <2>3. ASSUME NEW k \in Int PROVE Reads(c, k) <=> Reads(a, k) \/ Reads(b, k)
      BY <1>2, <1>3 DEF Reads, AtLeast, AtMost
    <2>4. ReadsOne(s, q, windows, c)
      BY <2>1, <2>2, <2>3 DEF ReadsOne
    <2> QED
      BY <2>4
  <1>4. CASE ~ s.mirrored /\ ~ overlap /\ MeetAtSeam(s, a, b)
    <2>1. windows = <<a, b>>
      BY <1>1, <1>4
    <2>2. ASSUME NEW k \in Int PROVE ~ (Reads(a, k) /\ Reads(b, k))
      BY <1>2, <1>4 DEF Reads, AtLeast, AtMost
    <2>3. ReadsTwo(s, q, windows, a, b)
      BY <1>4, <2>1, <2>2 DEF ReadsTwo
    <2> QED
      BY <2>3
  <1>5. CASE s.mirrored \/ (~ overlap /\ ~ MeetAtSeam(s, a, b))
    BY <1>1, <1>5
  <1> QED
    BY <1>3, <1>4, <1>5

\* The window of a part, and what is found of it.
WindowAt(s, q, i) == Clipped(s, WindowOf(s, PartOf(s, q, i)))
Found(s, q, i) == IF WindowAt(s, q, i).from < WindowAt(s, q, i).to THEN <<WindowAt(s, q, i)>> ELSE <<>>

\* Concatenations of short sequences.
LEMMA ConcatFew ==
    ASSUME NEW a, NEW b
    PROVE  /\ <<>> \o <<>> = <<>> /\ <<a>> \o <<>> = <<a>>
           /\ <<>> \o <<b>> = <<b>> /\ <<a>> \o <<b>> = <<a, b>>
  <1> DEFINE S == {a, b}
  <1>1. <<>> \in Seq(S) /\ <<a>> \in Seq(S) /\ <<b>> \in Seq(S)
    OBVIOUS
  <1>2. <<a>> \o <<>> = <<a>> /\ <<>> \o <<b>> = <<b>> /\ <<>> \o <<>> = <<>>
    BY <1>1, ConcatEmptySeq
  <1>3. <<a>> \o <<b>> = <<a, b>>
    <2> DEFINE p == <<a>>
               r == <<b>>
    <2>1. Len(p) = 1 /\ Len(r) = 1 /\ p[1] = a /\ r[1] = b
      OBVIOUS
    <2>2. p \in Seq(S) /\ r \in Seq(S)
      BY <1>1
    <2> HIDE DEF p, r
    <2>3. /\ p \o r \in Seq(S) /\ Len(p \o r) = 2
          /\ \A i \in 1..2 : (p \o r)[i] = IF i <= 1 THEN p[i] ELSE r[i - 1]
      BY <2>1, <2>2, ConcatProperties
    <2>4. (p \o r)[1] = a /\ (p \o r)[2] = b
      BY <2>1, <2>3
    <2> DEFINE t == <<a, b>>
               u == p \o r
    <2>5. t \in Seq(S) /\ Len(t) = 2 /\ t[1] = a /\ t[2] = b
      OBVIOUS
    <2>6. u \in Seq(S) /\ Len(u) = 2 /\ u[1] = a /\ u[2] = b
      BY <2>3, <2>4
    <2>7. u = t
      <3> HIDE DEF t, u
      <3>1. \A i \in 1..Len(u) : u[i] = t[i]
        <4>1. \A i \in 1..2 : i = 1 \/ i = 2
          OBVIOUS
        <4> QED
          BY <4>1, <2>5, <2>6
      <3> QED
        BY <3>1, <2>5, <2>6, SeqEqual
    <2> QED
      BY <2>7 DEF p, r
  <1> QED
    BY <1>2, <1>3

\* What is found of a part is its window, or nothing if no column touches it.
LEMMA FoundAt ==
    ASSUME NEW s, IsASource(s), NEW q \in AreaRequests, NEW i \in DOMAIN BboxParts(q)
    PROVE  LET w == WindowAt(s, q, i) IN
           /\ \A k \in Int : Reads(w, k) <=> k \in 0..s.width - 1 /\ Touches(s, k, PartOf(s, q, i))
           /\ w.from < w.to => AWindow(s, w) /\ Found(s, q, i) = <<w>>
           /\ ~ w.from < w.to => (\A k \in Int : ~ Reads(w, k)) /\ Found(s, q, i) = <<>>
  <1> DEFINE w == WindowAt(s, q, i)
  <1>1. PartOf(s, q, i).west \in Int /\ PartOf(s, q, i).east \in Int
    BY PartIsWhere
  <1>2. /\ w.from \in Nat /\ w.to \in Int /\ w.to <= s.width
        /\ \A k \in Int : Reads(w, k) <=> k \in 0..s.width - 1 /\ Touches(s, k, PartOf(s, q, i))
    BY <1>1, InClipped DEF WindowAt
  <1>3. w.from < w.to => Found(s, q, i) = <<w>>
    BY DEF Found
  <1>4. ~ w.from < w.to => Found(s, q, i) = <<>>
    BY DEF Found
  <1> HIDE DEF w
  <1>5. ~ w.from < w.to => \A k \in Int : ~ Reads(w, k)
    BY <1>2 DEF Reads
  <1>6. w.from < w.to => AWindow(s, w)
    BY <1>2 DEF AWindow
  <1> QED
    BY <1>2, <1>3, <1>4, <1>5, <1>6 DEF w

\* WindowForAoi joins what is found of the parts.
LEMMA WindowsFound ==
    ASSUME NEW s, NEW q \in AreaRequests
    PROVE  /\ q.west < q.east =>
                 WindowForAoi(s, q).windows = JoinedWindows(s, Found(s, q, 1))
           /\ q.west > q.east =>
                 WindowForAoi(s, q).windows = JoinedWindows(s, Found(s, q, 1) \o Found(s, q, 2))
           /\ WindowForAoi(s, q).within =>
                 \A i \in DOMAIN BboxParts(q) :
                    s.left <= PartOf(s, q, i).west /\ PartOf(s, q, i).east <= RightEdge(s)
  <1> DEFINE D == DOMAIN BboxParts(q)
             parts == [i \in D |-> InSourceDomain(s, BboxParts(q)[i])]
             window(i) == Clipped(s, WindowOf(s, parts[i]))
             found == [i \in DOMAIN parts |-> IF window(i).from < window(i).to THEN <<window(i)>> ELSE <<>>]
             given == [i \in D |-> Found(s, q, i)]
  <1>1. DOMAIN parts = D /\ \A i \in D : parts[i] = PartOf(s, q, i)
    BY DEF PartOf
  <1>2. found = given
    <2>1. \A i \in D : window(i) = WindowAt(s, q, i)
      BY <1>1 DEF WindowAt
    <2>2. \A i \in D : (IF window(i).from < window(i).to THEN <<window(i)>> ELSE <<>>) = Found(s, q, i)
      BY <2>1 DEF Found
    <2> HIDE DEF parts, window
    <2> QED
      BY <1>1, <2>2
  <1>3. /\ WindowForAoi(s, q).windows = JoinedWindows(s, FlattenSeq(found))
        /\ WindowForAoi(s, q).within =>
              \A i \in DOMAIN parts : s.left <= parts[i].west /\ parts[i].east <= RightEdge(s)
    BY DEF WindowForAoi
  <1> HIDE DEF parts, window, found, D
  <1>4. WindowForAoi(s, q).within =>
            \A i \in D : s.left <= PartOf(s, q, i).west /\ PartOf(s, q, i).east <= RightEdge(s)
    BY <1>1, <1>3
  <1>5. ASSUME q.west < q.east PROVE FlattenSeq(given) = Found(s, q, 1) /\ 1 \in D
    <2>1. D = 1..1
      BY <1>5, OnePart DEF D
    <2>2. given \in [1..1 -> {Found(s, q, 1)}] /\ given[1] = Found(s, q, 1)
      BY <2>1
    <2> HIDE DEF given
    <2>3. Len(given) = 1
      BY <2>2, IsSequence
    <2> QED
      BY <2>1, <2>2, <2>3, FlattenOne
  <1>6. ASSUME q.west > q.east PROVE FlattenSeq(given) = Found(s, q, 1) \o Found(s, q, 2)
    <2>1. D = 1..2
      BY <1>6, TwoParts DEF D
    <2>2. given \in [1..2 -> {Found(s, q, 1), Found(s, q, 2)}]
          /\ given[1] = Found(s, q, 1) /\ given[2] = Found(s, q, 2)
      BY <2>1
    <2> HIDE DEF given
    <2>3. Len(given) = 2
      BY <2>2, IsSequence
    <2> QED
      BY <2>2, <2>3, FlattenTwo
  <1> HIDE DEF given
  <1> QED
    BY <1>2, <1>3, <1>4, <1>5, <1>6 DEF D

\* The windows to read hold the columns that touch a part, each once.
LEMMA WhatIsRead ==
    ASSUME NEW s, IsASource(s), NEW q \in AreaRequests
    PROVE  LET windows == WindowForAoi(s, q).windows IN
           \/ windows = <<>>
           \/ \E a : ReadsOne(s, q, windows, a)
           \/ \E a, b : ReadsTwo(s, q, windows, a, b)
  <1> DEFINE windows == WindowForAoi(s, q).windows
             D == DOMAIN BboxParts(q)
             w(i) == WindowAt(s, q, i)
  <1>1. q.west \in Int /\ q.east \in Int /\ q.west # q.east
    <2>1. HalfTurn \in Nat /\ q.west \in -HalfTurn..HalfTurn /\ q.east \in -HalfTurn..HalfTurn /\ q.west # q.east
      BY PartsOf
    <2> QED
      BY <2>1
  <1>2. /\ JoinedWindows(s, <<>>) = <<>>
        /\ \A a : JoinedWindows(s, <<a>>) = <<a>>
    <2>1. Len(<<>>) # 2 /\ \A a : Len(<<a>>) # 2
      OBVIOUS
    <2> QED
      BY <2>1 DEF JoinedWindows
  <1>3. ASSUME NEW i \in D
        PROVE  /\ \A k \in Int : Reads(w(i), k) <=> k \in 0..s.width - 1 /\ Touches(s, k, PartOf(s, q, i))
               /\ w(i).from < w(i).to => AWindow(s, w(i)) /\ Found(s, q, i) = <<w(i)>>
               /\ ~ w(i).from < w(i).to => (\A k \in Int : ~ Reads(w(i), k)) /\ Found(s, q, i) = <<>>
    BY <1>3, FoundAt DEF D
  <1> HIDE DEF w
  <1>4. CASE q.west < q.east
    <2>1. windows = JoinedWindows(s, Found(s, q, 1))
      BY <1>4, WindowsFound
    <2>2. D = {1}
      BY <1>4, OnePart
    <2>3. ASSUME NEW k \in Int PROVE Reads(w(1), k) <=> Wanted(s, q, k)
      BY <1>3, <2>2 DEF Wanted
    <2>4. CASE w(1).from < w(1).to
      <3>1. windows = <<w(1)>> /\ AWindow(s, w(1))
        BY <1>2, <1>3, <2>1, <2>2, <2>4
      <3>2. ReadsOne(s, q, windows, w(1))
        BY <2>3, <3>1 DEF ReadsOne
      <3> QED
        BY <3>2
    <2>5. CASE ~ w(1).from < w(1).to
      BY <1>2, <1>3, <2>1, <2>2, <2>5
    <2> QED
      BY <2>4, <2>5
  <1>5. CASE q.west > q.east
    <2> DEFINE a == w(1)
               b == w(2)
    <2>1. windows = JoinedWindows(s, Found(s, q, 1) \o Found(s, q, 2))
      BY <1>5, WindowsFound
    <2>2. D = {1, 2}
      BY <1>5, TwoParts
    <2>3. ASSUME NEW k \in Int PROVE Reads(a, k) \/ Reads(b, k) <=> Wanted(s, q, k)
      BY <1>3, <2>2 DEF Wanted
    <2>4. CASE a.from < a.to /\ b.from < b.to
      <3>1. windows = JoinedWindows(s, <<a, b>>) /\ AWindow(s, a) /\ AWindow(s, b)
        BY <1>3, <2>1, <2>2, <2>4, ConcatFew
      <3>2. \/ windows = <<>>
            \/ \E c : ReadsOne(s, q, windows, c)
            \/ ReadsTwo(s, q, windows, a, b)
        BY <2>3, <3>1, JoinedOf
      <3> QED
        BY <3>2
    <2>5. CASE a.from < a.to /\ ~ b.from < b.to
      <3>1. windows = <<a>> /\ AWindow(s, a)
        BY <1>2, <1>3, <2>1, <2>2, <2>5, ConcatFew
      <3>2. \A k \in Int : Reads(a, k) <=> Wanted(s, q, k)
        BY <1>3, <2>2, <2>3, <2>5
      <3>3. ReadsOne(s, q, windows, a)
        BY <3>1, <3>2 DEF ReadsOne
      <3> QED
        BY <3>3
    <2>6. CASE ~ a.from < a.to /\ b.from < b.to
      <3>1. windows = <<b>> /\ AWindow(s, b)
        <4>1. Found(s, q, 1) = <<>> /\ Found(s, q, 2) = <<b>> /\ AWindow(s, b)
          BY <1>3, <2>2, <2>6
        <4>2. <<>> \o <<b>> = <<b>>
          BY ConcatFew
        <4> QED
          BY <1>2, <2>1, <4>1, <4>2
      <3>2. \A k \in Int : Reads(b, k) <=> Wanted(s, q, k)
        BY <1>3, <2>2, <2>3, <2>6
      <3>3. ReadsOne(s, q, windows, b)
        BY <3>1, <3>2 DEF ReadsOne
      <3> QED
        BY <3>3
    <2>7. CASE ~ a.from < a.to /\ ~ b.from < b.to
      BY <1>2, <1>3, <2>1, <2>2, <2>7, ConcatFew
    <2> QED
      BY <2>4, <2>5, <2>6, <2>7
  <1> QED
    BY <1>1, <1>4, <1>5

\* The columns of a window, from left to right.
Run(w) == [n \in 1..w.to - w.from |-> w.from + n - 1]

\* The columns of a window ...
LEMMA RunOf ==
    ASSUME NEW s, NEW w, AWindow(s, w)
    PROVE  /\ Run(w) \in Seq(Int) /\ Len(Run(w)) = w.to - w.from
           /\ w.to - w.from \in Nat \ {0}
           /\ \A n \in 1..w.to - w.from : Run(w)[n] = w.from + n - 1
  <1> DEFINE n == w.to - w.from
  <1>1. w.from \in Nat /\ w.to \in Int /\ n \in Nat \ {0}
    BY DEF AWindow
  <1>2. \A i \in 1..n : w.from + i - 1 \in Int
    BY <1>1
  <1>3. Run(w) \in [1..n -> Int] /\ \A i \in 1..n : Run(w)[i] = w.from + i - 1
    BY <1>2 DEF Run
  <1> HIDE DEF n
  <1>4. Run(w) \in Seq(Int) /\ Len(Run(w)) = n
    BY <1>1, <1>3, IsSequence
  <1> QED
    BY <1>1, <1>3, <1>4 DEF n

\* ... and of a few windows.
LEMMA ColumnsOfFew ==
    ASSUME NEW a, NEW b
    PROVE  /\ ColumnsOf(<<>>) = <<>>
           /\ ColumnsOf(<<a>>) = Run(a)
           /\ ColumnsOf(<<a, b>>) = Run(a) \o Run(b)
  <1> DEFINE runs(windows) == [i \in DOMAIN windows |-> Run(windows[i])]
  <1>1. \A windows : ColumnsOf(windows) = FlattenSeq(runs(windows))
    BY DEF ColumnsOf, Run
  <1>2. ColumnsOf(<<>>) = <<>>
    <2>1. runs(<<>>) = <<>>
      OBVIOUS
    <2> HIDE DEF runs
    <2> QED
      BY <1>1, <2>1, FlattenNone, Len(<<>>) = 0
  <1>3. ColumnsOf(<<a>>) = Run(a)
    <2> DEFINE r == runs(<<a>>)
    <2>1. r \in [1..1 -> {Run(a)}] /\ r[1] = Run(a)
      OBVIOUS
    <2> HIDE DEF r
    <2>2. Len(r) = 1
      BY <2>1, IsSequence
    <2>3. FlattenSeq(r) = Run(a)
      BY <2>1, <2>2, FlattenOne
    <2> QED
      BY <1>1, <2>3 DEF r
  <1>4. ColumnsOf(<<a, b>>) = Run(a) \o Run(b)
    <2> DEFINE r == runs(<<a, b>>)
    <2>1. r \in [1..2 -> {Run(a), Run(b)}] /\ r[1] = Run(a) /\ r[2] = Run(b)
      OBVIOUS
    <2> HIDE DEF r
    <2>2. Len(r) = 2
      BY <2>1, IsSequence
    <2>3. FlattenSeq(r) = Run(a) \o Run(b)
      BY <2>1, <2>2, FlattenTwo
    <2> QED
      BY <1>1, <2>3 DEF r
  <1> QED
    BY <1>2, <1>3, <1>4

\* What the columns read are: those wanted, each once, one after the other.
WestToEast(s, q, columns) ==
    /\ Len(columns) \in Nat /\ DOMAIN columns = 1..Len(columns)
    /\ \A i \in DOMAIN columns : Wanted(s, q, columns[i])
    /\ \A i, j \in DOMAIN columns : i # j => columns[i] # columns[j]
    /\ \A k \in Int : Wanted(s, q, k) => \E i \in DOMAIN columns : columns[i] = k
    /\ \A i \in DOMAIN columns \ {1} :
          \/ columns[i] = columns[i - 1] + 1
          \/ ~ s.mirrored /\ Same(West(s, columns[i]), West(s, columns[i - 1]) + s.step)

\* The columns of one window are in order.
LEMMA OneInOrder ==
    ASSUME NEW s, NEW q, NEW a, AWindow(s, a), \A k \in Int : Reads(a, k) <=> Wanted(s, q, k)
    PROVE  WestToEast(s, q, Run(a))
  <1> DEFINE n == a.to - a.from
             r == Run(a)
  <1>1. r \in Seq(Int) /\ Len(r) = n /\ n \in Nat \ {0} /\ \A i \in 1..n : r[i] = a.from + i - 1
    BY RunOf
  <1>2. a.from \in Nat /\ a.to \in Int /\ a.to = a.from + n
    BY DEF AWindow
  <1> HIDE DEF n
  <1>3. DOMAIN r = 1..n /\ n \in Nat
    BY <1>1
  <1> HIDE DEF r
  <1>4. ASSUME NEW i \in 1..n PROVE Wanted(s, q, r[i])
    <2>1. r[i] = a.from + i - 1
      BY <1>1
    <2>2. r[i] \in Int /\ a.from <= r[i] /\ r[i] < a.to
      BY <2>1, <1>1, <1>2
    <2> QED
      BY <2>2 DEF Reads
  <1>5. ASSUME NEW i \in 1..n, NEW j \in 1..n, i # j PROVE r[i] # r[j]
    <2>1. r[i] = a.from + i - 1 /\ r[j] = a.from + j - 1
      BY <1>1
    <2>2. i \in Int /\ j \in Int
      BY <1>3
    <2> QED
      BY <2>1, <2>2, <1>2, <1>5
  <1>6. ASSUME NEW k \in Int, Wanted(s, q, k) PROVE \E i \in 1..n : r[i] = k
    <2>1. a.from <= k /\ k < a.to
      BY <1>6 DEF Reads
    <2>2. k - a.from + 1 \in 1..n /\ a.from + (k - a.from + 1) - 1 = k
      BY <2>1, <1>1, <1>2
    <2> QED
      BY <2>2, <1>1
  <1>7. ASSUME NEW i \in 1..n, i # 1 PROVE r[i] = r[i - 1] + 1
    <2>1. i - 1 \in 1..n
      BY <1>1, <1>7
    <2>2. r[i] = a.from + i - 1 /\ r[i - 1] = a.from + (i - 1) - 1
      BY <1>1, <2>1
    <2>3. i \in Int
      BY <1>3
    <2> QED
      BY <2>2, <2>3, <1>2
  <1> QED
    BY <1>1, <1>3, <1>4, <1>5, <1>6, <1>7 DEF WestToEast, r

\* Two windows that meet at the seam: the second begins whole turns from where
\* the first ends.
LEMMA SeamIsSame ==
    ASSUME NEW s, IsASource(s), Turn \in Nat \ {0, 1}, NEW a, NEW b,
           AWindow(s, a), AWindow(s, b), ~ s.mirrored, MeetAtSeam(s, a, b)
    PROVE  Same(West(s, b.from), West(s, a.to - 1) + s.step)
  <1> DEFINE x == s.left + b.from * s.step
             y == s.left + a.to * s.step
             n == (x - y) \div Turn
  <1>1. s.left \in Int /\ s.step \in Nat \ {0} /\ b.from \in Nat /\ a.to \in Int
    BY DEF IsASource, AWindow
  <1>2. x \in Int /\ y \in Int /\ (x - y) % Turn = 0
    BY <1>1 DEF MeetAtSeam
  <1>3. West(s, b.from) = x
    BY DEF West
  <1>4. West(s, a.to - 1) + s.step = y
    <2>1. (a.to - 1) * s.step = a.to * s.step - s.step
      BY <1>1
    <2>2. West(s, a.to - 1) = s.left + (a.to - 1) * s.step
      BY DEF West
    <2> QED
      BY <1>1, <2>1, <2>2
  <1> HIDE DEF x, y
  <1>5. n \in Int /\ x - y = n * Turn + ((x - y) % Turn)
    BY <1>2, Rest
  <1>6. n * Turn \in Int
    BY <1>5
  <1>7. x = y + n * Turn
    BY <1>2, <1>5, <1>6
  <1> QED
    BY <1>3, <1>4, <1>5, <1>7 DEF Same

\* The columns of two windows that meet at the seam are in order.
LEMMA TwoInOrder ==
    ASSUME NEW s, IsASource(s), Turn \in Nat \ {0, 1}, NEW q, NEW windows, NEW a, NEW b,
           ReadsTwo(s, q, windows, a, b)
    PROVE  WestToEast(s, q, Run(a) \o Run(b))
  <1> DEFINE m == a.to - a.from
             n == b.to - b.from
             r == Run(a)
             t == Run(b)
             c == r \o t
  <1>0. /\ AWindow(s, a) /\ AWindow(s, b) /\ ~ s.mirrored /\ MeetAtSeam(s, a, b)
        /\ \A k \in Int : Reads(a, k) \/ Reads(b, k) <=> Wanted(s, q, k)
        /\ \A k \in Int : ~ (Reads(a, k) /\ Reads(b, k))
    BY DEF ReadsTwo
  <1>1. r \in Seq(Int) /\ Len(r) = m /\ m \in Nat \ {0} /\ \A i \in 1..m : r[i] = a.from + i - 1
    BY <1>0, RunOf
  <1>2. t \in Seq(Int) /\ Len(t) = n /\ n \in Nat \ {0} /\ \A i \in 1..n : t[i] = b.from + i - 1
    BY <1>0, RunOf
  <1>3. /\ a.from \in Nat /\ a.to \in Int /\ b.from \in Nat /\ b.to \in Int
        /\ a.to = a.from + m /\ b.to = b.from + n
    BY <1>0 DEF AWindow
  <1>14. m \in Nat \ {0} /\ n \in Nat \ {0}
    BY <1>1, <1>2
  <1> HIDE DEF m, n, r, t
  <1>4. /\ c \in Seq(Int) /\ Len(c) = m + n
        /\ \A i \in 1..m + n : c[i] = IF i <= m THEN r[i] ELSE t[i - m]
    BY <1>1, <1>2, ConcatProperties
  <1>5. DOMAIN c = 1..m + n /\ m + n \in Nat
    BY <1>1, <1>2, <1>4
  <1> HIDE DEF c
  <1>6. /\ \A i \in 1..m : c[i] = a.from + i - 1
        /\ \A i \in m + 1..m + n : c[i] = b.from + (i - m) - 1
    <2>1. ASSUME NEW i \in 1..m PROVE c[i] = a.from + i - 1
      <3>1. i \in 1..m + n /\ i <= m
        BY <1>1, <1>2
      <3> QED
        BY <3>1, <1>1, <1>4
    <2>2. ASSUME NEW i \in m + 1..m + n PROVE c[i] = b.from + (i - m) - 1
      <3>1. i \in 1..m + n /\ ~ i <= m /\ i - m \in 1..n
        BY <1>1, <1>2
      <3>2. c[i] = t[i - m]
        BY <3>1, <1>4
      <3> QED
        BY <3>1, <3>2, <1>2
    <2> QED
      BY <2>1, <2>2
  <1>7. /\ \A i \in 1..m : c[i] \in Int /\ Reads(a, c[i])
        /\ \A i \in m + 1..m + n : c[i] \in Int /\ Reads(b, c[i])
    <2>1. ASSUME NEW i \in 1..m PROVE c[i] \in Int /\ Reads(a, c[i])
      <3>1. c[i] = a.from + i - 1
        BY <1>6
      <3> QED
        BY <3>1, <1>1, <1>3 DEF Reads
    <2>2. ASSUME NEW i \in m + 1..m + n PROVE c[i] \in Int /\ Reads(b, c[i])
      <3>1. c[i] = b.from + (i - m) - 1
        BY <1>6
      <3>2. i \in Int /\ m < i /\ i <= m + n
        BY <1>14
      <3>3. b.from <= b.from + (i - m) - 1 /\ b.from + (i - m) - 1 < b.to
        BY <3>2, <1>3, <1>14
      <3> QED
        BY <3>1, <3>2, <3>3, <1>3, <1>14 DEF Reads
    <2> QED
      BY <2>1, <2>2
  <1>8. \A i \in 1..m + n : i \in 1..m \/ i \in m + 1..m + n
    BY <1>1, <1>2
  <1>9. ASSUME NEW i \in 1..m + n PROVE Wanted(s, q, c[i])
    BY <1>0, <1>7, <1>8
  <1>10. ASSUME NEW i \in 1..m + n, NEW j \in 1..m + n, i # j PROVE c[i] # c[j]
    <2>1. CASE i \in 1..m /\ j \in 1..m
      BY <1>3, <1>6, <1>10, <2>1
    <2>2. CASE i \in m + 1..m + n /\ j \in m + 1..m + n
      <3>1. c[i] = b.from + (i - m) - 1 /\ c[j] = b.from + (j - m) - 1
        BY <1>6, <2>2
      <3>2. i \in Int /\ j \in Int
        BY <1>14
      <3> QED
        BY <3>1, <3>2, <1>3, <1>10, <1>14
    <2>3. CASE i \in 1..m /\ j \in m + 1..m + n
      BY <1>0, <1>7, <2>3
    <2>4. CASE i \in m + 1..m + n /\ j \in 1..m
      BY <1>0, <1>7, <2>4
    <2> QED
      BY <1>8, <2>1, <2>2, <2>3, <2>4
  <1>11. ASSUME NEW k \in Int, Wanted(s, q, k) PROVE \E i \in 1..m + n : c[i] = k
    <2>1. Reads(a, k) \/ Reads(b, k)
      BY <1>0, <1>11
    <2>2. CASE Reads(a, k)
      <3>1. k - a.from + 1 \in 1..m /\ a.from + (k - a.from + 1) - 1 = k
        BY <2>2, <1>1, <1>3 DEF Reads
      <3>2. k - a.from + 1 \in 1..m + n
        BY <3>1, <1>1, <1>2
      <3> QED
        BY <3>1, <3>2, <1>6
    <2>3. CASE Reads(b, k)
      <3> DEFINE i == m + (k - b.from + 1)
      <3>2. b.from <= k /\ k < b.from + n
        BY <2>3, <1>3 DEF Reads
      <3>1. i \in m + 1..m + n /\ b.from + (i - m) - 1 = k /\ i \in 1..m + n
        BY <3>2, <1>3, <1>14
      <3> QED
        BY <3>1, <1>6
    <2> QED
      BY <2>1, <2>2, <2>3
  <1>12. ASSUME NEW i \in 1..m + n, i # 1
         PROVE  \/ c[i] = c[i - 1] + 1
                \/ ~ s.mirrored /\ Same(West(s, c[i]), West(s, c[i - 1]) + s.step)
    <2>1. CASE i <= m
      <3>1. i \in 1..m /\ i - 1 \in 1..m
        BY <1>1, <1>2, <1>12, <2>1
      <3>2. c[i] = a.from + i - 1 /\ c[i - 1] = a.from + (i - 1) - 1
        BY <3>1, <1>6
      <3> QED
        BY <3>2, <1>3, <1>14
    <2>2. CASE i > m + 1
      <3>1. i \in m + 1..m + n /\ i - 1 \in m + 1..m + n
        BY <1>1, <1>2, <2>2
      <3>2. c[i] = b.from + (i - m) - 1 /\ c[i - 1] = b.from + (i - 1 - m) - 1
        BY <3>1, <1>6
      <3> QED
        BY <3>2, <1>3, <1>14
    <2>3. CASE i = m + 1
      <3>1. i \in m + 1..m + n /\ i - 1 \in 1..m /\ i - 1 = m
        BY <1>1, <1>2, <2>3
      <3>2. c[i] = b.from /\ c[i - 1] = a.to - 1
        <4>1. c[i] = b.from + (i - m) - 1 /\ c[i - 1] = a.from + m - 1
          BY <3>1, <1>6
        <4> QED
          BY <4>1, <2>3, <1>1, <1>3
      <3>3. Same(West(s, b.from), West(s, a.to - 1) + s.step)
        BY <1>0, SeamIsSame
      <3> QED
        BY <3>2, <3>3, <1>0
    <2> QED
      BY <1>1, <1>2, <2>1, <2>2, <2>3
  <1> HIDE DEF m, n
  <1> QED
    BY <1>4, <1>5, <1>9, <1>10, <1>11, <1>12 DEF WestToEast, c, r, t

\* The columns read for an area are in order.
LEMMA ReadInOrder ==
    ASSUME NEW s, IsASource(s), Turn \in Nat \ {0, 1}, NEW q \in AreaRequests,
           Len(ColumnsOf(WindowForAoi(s, q).windows)) >= 2
    PROVE  WestToEast(s, q, ColumnsOf(WindowForAoi(s, q).windows))
  <1> DEFINE windows == WindowForAoi(s, q).windows
  <1>1. \/ windows = <<>>
        \/ \E a : ReadsOne(s, q, windows, a)
        \/ \E a, b : ReadsTwo(s, q, windows, a, b)
    BY WhatIsRead
  <1> HIDE DEF windows
  <1>2. CASE windows = <<>>
    <2>1. ColumnsOf(<<>>) = <<>>
      BY ColumnsOfFew
    <2> QED
      BY <1>2, <2>1, Len(<<>>) = 0 DEF windows
  <1>3. ASSUME NEW a, ReadsOne(s, q, windows, a) PROVE WestToEast(s, q, ColumnsOf(windows))
    <2>1. windows = <<a>> /\ WestToEast(s, q, Run(a))
      BY <1>3, OneInOrder DEF ReadsOne
    <2> QED
      BY <2>1, ColumnsOfFew
  <1>4. ASSUME NEW a, NEW b, ReadsTwo(s, q, windows, a, b) PROVE WestToEast(s, q, ColumnsOf(windows))
    <2>1. windows = <<a, b>> /\ WestToEast(s, q, Run(a) \o Run(b))
      BY <1>4, TwoInOrder DEF ReadsTwo
    <2> QED
      BY <2>1, ColumnsOfFew
  <1> QED
    BY <1>1, <1>2, <1>3, <1>4 DEF windows

\* An area selected is what WindowForAoi selects for some source and request.
AoiInv ==
    /\ gpc = "start" => area = Nothing
    /\ (gpc = "selected" /\ area # Nothing) =>
          \E s \in AreaSources, q \in AreaRequests :
              /\ area = [source |-> s, request |-> q, windows |-> WindowForAoi(s, q).windows,
                         within |-> WindowForAoi(s, q).within]
              /\ Len(ColumnsOf(WindowForAoi(s, q).windows)) >= 2

\* The columns read can be counted.
LEMMA CountOfColumns ==
    ASSUME NEW s \in AreaSources, NEW q \in AreaRequests
    PROVE  Len(ColumnsOf(WindowForAoi(s, q).windows)) \in Int
  <1> DEFINE windows == WindowForAoi(s, q).windows
  <1>1. IsASource(s) /\ Turn \in Nat \ {0, 1}
    BY PartsOf, SourceFacts
  <1>2. \/ windows = <<>>
        \/ \E a : ReadsOne(s, q, windows, a)
        \/ \E a, b : ReadsTwo(s, q, windows, a, b)
    BY <1>1, WhatIsRead
  <1> HIDE DEF windows
  <1>3. CASE windows = <<>>
    BY <1>3, ColumnsOfFew, Len(<<>>) = 0 DEF windows
  <1>4. ASSUME NEW a, ReadsOne(s, q, windows, a) PROVE Len(ColumnsOf(windows)) \in Int
    <2>1. windows = <<a>> /\ WestToEast(s, q, Run(a))
      BY <1>4, OneInOrder DEF ReadsOne
    <2> QED
      BY <2>1, ColumnsOfFew DEF WestToEast
  <1>5. ASSUME NEW a, NEW b, ReadsTwo(s, q, windows, a, b) PROVE Len(ColumnsOf(windows)) \in Int
    <2>1. windows = <<a, b>> /\ WestToEast(s, q, Run(a) \o Run(b))
      BY <1>1, <1>5, TwoInOrder DEF ReadsTwo
    <2> QED
      BY <2>1, ColumnsOfFew DEF WestToEast
  <1> QED
    BY <1>2, <1>3, <1>4, <1>5 DEF windows

\* Only SelectArea selects an area, and only one of two columns or more.
LEMMA AoiIsSelected == TerrainSpec => []AoiInv
  <1>1. TerrainInit => AoiInv
    BY DEF TerrainInit, AoiInv
  <1>2. AoiInv /\ [TerrainNext]_terrainVars => AoiInv'
    <2> SUFFICES ASSUME AoiInv, [TerrainNext]_terrainVars PROVE AoiInv'
      OBVIOUS
    <2> USE DEF AoiInv
    <2>1. CASE SelectArea
      <3>1. gpc = "start" /\ area = Nothing
        BY <2>1 DEF SelectArea
      <3>2. CASE gpc' = "selected" /\ UNCHANGED area
        BY <3>1, <3>2
      <3>3. ASSUME NEW s \in AreaSources, NEW q \in AreaRequests,
                   LET found == WindowForAoi(s, q) IN
                   IF Len(ColumnsOf(found.windows)) < 2 THEN gpc' = "refused" /\ UNCHANGED area
                   ELSE /\ gpc' = "selected"
                        /\ area' = [source |-> s, request |-> q, windows |-> found.windows,
                                    within |-> found.within]
            PROVE  AoiInv'
        <4> DEFINE columns == ColumnsOf(WindowForAoi(s, q).windows)
        <4>1. CASE Len(columns) < 2
          BY <3>3, <4>1
        <4>2. CASE ~ Len(columns) < 2
          <5>1. Len(columns) \in Int
            BY CountOfColumns
          <5>2. Len(columns) >= 2
            BY <4>2, <5>1
          <5> QED
            BY <3>3, <4>2, <5>2
        <4> QED
          BY <4>1, <4>2
      <3> QED
        BY <2>1, <3>2, <3>3 DEF SelectArea
    <2>2. CASE ReadRaster
      BY <2>2 DEF ReadRaster, Refuse, End
    <2>3. CASE KeepMetricGrid \/ Reproject
      BY <2>3 DEF KeepMetricGrid, Reproject
    <2>4. CASE CropToSourceCoverage
      <3>1. gpc' \in {"gridded", "refused"}
        BY <2>4 DEF CropToSourceCoverage, Refuse, End
      <3> QED
        BY <3>1
    <2>5. CASE FillSmallNodata
      BY <2>5 DEF FillSmallNodata, Refuse, End
    <2>6. CASE SampleGrid
      <3>1. gpc' \in {"sampled", "refused"}
        BY <2>6 DEF SampleGrid, Refuse, End
      <3> QED
        BY <3>1
    <2>7. CASE ResolveScaling
      <3>1. gpc' \in {"scaled", "refused", "too_high"}
        BY <2>7 DEF ResolveScaling, Refuse, End
      <3> QED
        BY <3>1
    <2>8. CASE Preflight
      <3>1. gpc' \in {"preflighted", "refused"}
        BY <2>8 DEF Preflight, Refuse, End
      <3> QED
        BY <3>1
    <2>9. CASE BuildMesh
      BY <2>9 DEF BuildMesh
    <2>10. CASE VerifyMask
      <3>1. gpc' \in {"accepted", "rejected"}
        BY <2>10 DEF VerifyMask, End
      <3> QED
        BY <3>1
    <2>11. CASE UNCHANGED terrainVars
      BY <2>11 DEF terrainVars
    <2> QED
      BY <2>1, <2>2, <2>3, <2>4, <2>5, <2>6, <2>7, <2>8, <2>9, <2>10, <2>11 DEF TerrainNext
  <1> QED
    BY <1>1, <1>2, PTL DEF TerrainSpec

\* Columns in order show longitudes that follow one another.
LEMMA FollowOn ==
    ASSUME NEW s, IsASource(s), Turn \in Nat \ {0, 1}, NEW k \in Int, NEW l \in Int,
           l = k + 1 \/ (~ s.mirrored /\ Same(West(s, l), West(s, k) + s.step))
    PROVE  \E x \in LongitudesOf(s, k), y \in LongitudesOf(s, l) : (y - x) % Turn \in {1, Turn - 1}
  <1>1. s.step \in Nat \ {0} /\ West(s, k) \in Int /\ West(s, l) \in Int
    <2>1. k + 1 \in Int /\ l + 1 \in Int /\ k # k + 1 /\ l # l + 1
      OBVIOUS
    <2> QED
      BY <2>1, WestsApart DEF IsASource
  <1>2. CASE ~ s.mirrored
    <2> DEFINE x == West(s, k) + s.step - 1
               y == West(s, l)
    <2>1. x \in Int /\ y \in Int /\ x \in West(s, k)..West(s, k) + s.step - 1
          /\ y \in West(s, l)..West(s, l) + s.step - 1 /\ x + 1 = West(s, k) + s.step
      BY <1>1
    <2>2. Same(y, x + 1)
      <3>1. CASE l = k + 1
        <4>1. y = West(s, k) + s.step
          BY <1>2, <3>1, NextWest
        <4>2. y = (x + 1) + 0 * Turn
          BY <2>1, <4>1, <1>1
        <4> QED
          BY <4>2, 0 \in Int DEF Same
      <3>2. CASE Same(West(s, l), West(s, k) + s.step)
        BY <2>1, <3>2
      <3> QED
        BY <3>1, <3>2
    <2> HIDE DEF x, y
    <2>3. ((y % Turn) - (x % Turn)) % Turn = 1
      BY <2>1, <2>2, NextRest
    <2>4. x % Turn \in LongitudesOf(s, k) /\ y % Turn \in LongitudesOf(s, l)
      BY <2>1, Shown
    <2> QED
      BY <2>3, <2>4
  <1>3. CASE s.mirrored
    <2> DEFINE x == West(s, k)
               y == West(s, l) + s.step - 1
    <2>1. x \in Int /\ y \in Int /\ x \in West(s, k)..West(s, k) + s.step - 1
          /\ y \in West(s, l)..West(s, l) + s.step - 1 /\ y + 1 = West(s, l) + s.step
      BY <1>1
    <2>2. Same(x, y + 1)
      <3>1. West(s, l) = West(s, k) - s.step
        BY <1>3, NextWest
      <3>2. x = (y + 1) + 0 * Turn
        BY <2>1, <3>1, <1>1
      <3> QED
        BY <3>2, 0 \in Int DEF Same
    <2> HIDE DEF x, y
    <2>3. ((y % Turn) - (x % Turn)) % Turn = Turn - 1
      BY <2>1, <2>2, NextRest
    <2>4. x % Turn \in LongitudesOf(s, k) /\ y % Turn \in LongitudesOf(s, l)
      BY <2>1, Shown
    <2> QED
      BY <2>3, <2>4
  <1> QED
    BY <1>2, <1>3

\* What is selected for a source and a request is what is promised of it.
LEMMA AoiFromInv == ASSUME AoiInv PROVE AoiIsCoveredOnce
  <1> SUFFICES ASSUME gpc = "selected", area # Nothing
               PROVE  LET s == area.source
                          columns == ColumnsOf(area.windows)
                          shown(i) == LongitudesOf(s, columns[i])
                      IN /\ \A i, j \in DOMAIN columns : i # j => shown(i) \cap shown(j) = {}
                         /\ \A i \in DOMAIN columns : shown(i) \cap LongitudesAsked(area.request) # {}
                         /\ \A i \in DOMAIN columns \ {1} :
                               \E x \in shown(i - 1), y \in shown(i) : (y - x) % Turn \in {1, Turn - 1}
                         /\ area.within =>
                               LongitudesAsked(area.request) \subseteq UNION {shown(i) : i \in DOMAIN columns}
    BY DEF AoiIsCoveredOnce
  <1>1. PICK s \in AreaSources, q \in AreaRequests :
            /\ area = [source |-> s, request |-> q, windows |-> WindowForAoi(s, q).windows,
                       within |-> WindowForAoi(s, q).within]
            /\ Len(ColumnsOf(WindowForAoi(s, q).windows)) >= 2
    BY DEF AoiInv
  <1> DEFINE columns == ColumnsOf(WindowForAoi(s, q).windows)
             shown(i) == LongitudesOf(s, columns[i])
             D == DOMAIN columns
  <1>2. area.source = s /\ area.request = q /\ ColumnsOf(area.windows) = columns
        /\ area.within = WindowForAoi(s, q).within
    BY <1>1
  <1>3. Turn \in Nat \ {0, 1} /\ IsASource(s)
    BY PartsOf, SourceFacts
  <1>4. WestToEast(s, q, columns) /\ Len(columns) >= 2
    BY <1>1, <1>3, ReadInOrder
  <1>5. s.width \in Nat
    BY <1>3 DEF IsASource
  <1>12. WindowForAoi(s, q).within =>
            \A i \in DOMAIN BboxParts(q) :
               s.left <= PartOf(s, q, i).west /\ PartOf(s, q, i).east <= RightEdge(s)
    BY WindowsFound
  <1> HIDE DEF columns
  <1>6. D = 1..Len(columns) /\ Len(columns) \in Nat
    BY <1>4 DEF WestToEast
  <1>7. ASSUME NEW i \in D
        PROVE  /\ columns[i] \in 0..s.width - 1
               /\ \E p \in DOMAIN BboxParts(q) : Touches(s, columns[i], PartOf(s, q, p))
    BY <1>4 DEF WestToEast, Wanted
  <1>8. ASSUME NEW i \in D, NEW j \in D, i # j PROVE shown(i) \cap shown(j) = {}
    <2>1. columns[i] # columns[j]
      BY <1>4, <1>8 DEF WestToEast
    <2> QED
      BY <2>1, <1>3, <1>7, ColumnsApart
  <1>9. ~ AskedNothing(q)
    <2> SUFFICES ASSUME AskedNothing(q) PROVE FALSE
      OBVIOUS
    <2>1. 1 \in D /\ 2 \in D /\ 1 # 2
      BY <1>4, <1>6
    <2>2. columns[1] # columns[2]
      BY <2>1, <1>4 DEF WestToEast
    <2>3. columns[1] = columns[2]
      BY <2>1, <1>3, <1>7, NothingOnce
    <2> QED
      BY <2>2, <2>3
  <1>10. ASSUME NEW i \in D PROVE shown(i) \cap LongitudesAsked(q) # {}
    BY <1>3, <1>7, <1>9, PartAsked
  <1>11. ASSUME NEW i \in D \ {1}
         PROVE  \E x \in shown(i - 1), y \in shown(i) : (y - x) % Turn \in {1, Turn - 1}
    <2>1. i - 1 \in D /\ i \in D
      BY <1>6
    <2>2. columns[i] \in Int /\ columns[i - 1] \in Int
      BY <2>1, <1>5, <1>7
    <2>3. \/ columns[i] = columns[i - 1] + 1
          \/ ~ s.mirrored /\ Same(West(s, columns[i]), West(s, columns[i - 1]) + s.step)
      BY <1>4 DEF WestToEast
    <2> QED
      BY <2>2, <2>3, <1>3, FollowOn
  <1>13. ASSUME WindowForAoi(s, q).within, NEW v \in LongitudesAsked(q)
         PROVE  \E i \in D : v \in shown(i)
    <2>1. PICK p \in DOMAIN BboxParts(q), k \in 0..s.width - 1 :
              Touches(s, k, PartOf(s, q, p)) /\ v \in LongitudesOf(s, k)
      BY <1>3, <1>12, <1>13, PartsCover
    <2>2. k \in Int /\ Wanted(s, q, k)
      BY <2>1, <1>5 DEF Wanted
    <2>3. \E i \in D : columns[i] = k
      BY <2>2, <1>4 DEF WestToEast
    <2> QED
      BY <2>1, <2>3
  <1> HIDE DEF D, shown
  <1>14. WindowForAoi(s, q).within => LongitudesAsked(q) \subseteq UNION {shown(i) : i \in D}
    BY <1>13
  <1> QED
    BY <1>2, <1>8, <1>10, <1>11, <1>14 DEF D, shown

\* For every source of at most a turn, wherever it begins, mirrored or not, and
\* every request: the columns read follow one another around the globe, show no
\* longitude twice, each show one that was asked for, and together show all that
\* was asked for when it is reported as within the source (_aoi_bbox_parts,
\* _geographic_bounds_in_source_domain, _window_for_aoi).
THEOREM AoiIsCoveredOnceHolds == TerrainSpec => []AoiIsCoveredOnce
  BY AoiIsSelected, AoiFromInv, PTL

-----------------------------------------------------------------------------
(*****************************************************************************)
(* The closed mesh.                                                          *)
(*                                                                           *)
(* Every face has a code, and every directed edge of a face has an owner     *)
(* that is computed from the edge alone: so no edge is walked twice, and     *)
(* there are as many faces as codes and three times as many edges. Each edge *)
(* is walked the other way too, by a face that a look at its kind names.     *)
(*****************************************************************************)

\* The cells at the rim of a grid.
OnRim(R, C, r, c) ==
    /\ r \in 0..R - 1 /\ c \in 0..C - 1
    /\ r = 0 \/ r = R - 1 \/ c = 0 \/ c = C - 1
\* <<s, d>> is the next cell of the rim, clockwise.
Along(R, C, r, c, s, d) ==
    \/ r = 0 /\ s = 0 /\ c \in 0..C - 2 /\ d = c + 1
    \/ c = C - 1 /\ d = C - 1 /\ r \in 0..R - 2 /\ s = r + 1
    \/ r = R - 1 /\ s = R - 1 /\ c \in 1..C - 1 /\ d = c - 1
    \/ c = 0 /\ d = 0 /\ r \in 1..R - 1 /\ s = r - 1
\* The cell of the rim that follows, the one that precedes, and the i-th.
After(R, C, r, c) ==
    IF r = 0 /\ c < C - 1 THEN <<0, c + 1>>
    ELSE IF c = C - 1 /\ r < R - 1 THEN <<r + 1, C - 1>>
    ELSE IF r = R - 1 /\ c > 0 THEN <<R - 1, c - 1>>
    ELSE <<r - 1, 0>>
Before(R, C, r, c) ==
    IF r = 0 /\ c > 0 THEN <<0, c - 1>>
    ELSE IF c = C - 1 /\ r > 0 THEN <<r - 1, C - 1>>
    ELSE IF r = R - 1 /\ c < C - 1 THEN <<R - 1, c + 1>>
    ELSE <<r + 1, 0>>
Walk(R, C, i) ==
    IF i <= C THEN <<0, i - 1>>
    ELSE IF i <= C + R - 1 THEN <<i - C, C - 1>>
    ELSE IF i <= 2 * C + R - 2 THEN <<R - 1, C - 1 - (i - (C + R - 1))>>
    ELSE <<R - 1 - (i - (2 * C + R - 2)), 0>>

\* From every cell of the rim one goes on along it ...
LEMMA RimAfter ==
    ASSUME NEW R \in Nat \ {0, 1}, NEW C \in Nat \ {0, 1}, NEW r, NEW c, OnRim(R, C, r, c)
    PROVE  \E s \in 0..R - 1, d \in 0..C - 1 :
               OnRim(R, C, s, d) /\ After(R, C, r, c) = <<s, d>> /\ Along(R, C, r, c, s, d)
  <1>1. CASE r = 0 /\ c < C - 1
    <2>1. After(R, C, r, c) = <<0, c + 1>>
      BY <1>1 DEF After
    <2>2. OnRim(R, C, 0, c + 1) /\ Along(R, C, r, c, 0, c + 1)
      BY <1>1 DEF OnRim, Along
    <2> QED
      BY <2>1, <2>2 DEF OnRim
  <1>2. CASE ~(r = 0 /\ c < C - 1) /\ c = C - 1 /\ r < R - 1
    <2>1. After(R, C, r, c) = <<r + 1, C - 1>>
      BY <1>2 DEF After
    <2>2. OnRim(R, C, r + 1, C - 1) /\ Along(R, C, r, c, r + 1, C - 1)
      BY <1>2 DEF OnRim, Along
    <2> QED
      BY <2>1, <2>2 DEF OnRim
  <1>3. CASE ~(r = 0 /\ c < C - 1) /\ ~(c = C - 1 /\ r < R - 1) /\ r = R - 1 /\ c > 0
    <2>1. After(R, C, r, c) = <<R - 1, c - 1>>
      BY <1>3 DEF After
    <2>2. OnRim(R, C, R - 1, c - 1) /\ Along(R, C, r, c, R - 1, c - 1)
      BY <1>3 DEF OnRim, Along
    <2> QED
      BY <2>1, <2>2 DEF OnRim
  <1>4. CASE ~(r = 0 /\ c < C - 1) /\ ~(c = C - 1 /\ r < R - 1) /\ ~(r = R - 1 /\ c > 0)
    <2>1. After(R, C, r, c) = <<r - 1, 0>>
      BY <1>4 DEF After
    <2>2. OnRim(R, C, r - 1, 0) /\ Along(R, C, r, c, r - 1, 0)
      BY <1>4 DEF OnRim, Along
    <2> QED
      BY <2>1, <2>2 DEF OnRim
  <1> QED
    BY <1>1, <1>2, <1>3, <1>4

\* ... and has come to it along it.
LEMMA RimBefore ==
    ASSUME NEW R \in Nat \ {0, 1}, NEW C \in Nat \ {0, 1}, NEW r, NEW c, OnRim(R, C, r, c)
    PROVE  \E s \in 0..R - 1, d \in 0..C - 1 :
               OnRim(R, C, s, d) /\ Before(R, C, r, c) = <<s, d>> /\ Along(R, C, s, d, r, c)
  <1>1. CASE r = 0 /\ c > 0
    <2>1. Before(R, C, r, c) = <<0, c - 1>>
      BY <1>1 DEF Before
    <2>2. OnRim(R, C, 0, c - 1) /\ Along(R, C, 0, c - 1, r, c)
      BY <1>1 DEF OnRim, Along
    <2> QED
      BY <2>1, <2>2 DEF OnRim
  <1>2. CASE ~(r = 0 /\ c > 0) /\ c = C - 1 /\ r > 0
    <2>1. Before(R, C, r, c) = <<r - 1, C - 1>>
      BY <1>2 DEF Before
    <2>2. OnRim(R, C, r - 1, C - 1) /\ Along(R, C, r - 1, C - 1, r, c)
      BY <1>2 DEF OnRim, Along
    <2> QED
      BY <2>1, <2>2 DEF OnRim
  <1>3. CASE ~(r = 0 /\ c > 0) /\ ~(c = C - 1 /\ r > 0) /\ r = R - 1 /\ c < C - 1
    <2>1. Before(R, C, r, c) = <<R - 1, c + 1>>
      BY <1>3 DEF Before
    <2>2. OnRim(R, C, R - 1, c + 1) /\ Along(R, C, R - 1, c + 1, r, c)
      BY <1>3 DEF OnRim, Along
    <2> QED
      BY <2>1, <2>2 DEF OnRim
  <1>4. CASE ~(r = 0 /\ c > 0) /\ ~(c = C - 1 /\ r > 0) /\ ~(r = R - 1 /\ c < C - 1)
    <2>1. Before(R, C, r, c) = <<r + 1, 0>>
      BY <1>4 DEF Before
    <2>2. OnRim(R, C, r + 1, 0) /\ Along(R, C, r + 1, 0, r, c)
      BY <1>4 DEF OnRim, Along
    <2> QED
      BY <2>1, <2>2 DEF OnRim
  <1> QED
    BY <1>1, <1>2, <1>3, <1>4

\* A piece of the rim leads from a cell to its successor.
LEMMA AlongIsStep ==
    ASSUME NEW R \in Nat \ {0, 1}, NEW C \in Nat \ {0, 1}, NEW r, NEW c, NEW s, NEW d,
           Along(R, C, r, c, s, d)
    PROVE  /\ OnRim(R, C, r, c) /\ OnRim(R, C, s, d)
           /\ After(R, C, r, c) = <<s, d>> /\ Before(R, C, s, d) = <<r, c>>
  <1>1. CASE r = 0 /\ s = 0 /\ c \in 0..C - 2 /\ d = c + 1
    BY <1>1 DEF OnRim, After, Before
  <1>2. CASE c = C - 1 /\ d = C - 1 /\ r \in 0..R - 2 /\ s = r + 1
    BY <1>2 DEF OnRim, After, Before
  <1>3. CASE r = R - 1 /\ s = R - 1 /\ c \in 1..C - 1 /\ d = c - 1
    BY <1>3 DEF OnRim, After, Before
  <1>4. CASE c = 0 /\ d = 0 /\ r \in 1..R - 1 /\ s = r - 1
    BY <1>4 DEF OnRim, After, Before
  <1> QED
    BY <1>1, <1>2, <1>3, <1>4 DEF Along

\* A sequence of a length, and what a concatenation holds.
OfLength(S, p, n) == p \in Seq(S) /\ Len(p) = n /\ n \in Nat
JoinOf(z, p, q, m, n) == \A i \in 1..m + n : z[i] = IF i <= m THEN p[i] ELSE q[i - m]

\* A concatenation of two sequences.
LEMMA TwoSequences ==
    ASSUME NEW S, NEW p, NEW q, NEW m, NEW n, OfLength(S, p, m), OfLength(S, q, n)
    PROVE  OfLength(S, p \o q, m + n) /\ JoinOf(p \o q, p, q, m, n)
  <1>1. p \in Seq(S) /\ q \in Seq(S) /\ Len(p) = m /\ Len(q) = n /\ m \in Nat /\ n \in Nat
    BY DEF OfLength
  <1>2. /\ p \o q \in Seq(S)
        /\ Len(p \o q) = Len(p) + Len(q)
        /\ \A i \in 1 .. Len(p) + Len(q) : (p \o q)[i] = IF i <= Len(p) THEN p[i] ELSE q[i - Len(p)]
    BY <1>1, ConcatProperties
  <1> QED
    BY <1>1, <1>2 DEF OfLength, JoinOf

\* The perimeter walks the rim once: four sides, each without the corner that the
\* next one starts with.
LEMMA PerimeterWalks ==
    ASSUME NEW R \in Nat \ {0, 1}, NEW C \in Nat \ {0, 1}
    PROVE  /\ Len(Perimeter(<<R, C>>)) = 2 * R + 2 * C - 4
           /\ DOMAIN Perimeter(<<R, C>>) = 1..2 * R + 2 * C - 4
           /\ \A i \in 1..2 * R + 2 * C - 4 : Perimeter(<<R, C>>)[i] = Walk(R, C, i)
  <1> DEFINE P == Int \X Int
             south == [i \in 1..C |-> <<0, i - 1>>]
             east  == [i \in 1..R - 1 |-> <<i, C - 1>>]
             north == [i \in 1..C - 1 |-> <<R - 1, C - 1 - i>>]
             west  == [i \in 1..R - 2 |-> <<R - 1 - i, 0>>]
             a == south \o east
             b == a \o north
             w == b \o west
  <1>1. Perimeter(<<R, C>>) = w
    BY DEF Perimeter
  <1>2. /\ south \in Seq(P) /\ Len(south) = C
        /\ east \in Seq(P) /\ Len(east) = R - 1
        /\ north \in Seq(P) /\ Len(north) = C - 1
        /\ west \in Seq(P) /\ Len(west) = R - 2
    <2>1. C \in Nat /\ R - 1 \in Nat /\ C - 1 \in Nat /\ R - 2 \in Nat
      OBVIOUS
    <2>2. /\ \A i \in 1..C : <<0, i - 1>> \in P
          /\ \A i \in 1..R - 1 : <<i, C - 1>> \in P
          /\ \A i \in 1..C - 1 : <<R - 1, C - 1 - i>> \in P
          /\ \A i \in 1..R - 2 : <<R - 1 - i, 0>> \in P
      OBVIOUS
    <2>3. ASSUME NEW n \in Nat, NEW f \in [1..n -> P] PROVE f \in Seq(P) /\ Len(f) = n
      BY SMT
    <2>4. south \in [1..C -> P] /\ east \in [1..R - 1 -> P] /\ north \in [1..C - 1 -> P]
          /\ west \in [1..R - 2 -> P]
      <3> HIDE DEF P
      <3> QED
        BY <2>2
    <2> HIDE DEF P, south, east, north, west
    <2> QED
      BY <2>1, <2>3, <2>4
  <1>3. /\ \A i \in 1..C : south[i] = <<0, i - 1>>
        /\ \A i \in 1..R - 1 : east[i] = <<i, C - 1>>
        /\ \A i \in 1..C - 1 : north[i] = <<R - 1, C - 1 - i>>
        /\ \A i \in 1..R - 2 : west[i] = <<R - 1 - i, 0>>
    OBVIOUS
  <1>10. a = south \o east /\ b = a \o north /\ w = b \o west
    OBVIOUS
  <1> HIDE DEF P, south, east, north, west, a, b, w
  <1>9. C \in Nat /\ R - 1 \in Nat /\ C - 1 \in Nat /\ R - 2 \in Nat
        /\ C + (R - 1) \in Nat /\ C + (R - 1) + (C - 1) \in Nat
    OBVIOUS
  <1>11. OfLength(P, south, C) /\ OfLength(P, east, R - 1) /\ OfLength(P, north, C - 1) /\ OfLength(P, west, R - 2)
    BY <1>2, <1>9 DEF OfLength
  <1>4. OfLength(P, a, C + (R - 1)) /\ JoinOf(a, south, east, C, R - 1)
    BY <1>10, <1>11, TwoSequences, Zenon
  <1>5. OfLength(P, b, C + (R - 1) + (C - 1)) /\ JoinOf(b, a, north, C + (R - 1), C - 1)
    BY <1>4, <1>10, <1>11, TwoSequences, Zenon
  <1>6. OfLength(P, w, C + (R - 1) + (C - 1) + (R - 2)) /\ JoinOf(w, b, west, C + (R - 1) + (C - 1), R - 2)
    BY <1>5, <1>10, <1>11, TwoSequences, Zenon
  <1>7. Len(w) = 2 * R + 2 * C - 4 /\ DOMAIN w = 1..2 * R + 2 * C - 4
    <2>1. w \in Seq(P) /\ Len(w) = C + (R - 1) + (C - 1) + (R - 2)
      BY <1>6 DEF OfLength
    <2>2. DOMAIN w = 1..Len(w)
      BY <2>1
    <2> QED
      BY <2>1, <2>2
  <1>8. ASSUME NEW i \in 1..2 * R + 2 * C - 4 PROVE w[i] = Walk(R, C, i)
    <2>1. i \in 1..C + (R - 1) + (C - 1) + (R - 2) /\ i \in Int
      OBVIOUS
    <2>2. CASE i <= C
      <3>1. w[i] = south[i]
        BY <1>4, <1>5, <1>6, <2>1, <2>2 DEF JoinOf
      <3>2. i \in 1..C
        BY <2>2
      <3> QED
        BY <1>3, <2>2, <3>1, <3>2 DEF Walk
    <2>3. CASE ~(i <= C) /\ i <= C + R - 1
      <3>1. w[i] = east[i - C]
        BY <1>4, <1>5, <1>6, <2>1, <2>3 DEF JoinOf
      <3>2. i - C \in 1..R - 1
        BY <2>3
      <3> QED
        BY <1>3, <2>3, <3>1, <3>2 DEF Walk
    <2>4. CASE ~(i <= C + R - 1) /\ i <= 2 * C + R - 2
      <3>1. w[i] = north[i - (C + R - 1)]
        <4>1. i - (C + (R - 1)) = i - (C + R - 1)
          OBVIOUS
        <4> QED
          BY <1>5, <1>6, <2>1, <2>4, <4>1 DEF JoinOf
      <3>2. i - (C + R - 1) \in 1..C - 1
        BY <2>4
      <3> QED
        BY <1>3, <2>4, <3>1, <3>2 DEF Walk
    <2>5. CASE ~(i <= 2 * C + R - 2)
      <3>1. w[i] = west[i - (2 * C + R - 2)]
        <4>1. i - (C + (R - 1) + (C - 1)) = i - (2 * C + R - 2)
          OBVIOUS
        <4> QED
          BY <1>6, <2>1, <2>5, <4>1 DEF JoinOf
      <3>2. i - (2 * C + R - 2) \in 1..R - 2
        BY <2>5
      <3> QED
        BY <1>3, <2>5, <3>1, <3>2 DEF Walk
    <2> QED
      BY <2>2, <2>3, <2>4, <2>5
  <1> QED
    BY <1>1, <1>7, <1>8

\* Each step of the walk is a piece of the rim, and so is the last, back to the start.
LEMMA WalkGoesAround ==
    ASSUME NEW R \in Nat \ {0, 1}, NEW C \in Nat \ {0, 1}, NEW i \in 1..2 * R + 2 * C - 4
    PROVE  \E r, s \in 0..R - 1, c, d \in 0..C - 1 :
               /\ Walk(R, C, i) = <<r, c>> /\ Along(R, C, r, c, s, d)
               /\ Walk(R, C, (i % (2 * R + 2 * C - 4)) + 1) = <<s, d>>
  <1> DEFINE L == 2 * R + 2 * C - 4
             k == (i % L) + 1
  <1>1. k = IF i = L THEN 1 ELSE i + 1
    <2>1. L \in Nat \ {0} /\ i \in 1..L
      OBVIOUS
    <2>2. ASSUME NEW m \in Nat \ {0}, NEW j \in 1..m PROVE j % m = IF j = m THEN 0 ELSE j
      OBVIOUS
    <2> HIDE DEF L
    <2>3. i % L = IF i = L THEN 0 ELSE i
      BY <2>1, <2>2
    <2> QED
      BY <2>1, <2>3
  <1> HIDE DEF k
  <1>2. CASE i < C
    <2>1. Walk(R, C, i) = <<0, i - 1>> /\ Walk(R, C, k) = <<0, i>>
      BY <1>1, <1>2 DEF Walk
    <2>2. Along(R, C, 0, i - 1, 0, i) /\ 0 \in 0..R - 1 /\ i - 1 \in 0..C - 1 /\ i \in 0..C - 1
      BY <1>2 DEF Along
    <2> QED
      BY <2>1, <2>2 DEF k
  <1>3. CASE i >= C /\ i < C + R - 1
    <2>1. Walk(R, C, i) = <<i - C, C - 1>> /\ Walk(R, C, k) = <<i + 1 - C, C - 1>>
      BY <1>1, <1>3 DEF Walk
    <2>2. Along(R, C, i - C, C - 1, i + 1 - C, C - 1) /\ C - 1 \in 0..C - 1
          /\ i - C \in 0..R - 1 /\ i + 1 - C \in 0..R - 1
      BY <1>3 DEF Along
    <2> QED
      BY <2>1, <2>2 DEF k
  <1>4. CASE i >= C + R - 1 /\ i < 2 * C + R - 2
    <2> DEFINE c == C - 1 - (i - (C + R - 1))
    <2>1. Walk(R, C, i) = <<R - 1, c>> /\ Walk(R, C, k) = <<R - 1, c - 1>>
      BY <1>1, <1>4 DEF Walk
    <2>2. Along(R, C, R - 1, c, R - 1, c - 1) /\ R - 1 \in 0..R - 1
          /\ c \in 0..C - 1 /\ c - 1 \in 0..C - 1
      BY <1>4 DEF Along
    <2> QED
      BY <2>1, <2>2 DEF k
  <1>5. CASE i >= 2 * C + R - 2
    <2> DEFINE r == R - 1 - (i - (2 * C + R - 2))
    <2>1. Walk(R, C, i) = <<r, 0>> /\ Walk(R, C, k) = <<r - 1, 0>>
      BY <1>1, <1>5 DEF Walk
    <2>2. Along(R, C, r, 0, r - 1, 0) /\ 0 \in 0..C - 1
          /\ r \in 0..R - 1 /\ r - 1 \in 0..R - 1
      BY <1>5 DEF Along
    <2> QED
      BY <2>1, <2>2 DEF k
  <1> QED
    BY <1>2, <1>3, <1>4, <1>5

\* The walk comes to every cell of the rim.
LEMMA WalkVisitsRim ==
    ASSUME NEW R \in Nat \ {0, 1}, NEW C \in Nat \ {0, 1}, NEW r, NEW c, OnRim(R, C, r, c)
    PROVE  \E i \in 1..2 * R + 2 * C - 4 : Walk(R, C, i) = <<r, c>>
  <1>1. CASE r = 0
    <2>1. c + 1 \in 1..2 * R + 2 * C - 4 /\ Walk(R, C, c + 1) = <<r, c>>
      BY <1>1 DEF OnRim, Walk
    <2> QED
      BY <2>1
  <1>2. CASE r # 0 /\ c = C - 1
    <2>1. C + r \in 1..2 * R + 2 * C - 4 /\ Walk(R, C, C + r) = <<r, c>>
      BY <1>2 DEF OnRim, Walk
    <2> QED
      BY <2>1
  <1>3. CASE r = R - 1 /\ c # C - 1
    <2> DEFINE i == (C + R - 1) + (C - 1 - c)
    <2>1. i \in 1..2 * R + 2 * C - 4 /\ Walk(R, C, i) = <<r, c>>
      BY <1>3 DEF OnRim, Walk
    <2> QED
      BY <2>1
  <1>4. CASE r # 0 /\ r # R - 1 /\ c # C - 1
    <2> DEFINE i == (2 * C + R - 2) + (R - 1 - r)
    <2>1. i \in 1..2 * R + 2 * C - 4 /\ Walk(R, C, i) = <<r, c>>
      BY <1>4 DEF OnRim, Walk
    <2> QED
      BY <2>1
  <1> QED
    BY <1>1, <1>2, <1>3, <1>4

\* The two faces of a quad of the top, of the bottom, and of the wall below one
\* edge of the rim.
TopA(r, c)  == <<<<1, r, c>>, <<1, r, c + 1>>, <<1, r + 1, c + 1>>>>
TopB(r, c)  == <<<<1, r, c>>, <<1, r + 1, c + 1>>, <<1, r + 1, c>>>>
BottomA(r, c) == <<<<0, r, c>>, <<0, r + 1, c + 1>>, <<0, r, c + 1>>>>
BottomB(r, c) == <<<<0, r, c>>, <<0, r + 1, c>>, <<0, r + 1, c + 1>>>>
WallA(r, c, s, d) == <<<<1, r, c>>, <<0, r, c>>, <<0, s, d>>>>
WallB(r, c, s, d) == <<<<1, r, c>>, <<0, s, d>>, <<1, s, d>>>>

\* The faces of the top: two for each quad.
LEMMA FacesOfTop ==
    ASSUME NEW R \in Nat \ {0, 1}, NEW C \in Nat \ {0, 1}
    PROVE  \A f : f \in TopFaces(<<R, C>>) <=>
                \E r \in 0..R - 2, c \in 0..C - 2 : f \in {TopA(r, c), TopB(r, c)}
  <1> DEFINE t == <<R, C>>
             U == {{TopA(r, c), TopB(r, c)} : r \in 0..t[1] - 2, c \in 0..t[2] - 2}
  <1>3. t[1] = R /\ t[2] = C
    OBVIOUS
  <1> HIDE DEF t
  <1>2. TopFaces(t) = UNION U
    BY DEF TopFaces, TopA, TopB
  <1>4. \A S : S \in U <=> \E r \in 0..R - 2, c \in 0..C - 2 : S = {TopA(r, c), TopB(r, c)}
    BY <1>3
  <1> HIDE DEF U
  <1>5. \A f : f \in TopFaces(t) <=> \E S \in U : f \in S
    BY <1>2
  <1>6. \A f : f \in TopFaces(t) <=>
          \E r \in 0..R - 2, c \in 0..C - 2 : f \in {TopA(r, c), TopB(r, c)}
    <2>1. ASSUME NEW f \in TopFaces(t)
          PROVE  \E r \in 0..R - 2, c \in 0..C - 2 : f \in {TopA(r, c), TopB(r, c)}
      <3>1. PICK S \in U : f \in S
        BY <1>5
      <3>2. PICK r \in 0..R - 2, c \in 0..C - 2 : S = {TopA(r, c), TopB(r, c)}
        BY <1>4
      <3> QED
        BY <3>1, <3>2
    <2>2. ASSUME NEW r \in 0..R - 2, NEW c \in 0..C - 2, NEW f \in {TopA(r, c), TopB(r, c)}
          PROVE  f \in TopFaces(t)
      <3>1. {TopA(r, c), TopB(r, c)} \in U
        BY <1>4
      <3> QED
        BY <1>5, <3>1
    <2> QED
      BY <2>1, <2>2
  <1> QED
    BY <1>6 DEF t

\* The faces of the bottom: two for each quad, the other way round.
LEMMA FacesOfBottom ==
    ASSUME NEW R \in Nat \ {0, 1}, NEW C \in Nat \ {0, 1}
    PROVE  \A f : f \in BottomFaces(<<R, C>>) <=>
                \E r \in 0..R - 2, c \in 0..C - 2 : f \in {BottomA(r, c), BottomB(r, c)}
  <1> DEFINE t == <<R, C>>
             U == {{BottomA(r, c), BottomB(r, c)} : r \in 0..t[1] - 2, c \in 0..t[2] - 2}
  <1>3. t[1] = R /\ t[2] = C
    OBVIOUS
  <1> HIDE DEF t
  <1>2. BottomFaces(t) = UNION U
    BY DEF BottomFaces, BottomA, BottomB
  <1>4. \A S : S \in U <=> \E r \in 0..R - 2, c \in 0..C - 2 : S = {BottomA(r, c), BottomB(r, c)}
    BY <1>3
  <1> HIDE DEF U
  <1>5. \A f : f \in BottomFaces(t) <=> \E S \in U : f \in S
    BY <1>2
  <1>6. \A f : f \in BottomFaces(t) <=>
          \E r \in 0..R - 2, c \in 0..C - 2 : f \in {BottomA(r, c), BottomB(r, c)}
    <2>1. ASSUME NEW f \in BottomFaces(t)
          PROVE  \E r \in 0..R - 2, c \in 0..C - 2 : f \in {BottomA(r, c), BottomB(r, c)}
      <3>1. PICK S \in U : f \in S
        BY <1>5
      <3>2. PICK r \in 0..R - 2, c \in 0..C - 2 : S = {BottomA(r, c), BottomB(r, c)}
        BY <1>4
      <3> QED
        BY <3>1, <3>2
    <2>2. ASSUME NEW r \in 0..R - 2, NEW c \in 0..C - 2, NEW f \in {BottomA(r, c), BottomB(r, c)}
          PROVE  f \in BottomFaces(t)
      <3>1. {BottomA(r, c), BottomB(r, c)} \in U
        BY <1>4
      <3> QED
        BY <1>5, <3>1
    <2> QED
      BY <2>1, <2>2
  <1> QED
    BY <1>6 DEF t

\* The faces of the walls: two for each piece of the rim.
LEMMA FacesOfWalls ==
    ASSUME NEW R \in Nat \ {0, 1}, NEW C \in Nat \ {0, 1}, NEW f
    PROVE  f \in WallFaces(<<R, C>>) <=>
             \E r, s \in 0..R - 1, c, d \in 0..C - 1 :
                 Along(R, C, r, c, s, d) /\ f \in {WallA(r, c, s, d), WallB(r, c, s, d)}
  <1> DEFINE L == 2 * R + 2 * C - 4
             round == Perimeter(<<R, C>>)
             next(i) == round[(i % Len(round)) + 1]
             at(layer, v) == <<layer, v[1], v[2]>>
             A(i) == <<at(1, round[i]), at(0, round[i]), at(0, next(i))>>
             B(i) == <<at(1, round[i]), at(0, next(i)), at(1, next(i))>>
  <1>1. f \in WallFaces(<<R, C>>) <=> \E i \in DOMAIN round : f \in {A(i), B(i)}
    BY DEF WallFaces
  <1>2. Len(round) = L /\ DOMAIN round = 1..L /\ \A i \in 1..L : round[i] = Walk(R, C, i)
    BY PerimeterWalks
  <1>3. \A i \in 1..L : (i % L) + 1 \in 1..L
    OBVIOUS
  <1> HIDE DEF round
  <1>4. ASSUME NEW i \in 1..L, NEW r, NEW s, NEW c, NEW d,
               Walk(R, C, i) = <<r, c>>, Walk(R, C, (i % L) + 1) = <<s, d>>
        PROVE  A(i) = WallA(r, c, s, d) /\ B(i) = WallB(r, c, s, d)
    <2>1. round[i] = <<r, c>> /\ next(i) = <<s, d>>
      BY <1>2, <1>3, <1>4
    <2> HIDE DEF next
    <2> QED
      BY <2>1 DEF WallA, WallB
  <1> HIDE DEF A, B
  <1>5. ASSUME NEW i \in 1..L, f \in {A(i), B(i)}
        PROVE  \E r, s \in 0..R - 1, c, d \in 0..C - 1 :
                 Along(R, C, r, c, s, d) /\ f \in {WallA(r, c, s, d), WallB(r, c, s, d)}
    <2>1. PICK r \in 0..R - 1, s \in 0..R - 1, c \in 0..C - 1, d \in 0..C - 1 :
               /\ Walk(R, C, i) = <<r, c>> /\ Along(R, C, r, c, s, d)
               /\ Walk(R, C, (i % L) + 1) = <<s, d>>
      BY WalkGoesAround
    <2> HIDE DEF L
    <2> QED
      BY <1>4, <1>5, <2>1
  <1>6. ASSUME NEW r \in 0..R - 1, NEW s \in 0..R - 1, NEW c \in 0..C - 1, NEW d \in 0..C - 1,
               Along(R, C, r, c, s, d), f \in {WallA(r, c, s, d), WallB(r, c, s, d)}
        PROVE  \E i \in 1..L : f \in {A(i), B(i)}
    <2>1. OnRim(R, C, r, c) /\ After(R, C, r, c) = <<s, d>>
      BY <1>6, AlongIsStep
    <2>2. PICK i \in 1..L : Walk(R, C, i) = <<r, c>>
      BY <2>1, WalkVisitsRim
    <2>3. PICK p \in 0..R - 1, x \in 0..R - 1, q \in 0..C - 1, y \in 0..C - 1 :
               /\ Walk(R, C, i) = <<p, q>> /\ Along(R, C, p, q, x, y)
               /\ Walk(R, C, (i % L) + 1) = <<x, y>>
      BY WalkGoesAround
    <2>4. p = r /\ q = c
      BY <2>2, <2>3
    <2>5. <<x, y>> = <<s, d>>
      BY <2>1, <2>3, <2>4, AlongIsStep
    <2> HIDE DEF L
    <2>6. A(i) = WallA(r, c, s, d) /\ B(i) = WallB(r, c, s, d)
      BY <1>4, <2>2, <2>3, <2>5
    <2> QED
      BY <1>6, <2>6
  <1> HIDE DEF L
  <1> QED
    BY <1>1, <1>2, <1>5, <1>6

\* A code for every face: which of the six, and the cell.
Rim(R, C) == {v \in (0..R - 1) \X (0..C - 1) : OnRim(R, C, v[1], v[2])}
FaceCodes(R, C) ==
    ((1..4) \X ((0..R - 2) \X (0..C - 2))) \cup ((5..6) \X Rim(R, C))

\* The face of a code; a wall's faces are told by the upper end of the first of
\* them and by the end they have in common with the next wall.
FaceOf(R, C, k, r, c) ==
    IF k = 1 THEN TopA(r, c) ELSE IF k = 2 THEN TopB(r, c)
    ELSE IF k = 3 THEN BottomA(r, c) ELSE IF k = 4 THEN BottomB(r, c)
    ELSE IF k = 5 THEN WallA(r, c, After(R, C, r, c)[1], After(R, C, r, c)[2])
    ELSE WallB(Before(R, C, r, c)[1], Before(R, C, r, c)[2], r, c)

\* The codes name the faces of the mesh, and no others.
LEMMA CodesOfFaces ==
    ASSUME NEW R \in Nat \ {0, 1}, NEW C \in Nat \ {0, 1}
    PROVE  RectangularFaces(<<R, C>>) = {FaceOf(R, C, x[1], x[2][1], x[2][2]) : x \in FaceCodes(R, C)}
  <1> DEFINE F == {FaceOf(R, C, x[1], x[2][1], x[2][2]) : x \in FaceCodes(R, C)}
  <1>1. ASSUME NEW k \in 1..4, NEW r \in 0..R - 2, NEW c \in 0..C - 2
        PROVE  FaceOf(R, C, k, r, c) \in F
    <2> DEFINE x == <<k, <<r, c>>>>
    <2>1. x \in FaceCodes(R, C) /\ x[1] = k /\ x[2][1] = r /\ x[2][2] = c
      BY DEF FaceCodes
    <2> HIDE DEF x
    <2> QED
      BY <2>1
  <1>2. ASSUME NEW k \in 5..6, NEW r, NEW c, OnRim(R, C, r, c)
        PROVE  FaceOf(R, C, k, r, c) \in F
    <2> DEFINE x == <<k, <<r, c>>>>
    <2>1. x \in FaceCodes(R, C) /\ x[1] = k /\ x[2][1] = r /\ x[2][2] = c
      BY <1>2 DEF FaceCodes, Rim, OnRim
    <2> HIDE DEF x
    <2> QED
      BY <2>1
  <1>3. ASSUME NEW f \in F
        PROVE  \/ \E k \in 1..4, r \in 0..R - 2, c \in 0..C - 2 : f = FaceOf(R, C, k, r, c)
               \/ \E k \in 5..6, r \in 0..R - 1, c \in 0..C - 1 :
                      OnRim(R, C, r, c) /\ f = FaceOf(R, C, k, r, c)
    <2>1. PICK x \in FaceCodes(R, C) : f = FaceOf(R, C, x[1], x[2][1], x[2][2])
      OBVIOUS
    <2>2. CASE x \in (1..4) \X ((0..R - 2) \X (0..C - 2))
      <3>1. x[1] \in 1..4 /\ x[2][1] \in 0..R - 2 /\ x[2][2] \in 0..C - 2
        BY <2>2
      <3> QED
        BY <2>1, <3>1
    <2>3. CASE x \in (5..6) \X Rim(R, C)
      <3>1. x[1] \in 5..6 /\ x[2][1] \in 0..R - 1 /\ x[2][2] \in 0..C - 1
            /\ OnRim(R, C, x[2][1], x[2][2])
        BY <2>3 DEF Rim
      <3> QED
        BY <2>1, <3>1
    <2> QED
      BY <2>2, <2>3 DEF FaceCodes
  <1> HIDE DEF F
  <1>4. \A f : f \in TopFaces(<<R, C>>) <=>
            \E r \in 0..R - 2, c \in 0..C - 2 : f \in {TopA(r, c), TopB(r, c)}
    BY FacesOfTop
  <1>5. \A f : f \in BottomFaces(<<R, C>>) <=>
            \E r \in 0..R - 2, c \in 0..C - 2 : f \in {BottomA(r, c), BottomB(r, c)}
    BY FacesOfBottom
  <1>6. \A r, c : /\ FaceOf(R, C, 1, r, c) = TopA(r, c) /\ FaceOf(R, C, 2, r, c) = TopB(r, c)
                  /\ FaceOf(R, C, 3, r, c) = BottomA(r, c) /\ FaceOf(R, C, 4, r, c) = BottomB(r, c)
    BY DEF FaceOf
  <1>7. ASSUME NEW r, NEW c, NEW s, NEW d, Along(R, C, r, c, s, d)
        PROVE  FaceOf(R, C, 5, r, c) = WallA(r, c, s, d) /\ FaceOf(R, C, 6, s, d) = WallB(r, c, s, d)
    <2>1. After(R, C, r, c) = <<s, d>> /\ Before(R, C, s, d) = <<r, c>>
      BY <1>7, AlongIsStep
    <2> QED
      BY <2>1 DEF FaceOf
  <1>8. ASSUME NEW f \in RectangularFaces(<<R, C>>) PROVE f \in F
    <2>1. CASE f \in TopFaces(<<R, C>>)
      <3>1. PICK r \in 0..R - 2, c \in 0..C - 2 : f \in {TopA(r, c), TopB(r, c)}
        BY <1>4, <2>1
      <3>2. FaceOf(R, C, 1, r, c) \in F /\ FaceOf(R, C, 2, r, c) \in F
        BY <1>1
      <3> QED
        BY <1>6, <3>1, <3>2
    <2>2. CASE f \in BottomFaces(<<R, C>>)
      <3>1. PICK r \in 0..R - 2, c \in 0..C - 2 : f \in {BottomA(r, c), BottomB(r, c)}
        BY <1>5, <2>2
      <3>2. FaceOf(R, C, 3, r, c) \in F /\ FaceOf(R, C, 4, r, c) \in F
        BY <1>1
      <3> QED
        BY <1>6, <3>1, <3>2
    <2>3. CASE f \in WallFaces(<<R, C>>)
      <3>1. PICK r \in 0..R - 1, s \in 0..R - 1, c \in 0..C - 1, d \in 0..C - 1 :
                 Along(R, C, r, c, s, d) /\ f \in {WallA(r, c, s, d), WallB(r, c, s, d)}
        BY <2>3, FacesOfWalls
      <3>2. OnRim(R, C, r, c) /\ OnRim(R, C, s, d)
        BY <3>1, AlongIsStep
      <3>3. FaceOf(R, C, 5, r, c) \in F /\ FaceOf(R, C, 6, s, d) \in F
        BY <1>2, <3>2
      <3> QED
        BY <1>7, <3>1, <3>3
    <2> QED
      BY <2>1, <2>2, <2>3 DEF RectangularFaces
  <1>9. ASSUME NEW f \in F PROVE f \in RectangularFaces(<<R, C>>)
    <2>1. CASE \E k \in 1..4, r \in 0..R - 2, c \in 0..C - 2 : f = FaceOf(R, C, k, r, c)
      <3>1. PICK k \in 1..4, r \in 0..R - 2, c \in 0..C - 2 : f = FaceOf(R, C, k, r, c)
        BY <2>1
      <3>2. k \in {1, 2, 3, 4}
        OBVIOUS
      <3>3. f \in {TopA(r, c), TopB(r, c), BottomA(r, c), BottomB(r, c)}
        BY <1>6, <3>1, <3>2
      <3> QED
        BY <1>4, <1>5, <3>3 DEF RectangularFaces
    <2>2. CASE \E k \in 5..6, r \in 0..R - 1, c \in 0..C - 1 :
                      OnRim(R, C, r, c) /\ f = FaceOf(R, C, k, r, c)
      <3>1. PICK k \in 5..6, r \in 0..R - 1, c \in 0..C - 1 :
                      OnRim(R, C, r, c) /\ f = FaceOf(R, C, k, r, c)
        BY <2>2
      <3>2. k \in {5, 6}
        OBVIOUS
      <3>3. CASE k = 5
        <4>1. PICK s \in 0..R - 1, d \in 0..C - 1 : Along(R, C, r, c, s, d)
          BY <3>1, RimAfter
        <4>2. f = WallA(r, c, s, d)
          BY <1>7, <3>1, <3>3, <4>1
        <4>3. f \in WallFaces(<<R, C>>)
          BY <4>1, <4>2, FacesOfWalls
        <4> QED
          BY <4>3 DEF RectangularFaces
      <3>4. CASE k = 6
        <4>1. PICK s \in 0..R - 1, d \in 0..C - 1 : Along(R, C, s, d, r, c)
          BY <3>1, RimBefore
        <4>2. f = WallB(s, d, r, c)
          BY <1>7, <3>1, <3>4, <4>1
        <4>3. f \in WallFaces(<<R, C>>)
          BY <4>1, <4>2, FacesOfWalls
        <4> QED
          BY <4>3 DEF RectangularFaces
      <3> QED
        BY <3>2, <3>3, <3>4
    <2> QED
      BY <1>3, <2>1, <2>2
  <1>10. RectangularFaces(<<R, C>>) = F
    BY <1>8, <1>9
  <1> QED
    BY <1>10 DEF F

\* Which face walks an edge, and as which of its three.
Owner(R, C, l, r, c, m, s, d) ==
    IF l = 1 /\ m = 1 THEN
        IF s = r /\ d = c + 1 /\ r < R - 1 THEN <<1, r, c, 1>>
        ELSE IF s = r + 1 /\ d = c /\ c > 0 THEN <<1, r, c - 1, 2>>
        ELSE IF s = r - 1 /\ d = c - 1 THEN <<1, s, d, 3>>
        ELSE IF s = r + 1 /\ d = c + 1 THEN <<2, r, c, 1>>
        ELSE IF s = r /\ d = c - 1 /\ r > 0 THEN <<2, r - 1, d, 2>>
        ELSE IF s = r - 1 /\ d = c /\ c < C - 1 THEN <<2, s, d, 3>>
        ELSE <<6, r, c, 3>>
    ELSE IF l = 0 /\ m = 0 THEN
        IF s = r + 1 /\ d = c + 1 THEN <<3, r, c, 1>>
        ELSE IF s = r - 1 /\ d = c /\ c > 0 THEN <<3, s, d - 1, 2>>
        ELSE IF s = r /\ d = c - 1 /\ r < R - 1 THEN <<3, s, d, 3>>
        ELSE IF s = r + 1 /\ d = c /\ c < C - 1 THEN <<4, r, c, 1>>
        ELSE IF s = r /\ d = c + 1 /\ r > 0 THEN <<4, r - 1, c, 2>>
        ELSE IF s = r - 1 /\ d = c - 1 THEN <<4, s, d, 3>>
        ELSE <<5, r, c, 2>>
    ELSE IF l = 1 THEN (IF s = r /\ d = c THEN <<5, r, c, 1>> ELSE <<6, s, d, 1>>)
    ELSE (IF s = r /\ d = c THEN <<6, r, c, 2>> ELSE <<5, s, d, 3>>)

\* The edges of the top are told from one another by where they lead ...
LEMMA TopOwners ==
    ASSUME NEW R \in Nat \ {0, 1}, NEW C \in Nat \ {0, 1}, NEW r \in 0..R - 2, NEW c \in 0..C - 2
    PROVE  /\ Owner(R, C, 1, r, c, 1, r, c + 1) = <<1, r, c, 1>>
           /\ Owner(R, C, 1, r, c + 1, 1, r + 1, c + 1) = <<1, r, c, 2>>
           /\ Owner(R, C, 1, r + 1, c + 1, 1, r, c) = <<1, r, c, 3>>
           /\ Owner(R, C, 1, r, c, 1, r + 1, c + 1) = <<2, r, c, 1>>
           /\ Owner(R, C, 1, r + 1, c + 1, 1, r + 1, c) = <<2, r, c, 2>>
           /\ Owner(R, C, 1, r + 1, c, 1, r, c) = <<2, r, c, 3>>
  BY DEF Owner

\* ... and so are those of the bottom ...
LEMMA BottomOwners ==
    ASSUME NEW R \in Nat \ {0, 1}, NEW C \in Nat \ {0, 1}, NEW r \in 0..R - 2, NEW c \in 0..C - 2
    PROVE  /\ Owner(R, C, 0, r, c, 0, r + 1, c + 1) = <<3, r, c, 1>>
           /\ Owner(R, C, 0, r + 1, c + 1, 0, r, c + 1) = <<3, r, c, 2>>
           /\ Owner(R, C, 0, r, c + 1, 0, r, c) = <<3, r, c, 3>>
           /\ Owner(R, C, 0, r, c, 0, r + 1, c) = <<4, r, c, 1>>
           /\ Owner(R, C, 0, r + 1, c, 0, r + 1, c + 1) = <<4, r, c, 2>>
           /\ Owner(R, C, 0, r + 1, c + 1, 0, r, c) = <<4, r, c, 3>>
  BY DEF Owner

\* ... and those of the walls.
LEMMA WallOwners ==
    ASSUME NEW R \in Nat \ {0, 1}, NEW C \in Nat \ {0, 1},
           NEW r, NEW c, NEW s, NEW d, Along(R, C, r, c, s, d)
    PROVE  /\ Owner(R, C, 1, r, c, 0, r, c) = <<5, r, c, 1>>
           /\ Owner(R, C, 0, r, c, 0, s, d) = <<5, r, c, 2>>
           /\ Owner(R, C, 0, s, d, 1, r, c) = <<5, r, c, 3>>
           /\ Owner(R, C, 1, r, c, 0, s, d) = <<6, s, d, 1>>
           /\ Owner(R, C, 0, s, d, 1, s, d) = <<6, s, d, 2>>
           /\ Owner(R, C, 1, s, d, 1, r, c) = <<6, s, d, 3>>
  <1>1. CASE r = 0 /\ s = 0 /\ c \in 0..C - 2 /\ d = c + 1
    BY <1>1 DEF Owner
  <1>2. CASE c = C - 1 /\ d = C - 1 /\ r \in 0..R - 2 /\ s = r + 1
    BY <1>2 DEF Owner
  <1>3. CASE r = R - 1 /\ s = R - 1 /\ c \in 1..C - 1 /\ d = c - 1
    BY <1>3 DEF Owner
  <1>4. CASE c = 0 /\ d = 0 /\ r \in 1..R - 1 /\ s = r - 1
    BY <1>4 DEF Owner
  <1> QED
    BY <1>1, <1>2, <1>3, <1>4 DEF Along

\* The three edges of a face, and the owner of an edge.
EdgeOf(f, p) == <<f[p], f[IF p = 3 THEN 1 ELSE p + 1]>>
OwnerOf(R, C, e) == Owner(R, C, e[1][1], e[1][2], e[1][3], e[2][1], e[2][2], e[2][3])

\* So no two faces share a directed edge, and no face has one twice.
LEMMA EdgesAreOwned ==
    ASSUME NEW R \in Nat \ {0, 1}, NEW C \in Nat \ {0, 1}, NEW x \in FaceCodes(R, C), NEW p \in 1..3
    PROVE  OwnerOf(R, C, EdgeOf(FaceOf(R, C, x[1], x[2][1], x[2][2]), p)) = <<x[1], x[2][1], x[2][2], p>>
  <1> DEFINE k == x[1]
             r == x[2][1]
             c == x[2][2]
  <1>1. ASSUME NEW a, NEW b, NEW l, NEW i, NEW j, NEW m, NEW s, NEW d, NEW n, NEW y, NEW z
        PROVE  LET f == <<<<l, i, j>>, <<m, s, d>>, <<n, y, z>>>>
               IN /\ OwnerOf(R, C, EdgeOf(f, 1)) = Owner(R, C, l, i, j, m, s, d)
                  /\ OwnerOf(R, C, EdgeOf(f, 2)) = Owner(R, C, m, s, d, n, y, z)
                  /\ OwnerOf(R, C, EdgeOf(f, 3)) = Owner(R, C, n, y, z, l, i, j)
    BY DEF OwnerOf, EdgeOf
  <1>2. p \in {1, 2, 3}
    OBVIOUS
  <1>3. CASE x \in (1..4) \X ((0..R - 2) \X (0..C - 2))
    <2>1. k \in {1, 2, 3, 4} /\ r \in 0..R - 2 /\ c \in 0..C - 2
      BY <1>3
    <2> HIDE DEF k, r, c
    <2>2. CASE k = 1
      <3>1. FaceOf(R, C, k, r, c) = <<<<1, r, c>>, <<1, r, c + 1>>, <<1, r + 1, c + 1>>>>
        BY <2>2 DEF FaceOf, TopA
      <3>2. /\ Owner(R, C, 1, r, c, 1, r, c + 1) = <<1, r, c, 1>>
            /\ Owner(R, C, 1, r, c + 1, 1, r + 1, c + 1) = <<1, r, c, 2>>
            /\ Owner(R, C, 1, r + 1, c + 1, 1, r, c) = <<1, r, c, 3>>
        BY <2>1, TopOwners
      <3>3. OwnerOf(R, C, EdgeOf(FaceOf(R, C, k, r, c), p)) = <<k, r, c, p>>
        BY <1>1, <1>2, <2>2, <3>1, <3>2
      <3> QED
        BY <3>3 DEF k, r, c
    <2>3. CASE k = 2
      <3>1. FaceOf(R, C, k, r, c) = <<<<1, r, c>>, <<1, r + 1, c + 1>>, <<1, r + 1, c>>>>
        BY <2>3 DEF FaceOf, TopB
      <3>2. /\ Owner(R, C, 1, r, c, 1, r + 1, c + 1) = <<2, r, c, 1>>
            /\ Owner(R, C, 1, r + 1, c + 1, 1, r + 1, c) = <<2, r, c, 2>>
            /\ Owner(R, C, 1, r + 1, c, 1, r, c) = <<2, r, c, 3>>
        BY <2>1, TopOwners
      <3>3. OwnerOf(R, C, EdgeOf(FaceOf(R, C, k, r, c), p)) = <<k, r, c, p>>
        BY <1>1, <1>2, <2>3, <3>1, <3>2
      <3> QED
        BY <3>3 DEF k, r, c
    <2>4. CASE k = 3
      <3>1. FaceOf(R, C, k, r, c) = <<<<0, r, c>>, <<0, r + 1, c + 1>>, <<0, r, c + 1>>>>
        BY <2>4 DEF FaceOf, BottomA
      <3>2. /\ Owner(R, C, 0, r, c, 0, r + 1, c + 1) = <<3, r, c, 1>>
            /\ Owner(R, C, 0, r + 1, c + 1, 0, r, c + 1) = <<3, r, c, 2>>
            /\ Owner(R, C, 0, r, c + 1, 0, r, c) = <<3, r, c, 3>>
        BY <2>1, BottomOwners
      <3>3. OwnerOf(R, C, EdgeOf(FaceOf(R, C, k, r, c), p)) = <<k, r, c, p>>
        BY <1>1, <1>2, <2>4, <3>1, <3>2
      <3> QED
        BY <3>3 DEF k, r, c
    <2>5. CASE k = 4
      <3>1. FaceOf(R, C, k, r, c) = <<<<0, r, c>>, <<0, r + 1, c>>, <<0, r + 1, c + 1>>>>
        BY <2>5 DEF FaceOf, BottomB
      <3>2. /\ Owner(R, C, 0, r, c, 0, r + 1, c) = <<4, r, c, 1>>
            /\ Owner(R, C, 0, r + 1, c, 0, r + 1, c + 1) = <<4, r, c, 2>>
            /\ Owner(R, C, 0, r + 1, c + 1, 0, r, c) = <<4, r, c, 3>>
        BY <2>1, BottomOwners
      <3>3. OwnerOf(R, C, EdgeOf(FaceOf(R, C, k, r, c), p)) = <<k, r, c, p>>
        BY <1>1, <1>2, <2>5, <3>1, <3>2
      <3> QED
        BY <3>3 DEF k, r, c
    <2> QED
      BY <2>1, <2>2, <2>3, <2>4, <2>5
  <1>4. CASE x \in (5..6) \X Rim(R, C)
    <2>1. k \in {5, 6} /\ OnRim(R, C, r, c)
      BY <1>4 DEF Rim
    <2> HIDE DEF k, r, c
    <2>2. CASE k = 5
      <3>1. PICK s, d : After(R, C, r, c) = <<s, d>> /\ Along(R, C, r, c, s, d)
        BY <2>1, RimAfter
      <3>2. FaceOf(R, C, k, r, c) = <<<<1, r, c>>, <<0, r, c>>, <<0, s, d>>>>
        BY <2>2, <3>1 DEF FaceOf, WallA
      <3> QED
        BY <1>1, <1>2, <2>2, <3>1, <3>2, WallOwners DEF k, r, c
    <2>3. CASE k = 6
      <3>1. PICK s, d : Before(R, C, r, c) = <<s, d>> /\ Along(R, C, s, d, r, c)
        BY <2>1, RimBefore
      <3>2. FaceOf(R, C, k, r, c) = <<<<1, s, d>>, <<0, r, c>>, <<1, r, c>>>>
        BY <2>3, <3>1 DEF FaceOf, WallB
      <3> QED
        BY <1>1, <1>2, <2>3, <3>1, <3>2, WallOwners DEF k, r, c
    <2> QED
      BY <2>1, <2>2, <2>3
  <1> QED
    BY <1>3, <1>4 DEF FaceCodes

\* The edges of the two faces of a quad, and of a piece of the wall.
TopEdges(r, c) ==
    {<<<<1, r, c>>, <<1, r, c + 1>>>>, <<<<1, r, c + 1>>, <<1, r + 1, c + 1>>>>,
     <<<<1, r + 1, c + 1>>, <<1, r, c>>>>, <<<<1, r, c>>, <<1, r + 1, c + 1>>>>,
     <<<<1, r + 1, c + 1>>, <<1, r + 1, c>>>>, <<<<1, r + 1, c>>, <<1, r, c>>>>}
BottomEdges(r, c) ==
    {<<<<0, r, c>>, <<0, r + 1, c + 1>>>>, <<<<0, r + 1, c + 1>>, <<0, r, c + 1>>>>,
     <<<<0, r, c + 1>>, <<0, r, c>>>>, <<<<0, r, c>>, <<0, r + 1, c>>>>,
     <<<<0, r + 1, c>>, <<0, r + 1, c + 1>>>>, <<<<0, r + 1, c + 1>>, <<0, r, c>>>>}
WallEdges(r, c, s, d) ==
    {<<<<1, r, c>>, <<0, r, c>>>>, <<<<0, r, c>>, <<0, s, d>>>>, <<<<0, s, d>>, <<1, r, c>>>>,
     <<<<1, r, c>>, <<0, s, d>>>>, <<<<0, s, d>>, <<1, s, d>>>>, <<<<1, s, d>>, <<1, r, c>>>>}
EdgesIn(f) == {<<f[1], f[2]>>, <<f[2], f[3]>>, <<f[3], f[1]>>}

\* The directed edges of the mesh: those of each quad and of each piece of wall.
LEMMA EdgesOfAll ==
    ASSUME NEW R \in Nat \ {0, 1}, NEW C \in Nat \ {0, 1}
    PROVE  LET E == DirectedEdges(RectangularFaces(<<R, C>>)) IN
           /\ \A r \in 0..R - 2, c \in 0..C - 2 : TopEdges(r, c) \subseteq E /\ BottomEdges(r, c) \subseteq E
           /\ \A r, c, s, d : Along(R, C, r, c, s, d) => WallEdges(r, c, s, d) \subseteq E
           /\ \A e \in E :
                 \/ \E r \in 0..R - 2, c \in 0..C - 2 : e \in TopEdges(r, c) \/ e \in BottomEdges(r, c)
                 \/ \E r, s \in 0..R - 1, c, d \in 0..C - 1 :
                        Along(R, C, r, c, s, d) /\ e \in WallEdges(r, c, s, d)
  <1> DEFINE F == RectangularFaces(<<R, C>>)
             E == DirectedEdges(F)
  <1>1. ASSUME NEW f \in F, NEW e \in EdgesIn(f) PROVE e \in E
    BY DEF DirectedEdges, EdgesIn
  <1>2. ASSUME NEW e \in E PROVE \E f \in F : e \in EdgesIn(f)
    BY DEF DirectedEdges, EdgesIn
  <1>3. ASSUME NEW r, NEW c
        PROVE  /\ TopEdges(r, c) = EdgesIn(TopA(r, c)) \cup EdgesIn(TopB(r, c))
               /\ BottomEdges(r, c) = EdgesIn(BottomA(r, c)) \cup EdgesIn(BottomB(r, c))
    <2>1. TopEdges(r, c) = EdgesIn(TopA(r, c)) \cup EdgesIn(TopB(r, c))
      BY DEF TopEdges, EdgesIn, TopA, TopB
    <2>2. BottomEdges(r, c) = EdgesIn(BottomA(r, c)) \cup EdgesIn(BottomB(r, c))
      BY DEF BottomEdges, EdgesIn, BottomA, BottomB
    <2> QED
      BY <2>1, <2>2
  <1>4. ASSUME NEW r, NEW c, NEW s, NEW d
        PROVE  WallEdges(r, c, s, d) = EdgesIn(WallA(r, c, s, d)) \cup EdgesIn(WallB(r, c, s, d))
    BY DEF WallEdges, EdgesIn, WallA, WallB
  <1> HIDE DEF E
  <1>5. ASSUME NEW r \in 0..R - 2, NEW c \in 0..C - 2
        PROVE  TopEdges(r, c) \subseteq E /\ BottomEdges(r, c) \subseteq E
    <2>1. TopA(r, c) \in F /\ TopB(r, c) \in F
      BY FacesOfTop DEF RectangularFaces
    <2>2. BottomA(r, c) \in F /\ BottomB(r, c) \in F
      BY FacesOfBottom DEF RectangularFaces
    <2> HIDE DEF F
    <2> QED
      BY <1>1, <1>3, <2>1, <2>2
  <1>6. ASSUME NEW r, NEW c, NEW s, NEW d, Along(R, C, r, c, s, d)
        PROVE  WallEdges(r, c, s, d) \subseteq E
    <2>1. OnRim(R, C, r, c) /\ OnRim(R, C, s, d)
      BY <1>6, AlongIsStep
    <2>2. r \in 0..R - 1 /\ s \in 0..R - 1 /\ c \in 0..C - 1 /\ d \in 0..C - 1
      BY <2>1 DEF OnRim
    <2>3. WallA(r, c, s, d) \in F /\ WallB(r, c, s, d) \in F
      BY <1>6, <2>2, FacesOfWalls DEF RectangularFaces
    <2> HIDE DEF F
    <2> QED
      BY <1>1, <1>4, <2>3
  <1>7. ASSUME NEW e \in E
        PROVE  \/ \E r \in 0..R - 2, c \in 0..C - 2 : e \in TopEdges(r, c) \/ e \in BottomEdges(r, c)
               \/ \E r, s \in 0..R - 1, c, d \in 0..C - 1 :
                      Along(R, C, r, c, s, d) /\ e \in WallEdges(r, c, s, d)
    <2>1. PICK f \in F : e \in EdgesIn(f)
      BY <1>2
    <2>2. CASE f \in TopFaces(<<R, C>>)
      <3>1. PICK r \in 0..R - 2, c \in 0..C - 2 : f \in {TopA(r, c), TopB(r, c)}
        BY <2>2, FacesOfTop
      <3>2. e \in TopEdges(r, c)
        BY <1>3, <2>1, <3>1
      <3> QED
        BY <3>2
    <2>3. CASE f \in BottomFaces(<<R, C>>)
      <3>1. PICK r \in 0..R - 2, c \in 0..C - 2 : f \in {BottomA(r, c), BottomB(r, c)}
        BY <2>3, FacesOfBottom
      <3>2. e \in BottomEdges(r, c)
        BY <1>3, <2>1, <3>1
      <3> QED
        BY <3>2
    <2>4. CASE f \in WallFaces(<<R, C>>)
      <3>1. PICK r \in 0..R - 1, s \in 0..R - 1, c \in 0..C - 1, d \in 0..C - 1 :
                 Along(R, C, r, c, s, d) /\ f \in {WallA(r, c, s, d), WallB(r, c, s, d)}
        BY <2>4, FacesOfWalls
      <3>2. e \in WallEdges(r, c, s, d)
        BY <1>4, <2>1, <3>1
      <3> QED
        BY <3>1, <3>2
    <2> QED
      BY <2>1, <2>2, <2>3, <2>4 DEF RectangularFaces
  <1> QED
    BY <1>5, <1>6, <1>7 DEF E, F

\* Each of them is walked the other way too: by the other face of the quad, by the
\* next quad, or at the rim by the wall.
LEMMA EdgesGoBothWays ==
    ASSUME NEW R \in Nat \ {0, 1}, NEW C \in Nat \ {0, 1},
           NEW e \in DirectedEdges(RectangularFaces(<<R, C>>))
    PROVE  <<e[2], e[1]>> \in DirectedEdges(RectangularFaces(<<R, C>>))
  <1> DEFINE E == DirectedEdges(RectangularFaces(<<R, C>>))
             Edge(l, r, c, m, s, d) == <<<<l, r, c>>, <<m, s, d>>>> \in E
  <1>1. ASSUME NEW r \in 0..R - 2, NEW c \in 0..C - 2
        PROVE  /\ Edge(1, r, c, 1, r, c + 1) /\ Edge(1, r, c + 1, 1, r + 1, c + 1)
               /\ Edge(1, r + 1, c + 1, 1, r, c) /\ Edge(1, r, c, 1, r + 1, c + 1)
               /\ Edge(1, r + 1, c + 1, 1, r + 1, c) /\ Edge(1, r + 1, c, 1, r, c)
    BY EdgesOfAll DEF TopEdges
  <1>2. ASSUME NEW r \in 0..R - 2, NEW c \in 0..C - 2
        PROVE  /\ Edge(0, r, c, 0, r + 1, c + 1) /\ Edge(0, r + 1, c + 1, 0, r, c + 1)
               /\ Edge(0, r, c + 1, 0, r, c) /\ Edge(0, r, c, 0, r + 1, c)
               /\ Edge(0, r + 1, c, 0, r + 1, c + 1) /\ Edge(0, r + 1, c + 1, 0, r, c)
    BY EdgesOfAll DEF BottomEdges
  <1>3. ASSUME NEW r, NEW c, NEW s, NEW d, Along(R, C, r, c, s, d)
        PROVE  /\ Edge(1, r, c, 0, r, c) /\ Edge(0, r, c, 0, s, d) /\ Edge(0, s, d, 1, r, c)
               /\ Edge(1, r, c, 0, s, d) /\ Edge(0, s, d, 1, s, d) /\ Edge(1, s, d, 1, r, c)
    BY <1>3, EdgesOfAll DEF WallEdges
  <1>4. \/ \E r \in 0..R - 2, c \in 0..C - 2 : e \in TopEdges(r, c) \/ e \in BottomEdges(r, c)
        \/ \E r, s \in 0..R - 1, c, d \in 0..C - 1 :
               Along(R, C, r, c, s, d) /\ e \in WallEdges(r, c, s, d)
    BY EdgesOfAll
  <1> HIDE DEF E
  <1>10. ASSUME NEW l, NEW r, NEW c, NEW m, NEW s, NEW d,
                e = <<<<l, r, c>>, <<m, s, d>>>>, Edge(m, s, d, l, r, c)
         PROVE  <<e[2], e[1]>> \in E
    BY <1>10
  <1> HIDE DEF Edge
  <1>5. ASSUME NEW r \in 0..R - 2, NEW c \in 0..C - 2
        PROVE  /\ r \in Nat /\ c \in Nat
               /\ r = 0 => Along(R, C, r, c, r, c + 1)
               /\ r = R - 2 => Along(R, C, r + 1, c + 1, r + 1, c)
               /\ c = 0 => Along(R, C, r + 1, c, r, c)
               /\ c = C - 2 => Along(R, C, r, c + 1, r + 1, c + 1)
               /\ r # 0 => r - 1 \in 0..R - 2 /\ (r - 1) + 1 = r
               /\ c # 0 => c - 1 \in 0..C - 2 /\ (c - 1) + 1 = c
               /\ r # R - 2 => r + 1 \in 0..R - 2
               /\ c # C - 2 => c + 1 \in 0..C - 2
    BY DEF Along
  <1>6. ASSUME NEW r \in 0..R - 2, NEW c \in 0..C - 2, e \in TopEdges(r, c) PROVE <<e[2], e[1]>> \in E
    <2>1. /\ Edge(1, r, c + 1, 1, r, c) /\ Edge(1, r + 1, c + 1, 1, r, c + 1)
          /\ Edge(1, r, c, 1, r + 1, c + 1) /\ Edge(1, r + 1, c + 1, 1, r, c)
          /\ Edge(1, r + 1, c, 1, r + 1, c + 1) /\ Edge(1, r, c, 1, r + 1, c)
      <3>1. Edge(1, r, c + 1, 1, r, c)
        <4>1. CASE r = 0
          BY <1>3, <1>5, <4>1
        <4>2. CASE r # 0
          <5>1. Edge(1, (r - 1) + 1, c + 1, 1, (r - 1) + 1, c)
            BY <1>1, <1>5, <4>2
          <5> QED
            BY <1>5, <4>2, <5>1
        <4> QED
          BY <4>1, <4>2
      <3>2. Edge(1, r + 1, c + 1, 1, r, c + 1)
        <4>1. CASE c = C - 2
          BY <1>3, <1>5, <4>1
        <4>2. CASE c # C - 2
          BY <1>1, <1>5, <4>2
        <4> QED
          BY <4>1, <4>2
      <3>3. Edge(1, r + 1, c, 1, r + 1, c + 1)
        <4>1. CASE r = R - 2
          BY <1>3, <1>5, <4>1
        <4>2. CASE r # R - 2
          BY <1>1, <1>5, <4>2
        <4> QED
          BY <4>1, <4>2
      <3>4. Edge(1, r, c, 1, r + 1, c)
        <4>1. CASE c = 0
          BY <1>3, <1>5, <4>1
        <4>2. CASE c # 0
          <5>1. Edge(1, r, (c - 1) + 1, 1, r + 1, (c - 1) + 1)
            BY <1>1, <1>5, <4>2
          <5> QED
            BY <1>5, <4>2, <5>1
        <4> QED
          BY <4>1, <4>2
      <3> QED
        BY <1>1, <3>1, <3>2, <3>3, <3>4
    <2> QED
      BY <1>6, <1>10, <2>1 DEF TopEdges
  <1>7. ASSUME NEW r \in 0..R - 2, NEW c \in 0..C - 2, e \in BottomEdges(r, c) PROVE <<e[2], e[1]>> \in E
    <2>1. /\ Edge(0, r + 1, c + 1, 0, r, c) /\ Edge(0, r, c + 1, 0, r + 1, c + 1)
          /\ Edge(0, r, c, 0, r, c + 1) /\ Edge(0, r + 1, c, 0, r, c)
          /\ Edge(0, r + 1, c + 1, 0, r + 1, c) /\ Edge(0, r, c, 0, r + 1, c + 1)
      <3>1. Edge(0, r, c, 0, r, c + 1)
        <4>1. CASE r = 0
          BY <1>3, <1>5, <4>1
        <4>2. CASE r # 0
          <5>1. Edge(0, (r - 1) + 1, c, 0, (r - 1) + 1, c + 1)
            BY <1>2, <1>5, <4>2
          <5> QED
            BY <1>5, <4>2, <5>1
        <4> QED
          BY <4>1, <4>2
      <3>2. Edge(0, r, c + 1, 0, r + 1, c + 1)
        <4>1. CASE c = C - 2
          BY <1>3, <1>5, <4>1
        <4>2. CASE c # C - 2
          BY <1>2, <1>5, <4>2
        <4> QED
          BY <4>1, <4>2
      <3>3. Edge(0, r + 1, c + 1, 0, r + 1, c)
        <4>1. CASE r = R - 2
          BY <1>3, <1>5, <4>1
        <4>2. CASE r # R - 2
          BY <1>2, <1>5, <4>2
        <4> QED
          BY <4>1, <4>2
      <3>4. Edge(0, r + 1, c, 0, r, c)
        <4>1. CASE c = 0
          BY <1>3, <1>5, <4>1
        <4>2. CASE c # 0
          <5>1. Edge(0, r + 1, (c - 1) + 1, 0, r, (c - 1) + 1)
            BY <1>2, <1>5, <4>2
          <5> QED
            BY <1>5, <4>2, <5>1
        <4> QED
          BY <4>1, <4>2
      <3> QED
        BY <1>2, <3>1, <3>2, <3>3, <3>4
    <2> QED
      BY <1>7, <1>10, <2>1 DEF BottomEdges
  <1>8. ASSUME NEW r, NEW c, NEW s, NEW d, Along(R, C, r, c, s, d), e \in WallEdges(r, c, s, d)
        PROVE  <<e[2], e[1]>> \in E
    <2>1. OnRim(R, C, r, c) /\ OnRim(R, C, s, d)
      BY <1>8, AlongIsStep
    <2>2. Edge(0, r, c, 1, r, c)
      <3>1. PICK p, q : Along(R, C, p, q, r, c)
        BY <2>1, RimBefore
      <3> QED
        BY <1>3, <3>1
    <2>3. Edge(1, s, d, 0, s, d)
      <3>1. PICK p, q : Along(R, C, s, d, p, q)
        BY <2>1, RimAfter
      <3> QED
        BY <1>3, <3>1
    <2>4. Edge(0, s, d, 0, r, c) /\ Edge(1, r, c, 1, s, d)
      <3>1. CASE r = 0 /\ s = 0 /\ c \in 0..C - 2 /\ d = c + 1
        <4>1. r \in 0..R - 2 /\ s = r
          BY <3>1
        <4> QED
          BY <1>1, <1>2, <3>1, <4>1
      <3>2. CASE c = C - 1 /\ d = C - 1 /\ r \in 0..R - 2 /\ s = r + 1
        <4>1. C - 2 \in 0..C - 2 /\ c = (C - 2) + 1 /\ d = (C - 2) + 1
          BY <3>2
        <4> QED
          BY <1>1, <1>2, <3>2, <4>1
      <3>3. CASE r = R - 1 /\ s = R - 1 /\ c \in 1..C - 1 /\ d = c - 1
        <4>1. R - 2 \in 0..R - 2 /\ r = (R - 2) + 1 /\ s = (R - 2) + 1 /\ d \in 0..C - 2 /\ c = d + 1
          BY <3>3
        <4> QED
          BY <1>1, <1>2, <4>1
      <3>4. CASE c = 0 /\ d = 0 /\ r \in 1..R - 1 /\ s = r - 1
        <4>1. s \in 0..R - 2 /\ r = s + 1 /\ d \in 0..C - 2 /\ c = d
          BY <3>4
        <4> QED
          BY <1>1, <1>2, <4>1
      <3> QED
        BY <1>8, <3>1, <3>2, <3>3, <3>4 DEF Along
    <2>5. Edge(1, r, c, 0, s, d) /\ Edge(0, s, d, 1, r, c)
      BY <1>3, <1>8
    <2> QED
      BY <1>8, <1>10, <2>2, <2>3, <2>4, <2>5 DEF WallEdges
  <1> QED
    BY <1>4, <1>6, <1>7, <1>8 DEF E

\* A finite set of n elements.
Counts(S, n) == IsFiniteSet(S) /\ Cardinality(S) = n

\* The size of an interval.
LEMMA IntervalCounts == ASSUME NEW a \in Int, NEW b \in Int, a <= b + 1 PROVE Counts(a..b, b - a + 1)
  <1>1. IsFiniteSet(a..b) /\ Cardinality(a..b) = IF a > b THEN 0 ELSE b - a + 1
    BY FS_Interval
  <1> QED
    BY <1>1 DEF Counts

\* The size of a product.
LEMMA ProductCounts ==
    ASSUME NEW S, NEW T, NEW m, NEW n, Counts(S, m), Counts(T, n)
    PROVE  Counts(S \X T, m * n)
  <1>1. IsFiniteSet(S) /\ IsFiniteSet(T) /\ Cardinality(S) = m /\ Cardinality(T) = n
    BY DEF Counts
  <1>2. IsFiniteSet(S \X T) /\ Cardinality(S \X T) = Cardinality(S) * Cardinality(T)
    BY <1>1, FS_Product
  <1> QED
    BY <1>1, <1>2 DEF Counts

\* How many cells the rim has: the walk comes to each of them once.
LEMMA RimSize ==
    ASSUME NEW R \in Nat \ {0, 1}, NEW C \in Nat \ {0, 1}
    PROVE  IsFiniteSet(Rim(R, C)) /\ Cardinality(Rim(R, C)) = 2 * R + 2 * C - 4
  <1> DEFINE all == (0..R - 1) \X (0..C - 1)
             inner == (1..R - 2) \X (1..C - 2)
             rim == Rim(R, C)
  <1>1. Counts(0..R - 1, R) /\ Counts(0..C - 1, C) /\ Counts(1..R - 2, R - 2) /\ Counts(1..C - 2, C - 2)
    <2>1. /\ Counts(0..R - 1, (R - 1) - 0 + 1) /\ Counts(0..C - 1, (C - 1) - 0 + 1)
          /\ Counts(1..R - 2, (R - 2) - 1 + 1) /\ Counts(1..C - 2, (C - 2) - 1 + 1)
      <3>1. /\ 0 \in Int /\ 1 \in Int /\ R - 1 \in Int /\ C - 1 \in Int /\ R - 2 \in Int /\ C - 2 \in Int
            /\ 0 <= (R - 1) + 1 /\ 0 <= (C - 1) + 1 /\ 1 <= (R - 2) + 1 /\ 1 <= (C - 2) + 1
        OBVIOUS
      <3> QED
        BY <3>1, IntervalCounts
    <2>2. (R - 1) - 0 + 1 = R /\ (C - 1) - 0 + 1 = C /\ (R - 2) - 1 + 1 = R - 2 /\ (C - 2) - 1 + 1 = C - 2
      OBVIOUS
    <2> QED
      BY <2>1, <2>2
  <1>2. /\ IsFiniteSet(all) /\ Cardinality(all) = R * C
        /\ IsFiniteSet(inner) /\ Cardinality(inner) = (R - 2) * (C - 2)
    <2>1. Counts(all, R * C) /\ Counts(inner, (R - 2) * (C - 2))
      BY <1>1, ProductCounts
    <2> QED
      BY <2>1 DEF Counts
  <1>3. all = rim \cup inner /\ rim \cap inner = {} /\ rim \subseteq all
    <2>1. ASSUME NEW v \in all PROVE v \in rim \/ v \in inner
      <3>1. v[1] \in 0..R - 1 /\ v[2] \in 0..C - 1 /\ v = <<v[1], v[2]>>
        OBVIOUS
      <3>2. CASE v[1] \in 1..R - 2 /\ v[2] \in 1..C - 2
        BY <3>1, <3>2
      <3>3. CASE ~(v[1] \in 1..R - 2 /\ v[2] \in 1..C - 2)
        <4>1. OnRim(R, C, v[1], v[2])
          BY <3>1, <3>3 DEF OnRim
        <4> QED
          BY <4>1 DEF Rim
      <3> QED
        BY <3>2, <3>3
    <2>2. ASSUME NEW v \in inner PROVE v \in all /\ v \notin rim
      <3>1. v[1] \in 1..R - 2 /\ v[2] \in 1..C - 2
        OBVIOUS
      <3>2. ~OnRim(R, C, v[1], v[2])
        BY <3>1 DEF OnRim
      <3> QED
        BY <3>2 DEF Rim
    <2>3. rim \subseteq all
      BY DEF Rim
    <2> HIDE DEF all, inner, rim
    <2> QED
      BY <2>1, <2>2, <2>3
  <1> HIDE DEF all, inner, rim
  <1>4. IsFiniteSet(rim) /\ Cardinality(rim) \in Nat
    BY <1>2, <1>3, FS_Subset, FS_CardinalityType
  <1>5. Cardinality(rim \cup inner) = Cardinality(rim) + Cardinality(inner) - Cardinality(rim \cap inner)
    BY <1>2, <1>4, FS_Union
  <1>6. Cardinality(rim \cap inner) = 0
    BY <1>3, FS_EmptySet
  <1>7. R * C = Cardinality(rim) + (R - 2) * (C - 2)
    <2>1. (R - 2) * (C - 2) \in Int
      OBVIOUS
    <2> QED
      BY <1>2, <1>3, <1>4, <1>5, <1>6, <2>1
  <1>8. R * C - (R - 2) * (C - 2) = 2 * R + 2 * C - 4
    OBVIOUS
  <1> QED
    BY <1>4, <1>7, <1>8 DEF rim

\* How many codes there are: four for each quad and two for each cell of the rim.
LEMMA FaceCount ==
    ASSUME NEW R \in Nat \ {0, 1}, NEW C \in Nat \ {0, 1}
    PROVE  IsFiniteSet(FaceCodes(R, C)) /\ Cardinality(FaceCodes(R, C)) = 4 * R * C - 4
  <1> DEFINE a == 1..4
             b == 5..6
             q == (0..R - 2) \X (0..C - 2)
             rim == Rim(R, C)
  <1>1. Counts(a, 4) /\ Counts(b, 2) /\ Counts(0..R - 2, R - 1) /\ Counts(0..C - 2, C - 1)
    <2>1. /\ Counts(1..4, 4 - 1 + 1) /\ Counts(5..6, 6 - 5 + 1)
          /\ Counts(0..R - 2, (R - 2) - 0 + 1) /\ Counts(0..C - 2, (C - 2) - 0 + 1)
      <3>1. /\ 0 \in Int /\ 1 \in Int /\ 4 \in Int /\ 5 \in Int /\ 6 \in Int /\ R - 2 \in Int /\ C - 2 \in Int
            /\ 0 <= (R - 2) + 1 /\ 0 <= (C - 2) + 1 /\ 1 <= 4 + 1 /\ 5 <= 6 + 1
        OBVIOUS
      <3> QED
        BY <3>1, IntervalCounts
    <2>2. (R - 2) - 0 + 1 = R - 1 /\ (C - 2) - 0 + 1 = C - 1 /\ 4 - 1 + 1 = 4 /\ 6 - 5 + 1 = 2
      OBVIOUS
    <2> QED
      BY <2>1, <2>2
  <1>2. Counts(q, (R - 1) * (C - 1))
    BY <1>1, ProductCounts
  <1>3. Counts(rim, 2 * R + 2 * C - 4)
    BY RimSize DEF Counts
  <1>9. \A x \in (a \X q) : x \notin (b \X rim)
    <2> HIDE DEF q, rim
    <2> QED
      OBVIOUS
  <1>10. FaceCodes(R, C) = (a \X q) \cup (b \X rim)
    BY DEF FaceCodes
  <1> HIDE DEF a, b, q, rim
  <1>4. /\ IsFiniteSet(a \X q) /\ Cardinality(a \X q) = 4 * ((R - 1) * (C - 1))
        /\ IsFiniteSet(b \X rim) /\ Cardinality(b \X rim) = 2 * (2 * R + 2 * C - 4)
    <2>1. Counts(a \X q, 4 * ((R - 1) * (C - 1))) /\ Counts(b \X rim, 2 * (2 * R + 2 * C - 4))
      BY <1>1, <1>2, <1>3, ProductCounts
    <2> QED
      BY <2>1 DEF Counts
  <1> DEFINE x == a \X q
             y == b \X rim
  <1>5. x \cap y = {}
    BY <1>9
  <1>11. IsFiniteSet(x) /\ IsFiniteSet(y)
    BY <1>4
  <1> HIDE DEF x, y
  <1>6. IsFiniteSet(x \cup y) /\ Cardinality(x \cup y) = Cardinality(x) + Cardinality(y) - 0
    <2>1. IsFiniteSet(x \cup y) /\ Cardinality(x \cup y) = Cardinality(x) + Cardinality(y) - Cardinality(x \cap y)
      BY <1>11, FS_Union
    <2> QED
      BY <1>5, <2>1, FS_EmptySet
  <1>7. 4 * ((R - 1) * (C - 1)) + 2 * (2 * R + 2 * C - 4) - 0 = 4 * R * C - 4
    OBVIOUS
  <1> QED
    BY <1>4, <1>6, <1>7, <1>10 DEF x, y

\* How many faces and directed edges there are: different codes have different
\* owned edges, so as many as codes, and three for each.
LEMMA MeshCounts ==
    ASSUME NEW R \in Nat \ {0, 1}, NEW C \in Nat \ {0, 1}
    PROVE  LET F == RectangularFaces(<<R, C>>)
               E == DirectedEdges(F)
           IN Cardinality(F) = 4 * R * C - 4 /\ Cardinality(E) = 3 * (4 * R * C - 4)
  <1> DEFINE F == RectangularFaces(<<R, C>>)
             E == DirectedEdges(F)
             K == FaceCodes(R, C)
             face(x) == FaceOf(R, C, x[1], x[2][1], x[2][2])
             P == K \X (1..3)
             edge(y) == EdgeOf(face(y[1]), y[2])
             f == [x \in K |-> face(x)]
             g == [y \in P |-> edge(y)]
  <1>1. IsFiniteSet(K) /\ Cardinality(K) = 4 * R * C - 4
    BY FaceCount
  <1>2. IsFiniteSet(P) /\ Cardinality(P) = 3 * (4 * R * C - 4)
    <2>1. Counts(1..3, 3)
      <3>1. Counts(1..3, 3 - 1 + 1)
        <4>1. 1 \in Int /\ 3 \in Int /\ 1 <= 3 + 1
          OBVIOUS
        <4> QED
          BY <4>1, IntervalCounts
      <3> QED
        BY <3>1
    <2>4. Counts(K, 4 * R * C - 4)
      BY <1>1 DEF Counts
    <2>2. IsFiniteSet(P) /\ Cardinality(P) = (4 * R * C - 4) * 3
      <3>1. Counts(K \X (1..3), (4 * R * C - 4) * 3)
        BY <2>1, <2>4, ProductCounts
      <3> QED
        BY <3>1 DEF Counts
    <2>3. (4 * R * C - 4) * 3 = 3 * (4 * R * C - 4)
      OBVIOUS
    <2> QED
      BY <2>2, <2>3
  <1>3. F = {face(x) : x \in K}
    BY CodesOfFaces
  <1>4. ASSUME NEW x \in K
        PROVE  x[2] = <<x[2][1], x[2][2]>> /\ x = <<x[1], x[2]>>
    BY DEF FaceCodes, Rim
  <1>5. ASSUME NEW x \in K, NEW p \in 1..3
        PROVE  OwnerOf(R, C, EdgeOf(face(x), p)) = <<x[1], x[2][1], x[2][2], p>>
    BY EdgesAreOwned
  <1> HIDE DEF K, face, F
  <1>6. ASSUME NEW x \in K, NEW y \in K, NEW p \in 1..3, NEW q \in 1..3,
               EdgeOf(face(x), p) = EdgeOf(face(y), q)
        PROVE  x = y /\ p = q
    <2>1. <<x[1], x[2][1], x[2][2], p>> = <<y[1], y[2][1], y[2][2], q>>
      BY <1>5, <1>6
    <2>2. x[1] = y[1] /\ x[2][1] = y[2][1] /\ x[2][2] = y[2][2] /\ p = q
      BY <2>1
    <2> QED
      BY <1>4, <2>2
  <1>7. f \in Bijection(K, F)
    <2>1. f \in [K -> F]
      BY <1>3
    <2>2. ASSUME NEW x \in K, NEW y \in K, f[x] = f[y] PROVE x = y
      <3>1. EdgeOf(face(x), 1) = EdgeOf(face(y), 1)
        BY <2>2
      <3> QED
        BY <1>6, <3>1
    <2>3. ASSUME NEW z \in F PROVE \E x \in K : f[x] = z
      BY <1>3
    <2> HIDE DEF f
    <2> QED
      BY <2>1, <2>2, <2>3 DEF Bijection, Injection, Surjection, IsInjective
  <1>8. E = {EdgeOf(face(x), p) : x \in K, p \in 1..3}
    <2>1. ASSUME NEW z \in F
          PROVE  {<<z[1], z[2]>>, <<z[2], z[3]>>, <<z[3], z[1]>>} = {EdgeOf(z, p) : p \in 1..3}
      <3>1. 1..3 = {1, 2, 3}
        OBVIOUS
      <3> QED
        BY <3>1 DEF EdgeOf
    <2>2. ASSUME NEW e \in E PROVE \E x \in K, p \in 1..3 : e = EdgeOf(face(x), p)
      <3>1. PICK z \in F : e \in {<<z[1], z[2]>>, <<z[2], z[3]>>, <<z[3], z[1]>>}
        BY DEF DirectedEdges
      <3>2. PICK p \in 1..3 : e = EdgeOf(z, p)
        BY <2>1, <3>1
      <3> QED
        BY <1>3, <3>2
    <2>3. ASSUME NEW x \in K, NEW p \in 1..3 PROVE EdgeOf(face(x), p) \in E
      <3>1. face(x) \in F
        BY <1>3
      <3>2. EdgeOf(face(x), p) \in {<<face(x)[1], face(x)[2]>>, <<face(x)[2], face(x)[3]>>, <<face(x)[3], face(x)[1]>>}
        BY <2>1, <3>1
      <3> QED
        BY <3>1, <3>2 DEF DirectedEdges
    <2> HIDE DEF E
    <2> QED
      BY <2>2, <2>3
  <1> HIDE DEF E
  <1>9. g \in Bijection(P, E)
    <2>4. ASSUME NEW y \in P PROVE y[1] \in K /\ y[2] \in 1..3 /\ y = <<y[1], y[2]>> /\ g[y] = EdgeOf(face(y[1]), y[2])
      OBVIOUS
    <2>1. g \in [P -> E]
      <3>1. ASSUME NEW y \in P PROVE edge(y) \in E
        BY <1>8, <2>4
      <3> HIDE DEF edge, P
      <3> QED
        BY <3>1
    <2>2. ASSUME NEW x \in P, NEW y \in P, g[x] = g[y] PROVE x = y
      <3>1. x[1] = y[1] /\ x[2] = y[2]
        BY <1>6, <2>2, <2>4
      <3> QED
        BY <2>4, <3>1
    <2>3. ASSUME NEW z \in E PROVE \E x \in P : g[x] = z
      <3>1. PICK x \in K, p \in 1..3 : z = EdgeOf(face(x), p)
        BY <1>8
      <3>2. <<x, p>> \in P /\ g[<<x, p>>] = z
        BY <3>1
      <3> QED
        BY <3>2
    <2> HIDE DEF g, P
    <2> QED
      BY <2>1, <2>2, <2>3 DEF Bijection, Injection, Surjection, IsInjective
  <1> HIDE DEF f, g, P
  <1>10. Cardinality(F) = Cardinality(K)
    BY <1>1, <1>7, FS_Bijection DEF ExistsBijection
  <1>11. Cardinality(E) = Cardinality(P)
    BY <1>2, <1>9, FS_Bijection DEF ExistsBijection
  <1> QED
    BY <1>1, <1>2, <1>10, <1>11 DEF E, F

\* A mesh that was built is closed, and has as many faces and edges as predicted.
LEMMA MeshCloses == ASSUME TerrainInv PROVE MeshIsClosed
  <1> SUFFICES ASSUME gpc = "meshed" PROVE MeshIsClosed
    BY DEF MeshIsClosed
  <1>1. PICK R \in 2..grid.rows, C \in 2..grid.columns : target = <<R, C>>
    BY DEF TerrainInv, Sampled
  <1>2. R \in Nat \ {0, 1} /\ C \in Nat \ {0, 1}
    BY DEF TerrainInv, Gridded, Sized
  <1> DEFINE F == RectangularFaces(<<R, C>>)
             E == DirectedEdges(F)
  <1>3. TriangleCount(target) = 4 * R * C - 4
    BY <1>1 DEF TriangleCount
  <1>4. Cardinality(F) = 4 * R * C - 4 /\ Cardinality(E) = 3 * (4 * R * C - 4)
    BY <1>2, MeshCounts
  <1>5. \A e \in E : <<e[2], e[1]>> \in E
    BY <1>2, EdgesGoBothWays
  <1> HIDE DEF E, F
  <1>6. MeshIsClosed <=> /\ Cardinality(F) = TriangleCount(target)
                         /\ Cardinality(E) = 3 * Cardinality(F)
                         /\ \A e \in E : <<e[2], e[1]>> \in E
    BY <1>1 DEF MeshIsClosed, E, F
  <1> QED
    BY <1>3, <1>4, <1>5, <1>6

\* For every raster, every budget and every policy of the vertical scale: the crop
\* is the largest rectangle the source covers, the samples fit the budgets whenever
\* any do, the relief reaches no higher than the limit, the mesh is closed with each
\* edge walked once in each direction, and a gate of the preflight fails only for a
\* memory budget below sixteen cells or a grid of two columns
\* (largest_true_rectangle, fit_shape_to_budget, resolve_scaling,
\* build_rectangular_solid, analyze_mesh).
THEOREM TerrainIsPrintableHolds == TerrainSpec => [](TerrainTypeOK /\ TerrainIsPrintable)
  <1>1. TerrainInit => TerrainInv /\ ScaleInv
    BY DEF TerrainInit, TerrainInv, ScaleInv, Gridded, Sampled, CropIsLargest
  <1>2. TerrainInv /\ ScaleInv => TerrainTypeOK /\ TerrainIsPrintable
    <2> SUFFICES ASSUME TerrainInv, ScaleInv PROVE TerrainTypeOK /\ TerrainIsPrintable
      OBVIOUS
    <2>1. TerrainTypeOK /\ SamplesFitBudgets /\ CropIsLargest
      BY GridIsWithinBudgets
    <2>2. GatesFailForCause
      BY GatesHold
    <2>3. MeshIsClosed
      BY MeshCloses
    <2>4. gpc # "too_high"
      BY DEF ScaleInv
    <2> QED
      BY <2>1, <2>2, <2>3, <2>4 DEF TerrainIsPrintable
  <1> QED
    BY <1>1, <1>2, TerrainStep, ScaleStep, PTL DEF TerrainSpec

===============================================================================
