---------------------------- MODULE ReferenceTiles ----------------------------
(***************************************************************************)
(* ReferenceTileCache (web/reference_tiles.py): map tiles in an SQLite     *)
(* file, least recently used out first.  Requests run on threads: one per  *)
(* tile downloads while the others wait, and cache-only requests never     *)
(* download nor wait.  A read that finds a bad row deletes what is there   *)
(* then, which another request may have stored meanwhile.                  *)
(***************************************************************************)
EXTENDS Naturals, FiniteSets

CONSTANTS
    Tiles,          \* tile coordinates; each has a lock (the code has 32 of them)
    Size,           \* bytes of each tile
    Requests,       \* calls of get
    MaxTiles, MaxBytes,
    MaxTileEvents   \* bound: rows damaged, rows that expire, failed downloads

ASSUME TileAssumption ==
    /\ Size \in [Tiles -> Nat] /\ MaxTiles \in Nat \ {0} /\ MaxTileEvents \in Nat
    /\ MaxBytes \in Nat /\ \A t \in Tiles : Size[t] <= MaxBytes
    /\ "none" \notin Tiles \cup Requests

VARIABLES
    row,         \* each tile's row: "none", "fresh", "stale" or "bad"
    older,       \* pairs of tiles with a row, the one accessed earlier first
    provenance,  \* tiles with a provenance row
    holds,       \* the request that holds each tile's lock
    request,     \* [pc, tile, only, read] of each request
    fetches,     \* downloads of each tile that succeeded
    losses,      \* times a tile's fresh row ended, or was bad
    tileEvents

tileVars == <<row, older, provenance, holds, request, fetches, losses, tileEvents>>

NoRequest == [pc |-> "idle", tile |-> "none", only |-> FALSE, read |-> "none"]
Rows      == {t \in Tiles : row[t] # "none"}

ReferenceTilesTypeOK ==
    /\ row \in [Tiles -> {"none", "fresh", "stale", "bad"}]
    /\ older \subseteq Rows \X Rows
    /\ \A t, u \in Rows : t # u => (<<t, u>> \in older <=> <<u, t>> \notin older)
    /\ provenance \subseteq Tiles
    /\ holds \in [Tiles -> Requests \cup {"none"}]
    /\ request \in [Requests -> [pc : {"idle", "selecting", "reading", "locking", "reselecting",
                                       "rereading", "fetching", "storing", "served", "refused"},
                                 tile : Tiles \cup {"none"}, only : BOOLEAN,
                                 read : {"none", "fresh", "stale", "bad"}]]
    /\ fetches \in [Tiles -> Nat] /\ losses \in [Tiles -> Nat]
    /\ tileEvents \in 0..MaxTileEvents

TilesInit ==
    /\ row = [t \in Tiles |-> "none"] /\ older = {} /\ provenance = {}
    /\ holds = [t \in Tiles |-> "none"]
    /\ request = [r \in Requests |-> NoRequest]
    /\ fetches = [t \in Tiles |-> 0] /\ losses = [t \in Tiles |-> 0] /\ tileEvents = 0

TileEvent   == tileEvents < MaxTileEvents /\ tileEvents' = tileEvents + 1
Tile(r)     == request[r].tile
In(r, step) == request[r].pc = step
Turns(r, step) == request' = [request EXCEPT ![r].pc = step]
Among(S)    == {p \in older : p[1] \in S /\ p[2] \in S}
Lose(gone)  == losses' = [t \in Tiles |-> losses[t] + (IF t \in gone THEN 1 ELSE 0)]

Get(r) ==
    /\ In(r, "idle")
    /\ \E t \in Tiles, only \in BOOLEAN :
          request' = [request EXCEPT ![r] = [NoRequest EXCEPT !.pc = "selecting", !.tile = t,
                                                              !.only = only]]
    /\ UNCHANGED <<row, older, provenance, holds, fetches, losses, tileEvents>>

\* _read begins with a SELECT outside of any transaction ...
SelectRow(r) ==
    /\ In(r, "selecting") \/ In(r, "reselecting")
    /\ request' = [request EXCEPT ![r].read = row[Tile(r)],
                      ![r].pc = IF @ = "selecting" THEN "reading" ELSE "rereading"]
    /\ UNCHANGED <<row, older, provenance, holds, fetches, losses, tileEvents>>

\* ... and ends with the deletion of a bad row, or a new access time.
EndsRead(r) ==
    LET t == Tile(r) IN
    CASE request[r].read = "bad" ->
             /\ row' = [row EXCEPT ![t] = "none"]
             /\ older' = Among(Rows \ {t})
             /\ provenance' = provenance \ {t}
             /\ Lose({t} \cap {x \in Tiles : row[x] = "fresh"})
      [] request[r].read # "bad" /\ request[r].read # "none" /\ row[t] # "none" ->
             /\ older' = Among(Rows \ {t}) \cup (Rows \ {t}) \X {t}
             /\ UNCHANGED <<row, provenance, losses>>
      [] OTHER -> UNCHANGED <<row, older, provenance, losses>>

\* A fresh row is served; a cache-only request is served an old one as well.
ReadRow(r) ==
    /\ In(r, "reading") /\ EndsRead(r)
    /\ Turns(r, IF request[r].read = "fresh" \/ (request[r].only /\ request[r].read = "stale")
                THEN "served"
                ELSE IF request[r].only THEN "refused" ELSE "locking")
    /\ UNCHANGED <<holds, fetches, tileEvents>>

LockTile(r) ==
    /\ In(r, "locking") /\ holds[Tile(r)] = "none"
    /\ holds' = [holds EXCEPT ![Tile(r)] = r]
    /\ Turns(r, "reselecting")
    /\ UNCHANGED <<row, older, provenance, fetches, losses, tileEvents>>

\* Mutant: who waited for the lock downloads without looking again.
FetchAnyway(r) ==
    /\ In(r, "rereading") /\ EndsRead(r) /\ Turns(r, "fetching")
    /\ UNCHANGED <<holds, fetches, tileEvents>>

\* Who waited for the lock looks again and downloads only if need be.
ReadLocked(r) ==
    /\ In(r, "rereading") /\ EndsRead(r)
    /\ IF request[r].read = "fresh"
       THEN Turns(r, "served") /\ holds' = [holds EXCEPT ![Tile(r)] = "none"]
       ELSE Turns(r, "fetching") /\ UNCHANGED holds
    /\ UNCHANGED <<fetches, tileEvents>>

FetchTile(r) ==
    /\ In(r, "fetching")
    /\ \/ /\ fetches' = [fetches EXCEPT ![Tile(r)] = @ + 1]
          /\ Turns(r, "storing") /\ UNCHANGED <<holds, tileEvents>>
       \/ /\ TileEvent /\ Turns(r, "refused")
          /\ holds' = [holds EXCEPT ![Tile(r)] = "none"] /\ UNCHANGED fetches
    /\ UNCHANGED <<row, older, provenance, losses>>

\* The sum of the sizes, as the number of bytes.
Bytes(S) == Cardinality({b \in Tiles \X (1..MaxBytes) : b[1] \in S /\ b[2] <= Size[b[1]]})

Fits(kept, t) == Cardinality(kept) < MaxTiles /\ Bytes(kept) + Size[t] <= MaxBytes

\* What may be left of some rows when the oldest go first.
Newest(rows) == {kept \in SUBSET rows : \A x \in kept, y \in rows \ kept : <<y, x>> \in older}

\* The rows left when the oldest are evicted one by one until t fits.
Evicted(rows, t) ==
    {kept \in Newest(rows) :
        Fits(kept, t) /\ \A more \in Newest(rows) : Fits(more, t) => more \subseteq kept}

\* _store is one transaction: its first statement is a write.
StoreTile(r) ==
    /\ In(r, "storing")
    /\ LET t == Tile(r) IN
       \E kept \in Evicted(Rows \ {t}, t) :
          LET gone == Rows \ (kept \cup {t}) IN
          /\ row' = [x \in Tiles |-> IF x = t THEN "fresh" ELSE IF x \in gone THEN "none"
                                     ELSE row[x]]
          /\ older' = Among(kept) \cup kept \X {t}
          /\ \E p \in {{}, {t}} :
                provenance' = ((provenance \ {t}) \cup p) \cap (kept \cup {t})
          /\ Lose({x \in gone : row[x] = "fresh"})
          /\ holds' = [holds EXCEPT ![t] = "none"]
    /\ Turns(r, "served")
    /\ UNCHANGED <<fetches, tileEvents>>

\* A row becomes seven days old, or its payload is damaged.
RowEnds(t, how) ==
    /\ row[t] = "fresh" /\ TileEvent
    /\ row' = [row EXCEPT ![t] = how] /\ Lose({t})
    /\ UNCHANGED <<older, provenance, holds, request, fetches>>

RequestStep(r) ==
    \/ Get(r) \/ SelectRow(r) \/ ReadRow(r) \/ LockTile(r) \/ ReadLocked(r) \/ FetchTile(r)
    \/ StoreTile(r)

TilesNext ==
    \/ \E r \in Requests : RequestStep(r)
    \/ \E t \in Tiles, how \in {"stale", "bad"} : RowEnds(t, how)
TilesSpec == TilesInit /\ [][TilesNext]_tileVars

-----------------------------------------------------------------------------
(* Properties *)

\* The cache keeps its two limits, and provenance only of tiles it has.
TileCacheWithinLimits ==
    /\ Cardinality(Rows) <= MaxTiles /\ Bytes(Rows) <= MaxBytes
    /\ provenance \subseteq Rows

\* Requests for one tile share a download: each tile is downloaded once, and
\* once more for every time its row expired, was damaged, evicted or deleted.
DownloadsAreShared == \A t \in Tiles : fetches[t] <= 1 + losses[t]

\* What the cache promises its requests, and the disk it is on.
TileCacheIsSound == TileCacheWithinLimits /\ DownloadsAreShared

=============================================================================
