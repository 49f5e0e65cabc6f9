---------------------------- MODULE TypeMapByOid ----------------------------
(***************************************************************************)
(* The type maps for result values: PG::TypeMapByOid with its cache,       *)
(* PG::TypeMapByColumn and PG::TypeMapAllStrings, linked by their          *)
(* default_type_map (ext/pg_type_map*.c), and how a PG::Result is fitted   *)
(* with one of them.  The two formats of TypeMapByOid have a hash and a    *)
(* cache each; one of them is modelled.                                    *)
(***************************************************************************)
EXTENDS Integers, Sequences, FiniteSets

CONSTANTS
  AllStrings,    \* pg_typemap_all_strings
  OidMaps,       \* type maps by OID of the program
  ColumnMaps,    \* a function from type maps by column to their coders
  Results,       \* a function from results to [oids, ntuples]
  Coders,        \* decoder objects
  NoCoder,       \* nil and NULL
  OidOf,         \* the OID of each coder
  CacheSize,     \* entries of cache_row, 256 in the code
  MaxRows,       \* values of max_rows_for_online_lookup
  Changes        \* bound on the changes to the maps

ASSUME TypeMapAssumption ==
  /\ \E n \in MaxRows : \A k \in MaxRows : k <= n
  /\ AllStrings \notin OidMaps \cup DOMAIN ColumnMaps
  /\ OidMaps \cap DOMAIN ColumnMaps = {}
  /\ NoCoder \notin Coders
  /\ CacheSize \in Nat \ {0} /\ Changes \in Nat /\ MaxRows \subseteq Nat
  /\ OidOf \in [Coders -> Nat]
  /\ \A m \in DOMAIN ColumnMaps : ColumnMaps[m] \in Seq(Coders \cup {NoCoder})
  /\ \A r \in DOMAIN Results : Results[r].oids \in Seq(Nat) /\ Results[r].ntuples \in Nat

VARIABLES
  maps,      \* the type maps: kind, default_typemap, coders by column; or by
             \* OID: max_rows, the owner of the hash oid_to_coder, the cache
  hash,      \* oid_to_coder of each map by OID
  typemap,   \* the type map of each result
  freed,     \* coder objects that the garbage collector has taken
  refit,     \* results whose maps got another default since they were fitted
  shared,    \* results with a copied map whose hash was changed since then
  changes    \* number of changes to the maps

tmVars == <<maps, hash, typemap, freed, refit, shared, changes>>

Res == DOMAIN Results
User == OidMaps \cup DOMAIN ColumnMaps

(* The map that fit_to_result builds for a result r in the place of the    *)
(* map m is <<r, m>>; a new fit replaces it.                               *)
Built == Res \X User
Maps == {AllStrings} \cup User \cup Built

ASSUME MapsAssumption ==
  /\ IsFiniteSet(User)
  /\ ({AllStrings} \cup User) \cap Built = {}

Empty == [oid |-> 0, coder |-> NoCoder]
NoCache == [s \in 0..(CacheSize - 1) |-> Empty]
Blank == [kind |-> "none", default |-> AllStrings, convs |-> <<>>,
          max |-> 0, hash |-> AllStrings, cache |-> NoCache]

pg_tmbo_s_allocate(m) == [Blank EXCEPT !.kind = "oid", !.hash = m, !.max = CHOOSE n \in MaxRows : \A k \in MaxRows : k <= n]
pg_tmbc_init(convs) == [Blank EXCEPT !.kind = "column", !.convs = convs]

Oids == {OidOf[c] : c \in Coders} \cup UNION {{Results[r].oids[f] : f \in DOMAIN Results[r].oids} : r \in Res}

TmInit ==
  /\ maps = [m \in Maps |->
               CASE m = AllStrings -> [Blank EXCEPT !.kind = "strings"]
                 [] m \in OidMaps -> pg_tmbo_s_allocate(m)
                 [] m \in DOMAIN ColumnMaps -> pg_tmbc_init(ColumnMaps[m])
                 [] OTHER -> Blank]
  /\ hash = [m \in OidMaps |-> [o \in Oids |-> NoCoder]]
  /\ typemap = [r \in Res |-> AllStrings]
  /\ freed = {} /\ refit = {} /\ shared = {}
  /\ changes = 0

-----------------------------------------------------------------------------
(* Looking up a coder *)

Slot(oid) == oid % CacheSize

Hit_oid(map, oid) == map.cache[Slot(oid)].oid = oid
Hit(map, oid) ==
  LET e == map.cache[Slot(oid)] IN e.oid = oid /\ (oid # 0 \/ e.coder # NoCoder)

pg_tmbo_lookup_oid(map, oid) ==
  IF Hit(map, oid) THEN map.cache[Slot(oid)].coder ELSE hash[map.hash][oid]

(* The cache after the lookup. *)
Cached(map, oid) ==
  [map EXCEPT !.cache[Slot(oid)] = [oid |-> oid, coder |-> pg_tmbo_lookup_oid(map, oid)]]

(* The chain of default maps behind m, up to AllStrings, which is the      *)
(* default of itself: some that were built for a result and then some of   *)
(* the program, none of them twice.                                        *)
Long == 2 * Cardinality(User) + 2
Chain(m) ==
  LET next[k \in 1..Long] == IF k = 1 THEN m ELSE maps[next[k - 1]].default
  IN  next
Linked(m) == {Chain(m)[k] : k \in 1..Long}

-----------------------------------------------------------------------------
(* Changing the maps *)

Change == changes < Changes /\ changes' = changes + 1

(* The results that read through a copy of m, which has m's hash. *)
Sharing(m) ==
  {r \in Res : \E b \in Linked(typemap[r]) : b \in Built /\ maps[b].kind = "oid" /\ maps[b].hash = m}

pg_tmbo_add_coder(m, c) ==
  /\ Change
  /\ c \notin freed
  /\ maps' = [maps EXCEPT ![m].cache[Slot(OidOf[c])] = [oid |-> OidOf[c], coder |-> c]]
  /\ hash' = [hash EXCEPT ![m][OidOf[c]] = c]
  /\ shared' = shared \cup Sharing(m)
  /\ UNCHANGED <<typemap, freed, refit>>

pg_tmbo_rm_coder_cached(m, oid) ==
  /\ Change
  /\ hash' = [hash EXCEPT ![m][oid] = NoCoder]
  /\ shared' = shared \cup Sharing(m)
  /\ UNCHANGED <<maps, typemap, freed, refit>>
pg_tmbo_rm_coder(m, oid) ==
  /\ Change
  /\ maps' = [maps EXCEPT ![m].cache[Slot(oid)] = Empty]
  /\ hash' = [hash EXCEPT ![m][oid] = NoCoder]
  /\ shared' = shared \cup Sharing(m)
  /\ UNCHANGED <<typemap, freed, refit>>

max_rows_for_online_lookup_set(m, n) ==
  /\ Change
  /\ n # maps[m].max
  /\ maps' = [maps EXCEPT ![m].max = n]
  /\ UNCHANGED <<hash, typemap, freed, refit, shared>>

(* The program must not build a circle, which would recurse without end.   *)
default_type_map_set(m, d) ==
  /\ Change
  /\ d # maps[m].default /\ m \notin Linked(d)
  /\ maps' = [maps EXCEPT ![m].default = d]
  /\ refit' = refit \cup {r \in Res : m \in Linked(typemap[r])}
  /\ UNCHANGED <<hash, typemap, freed, shared>>

(* The hashes and the maps by column hold their coders, caches do not.     *)
Referenced ==
  {hash[m][o] : m \in OidMaps, o \in Oids}
    \cup UNION {{maps[m].convs[k] : k \in DOMAIN maps[m].convs} : m \in Maps}
CollectCoder(c) ==
  /\ c \notin freed /\ c \notin Referenced
  /\ freed' = freed \cup {c}
  /\ UNCHANGED <<maps, hash, typemap, refit, shared, changes>>

-----------------------------------------------------------------------------
(* Fitting a result *)

(* pg_tmbo_build_type_map_for_result2, from the map after its lookups. *)
Columns(map, oids) == [f \in DOMAIN oids |-> pg_tmbo_lookup_oid(map, oids[f])]
AllCached(map, oids) ==
  LET after[f \in 0..Len(oids)] == IF f = 0 THEN map ELSE Cached(after[f - 1], oids[f])
  IN  after[Len(oids)]

Online(map, r) == Results[r].ntuples <= map.max

(* What takes the place of m: fit_to_result returns m itself if it is not  *)
(* turned into a map by column and its default stays the same, which is    *)
(* so if none of the maps behind m is turned into one.                     *)
Fitted(m, r) ==
  IF \A x \in Linked(m) : maps[x].kind = "oid" => Online(maps[x], r) THEN m ELSE <<r, m>>

(* pg_tmbc_fit_to_result *)
FitsColumns_any(m, r) == TRUE
FitsColumns(m, r) ==
  \A x \in Linked(m) : maps[x].kind = "column" => Len(maps[x].convs) = Len(Results[r].oids)

(* A copy keeps the hash and what the cache holds at this moment. *)
BuildMap(map, sub, r) ==
  IF map.kind = "oid" /\ ~Online(map, r)
  THEN [pg_tmbc_init(Columns(map, Results[r].oids)) EXCEPT !.default = sub]
  ELSE [map EXCEPT !.default = sub]

pgresult_type_map_set(r, m) ==
  /\ FitsColumns(m, r)
  /\ typemap' = [typemap EXCEPT ![r] = Fitted(m, r)]
  /\ maps' = [b \in Maps |->
       IF b \in Built /\ b[1] = r
       THEN IF b[2] \in Linked(m) /\ Fitted(b[2], r) = b
            THEN BuildMap(maps[b[2]], Fitted(maps[b[2]].default, r), r) ELSE Blank
       ELSE IF b \in Linked(m) /\ maps[b].kind = "oid" /\ ~Online(maps[b], r)
            THEN AllCached(maps[b], Results[r].oids) ELSE maps[b]]
  /\ refit' = refit \ {r} /\ shared' = shared \ {r}
  /\ UNCHANGED <<hash, freed, changes>>

-----------------------------------------------------------------------------
(* Reading a value: along the chain up to the first map with a coder for   *)
(* the field.                                                              *)

InColumns(map, f) == f \in DOMAIN map.convs

(* Beyond the columns of a map the read is undefined: it may find NULL, as *)
(* here, or end the program.                                               *)
CoderIn(map, r, f) ==
  CASE map.kind = "oid" -> pg_tmbo_lookup_oid(map, Results[r].oids[f])
    [] map.kind = "column" /\ InColumns(map, f) -> map.convs[f]
    [] OTHER -> NoCoder

(* The maps that are asked. *)
Asked(r, f) ==
  LET chain == Chain(typemap[r]) IN
  {chain[k] : k \in {k \in 1..Long :
                       \A n \in 1..(k - 1) : CoderIn(maps[chain[n]], r, f) = NoCoder}}

typecast_result_value(r, f) ==
  /\ maps' = [m \in Maps |->
       IF m \in Asked(r, f) /\ maps[m].kind = "oid"
       THEN Cached(maps[m], Results[r].oids[f]) ELSE maps[m]]
  /\ UNCHANGED <<hash, typemap, freed, refit, shared, changes>>

TmNext ==
  \/ \E m \in OidMaps :
       \/ \E c \in Coders : pg_tmbo_add_coder(m, c)
       \/ \E o \in Oids : pg_tmbo_rm_coder(m, o)
       \/ \E n \in MaxRows : max_rows_for_online_lookup_set(m, n)
  \/ \E m \in User, d \in User \cup {AllStrings} : default_type_map_set(m, d)
  \/ \E c \in Coders : CollectCoder(c)
  \/ \E r \in Res :
       \/ \E m \in User \cup {AllStrings} : pgresult_type_map_set(r, m)
       \/ \E f \in DOMAIN Results[r].oids : typecast_result_value(r, f)

TmSpec == TmInit /\ [][TmNext]_tmVars

-----------------------------------------------------------------------------
(* Properties *)

(* A value is read through maps by column that have as many columns as the *)
(* result: the check of fit_to_result still holds when a value is read,    *)
(* also in the maps that were copied, unless the program gave one of the   *)
(* maps another default since then.                                        *)
ReadsFitColumns ==
  \A r \in Res \ refit : \A f \in DOMAIN Results[r].oids :
    \A m \in Asked(r, f) : maps[m].kind = "column" => InColumns(maps[m], f)

(* The coder that a value is decoded with has not been collected, although *)
(* the caches do not hold their coders: it was removed from the cache      *)
(* together with the hash, or is held by a map by column.  Only a copy     *)
(* whose hash was changed through the original may have it cached.         *)
ReadsLiveCoder ==
  \A r \in Res \ shared : \A f \in DOMAIN Results[r].oids :
    \A m \in Asked(r, f) : CoderIn(maps[m], r, f) \notin freed

(* What the cache of a map of the program answers is what its hash has,    *)
(* after any sequence of additions, removals and reads of OIDs that share  *)
(* an entry of the cache.                                                  *)
OidCacheAgrees ==
  \A m \in OidMaps : \A o \in Oids :
    pg_tmbo_lookup_oid(maps[m], o) = hash[m][o]
=============================================================================
