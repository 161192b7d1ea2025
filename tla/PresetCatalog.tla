--------------------------- MODULE PresetCatalog ---------------------------
(***************************************************************************)
(* The catalog of storage presets at Timeweb, the provider's cache of it   *)
(* and the selection from it (internal/controller/shared/resolver: cache,  *)
(* match_size, resolve).                                                   *)
(*                                                                         *)
(* A controller has one worker and one cache, so that no two callers meet  *)
(* in getOrFetch.  A region is left out: a spec that names none takes any. *)
(***************************************************************************)
EXTENDS Naturals, FiniteSets

CONSTANTS
  Presets,  \* [id, disk, class]: what Timeweb sells at first
  TTL       \* clampTTL of the cache's lifetime, in ticks

ASSUME CatalogAssumption ==
  /\ TTL \in Nat \ {0}
  /\ IsFiniteSet(Presets) /\ Presets \subseteq [id : Nat \ {0}, disk : Nat, class : STRING]
  /\ \A p, q \in Presets : p.id = q.id => p = q

VARIABLES
  catalog,  \* what Timeweb sells now
  token,    \* the credentials are accepted
  entry,    \* the cached answer
  age       \* ticks since it was stored

cache == <<entry, age>>

Classes == {p.class : p \in Presets} \cup {"standard"}
Sold == SUBSET [id : {p.id : p \in Presets}, disk : {p.disk : p \in Presets}, class : Classes]

\* An answer to getOrFetch.
Miss      == [kind |-> "none", list |-> {}]
Denied    == [kind |-> "denied", list |-> {}]
Transient == [kind |-> "transient", list |-> {}]
List(c)   == [kind |-> "list", list |-> c]

CatalogTypeOK ==
  /\ catalog \in Sold /\ token \in BOOLEAN
  /\ entry \in [kind : {"none", "denied", "list"}, list : Sold] /\ age \in 0..TTL

CatalogInit == catalog = Presets /\ token \in BOOLEAN /\ entry = Miss /\ age = 0

expired == age >= TTL

\* An answer from the cache or, when there is no fresh one, from Timeweb.  401 and 403
\* are cached; an empty catalog counts as transient, and nothing transient is cached.
getOrFetch(answer, fails) ==
  \/ /\ entry # Miss /\ ~expired
     /\ answer = entry /\ ~fails /\ UNCHANGED cache
  \/ /\ entry = Miss \/ expired
     /\ answer = IF fails \/ (token /\ catalog = {}) THEN Transient
                 ELSE IF token THEN List(catalog) ELSE Denied
     /\ IF answer = Transient THEN UNCHANGED cache ELSE entry' = answer /\ age' = 0

\* Exact on size and class; no match and more than one are refused.
Matches(size, class, list) == {p \in list : p.disk = size /\ p.class = class}
MatchPresetBySize(size, class, list) ==
  IF Cardinality(Matches(size, class, list)) = 1
    THEN (CHOOSE p \in Matches(size, class, list) : TRUE).id ELSE 0

(***************************************************************************)
(* Time, and Timeweb.                                                      *)
(***************************************************************************)
Tick == age < TTL /\ entry # Miss /\ age' = age + 1 /\ UNCHANGED <<catalog, token, entry>>

\* "the catalog rotation moved every ... hot bucket to standard": presets keep their
\* ids and change their class, the buckets with them.
Rotated(class) == IF class = "hot" THEN "standard" ELSE class
Rotate == catalog' = {[p EXCEPT !.class = Rotated(@)] : p \in catalog} /\ catalog' # catalog
SellOut == \E p \in catalog : catalog' = catalog \ {p}
=============================================================================
