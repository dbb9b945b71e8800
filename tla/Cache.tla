------------------------------- MODULE Cache -------------------------------
(***************************************************************************)
(* The Redis cache of canonical parameters (internal/cache/redis.go).      *)
(* An entry is the parameter as it was marshalled, so it keeps the state   *)
(* the writer had read.  The five-minute TTL is untimed: an entry may      *)
(* expire in any state.                                                    *)
(***************************************************************************)
EXTENDS Store, Sequences

VARIABLE cache

\* Mutant: the namespace is left out of the key.
keyOnly(n) == n.key

\* The constant prefix "tm:canonical:" distinguishes nothing and is left out.
cacheKey(n) == n.namespace \o <<":">> \o n.key

CacheKeys == {cacheKey(n) : n \in Names}

\* Any error, of Redis or of json.Unmarshal, is a miss to the caller.
GetCanonical(n, out) == IF out = "ok" THEN cache[cacheKey(n)] ELSE None

SetCanonical(p, out) ==
  cache' = IF Executed(out)
           THEN [cache EXCEPT ![cacheKey(params[p.id].name)] = p]
           ELSE cache

InvalidateCanonical(n, out) ==
  cache' = IF Executed(out) THEN [cache EXCEPT ![cacheKey(n)] = None] ELSE cache

\* Mutant: entries are set without a TTL.
NeverExpire(k) == FALSE /\ UNCHANGED cache

\* canonicalTTL has passed since the entry was set.
ExpireEntry(k) ==
  /\ cache[k] # None
  /\ cache' = [cache EXCEPT ![k] = None]

CacheTypeOK == cache \in [CacheKeys -> Snapshot \cup {None}]

CacheInit == cache = [k \in CacheKeys |-> None]
=============================================================================
