---------------------------- MODULE BusinessUnits ----------------------------
(***************************************************************************)
(* Brands, their products and the cache of their codes (company.service.ts *)
(* and business-unit-resolver.service.ts).  A query is sent, runs, and     *)
(* comes back, in three steps; the cache is a variable of the process that *)
(* a restart loses.  A code stands for its row: brands are created, never  *)
(* removed.                                                                *)
(***************************************************************************)
EXTENDS Tables

CONSTANTS Callers, Brands, Products

ASSUME NullIsNoBrand == None \notin Brands

VARIABLES
    units,          \* the rows of business_units
    policies,       \* the brands whose SLA policies are seeded
    products,       \* product -> [unit, archived]
    cache,          \* null, or the codes that are cached
    calls           \* caller -> where it is

brands == <<units, policies, products, cache, calls>>

NoCall ==
    [at |-> "idle", use |-> "none", code |-> None, product |-> None, asks |-> {},
     found |-> {}, missed |-> {}, retry |-> None, rows |-> {}]

Free(c) == calls[c].at = "idle"

Goes(c, call) == calls' = [calls EXCEPT ![c] = call]

BrandsInit ==
    /\ units \in SUBSET Brands /\ policies = units /\ products = << >>
    /\ cache = None
    /\ calls = [c \in Callers |-> NoCall]

-----------------------------------------------------------------------------
(* company.service.ts *)

Creating(at, code) ==
    [at |-> at, use |-> "none", code |-> code, product |-> None, asks |-> {},
     found |-> {}, missed |-> {}, retry |-> None, rows |-> {}]

CreateBusinessUnit(c, code) ==
    /\ Free(c) /\ code \notin units
    /\ Goes(c, Creating("saveUnit", code))
    /\ UNCHANGED <<units, policies, products, cache>>

\* The code is unique.
SaveUnit(c) ==
    LET code == calls[c].code
    IN  /\ calls[c].at = "saveUnit"
        /\ units' = units \cup {code}
        /\ Goes(c, IF code \in units THEN NoCall ELSE Creating("invalidate", code))
        /\ UNCHANGED <<policies, products, cache>>

InvalidateCache(c) ==
    /\ calls[c].at = "invalidate"
    /\ cache' = None
    /\ Goes(c, Creating("seed", calls[c].code))
    /\ UNCHANGED <<units, policies, products>>

SeedSlaPolicies(c) ==
    /\ calls[c].at = "seed"
    /\ policies' = policies \cup {calls[c].code}
    /\ Goes(c, NoCall)
    /\ UNCHANGED <<units, products, cache>>

\* Renaming or deactivating a brand leaves its code and drops the cache.
UpdateBusinessUnit(c, code) ==
    /\ Free(c) /\ code \in units
    /\ cache' = None
    /\ UNCHANGED <<units, policies, products, calls>>

ArchiveProduct(c, p, archived) ==
    /\ Free(c) /\ p \in DOMAIN products
    /\ products' = [products EXCEPT ![p].archived = archived]
    /\ UNCHANGED <<units, policies, cache, calls>>

RemoveProduct(c, p) ==
    /\ Free(c) /\ p \in DOMAIN products
    /\ products' = Without(products, {p})
    /\ UNCHANGED <<units, policies, cache, calls>>

-----------------------------------------------------------------------------
(* business-unit-resolver.service.ts *)

Left(call) == call.asks \ (call.found \cup call.missed)

\* The call goes on with what it has found out.
Onward(call, at, found, missed, retry, rows) ==
    [at |-> at, use |-> call.use, code |-> call.code, product |-> call.product, asks |-> call.asks,
     found |-> found, missed |-> missed, retry |-> retry, rows |-> rows]

\* Mutant: a code that is missing from a map is missing, reloaded or not.
LookTrusting(c, call, map) ==
    /\ Goes(c, Onward(call, "resolved", call.found \cup (Left(call) \cap map),
                      call.missed \cup (Left(call) \ map), None, {}))
    /\ cache' = map

FoundIn(call, map) == IF call.use = "all" THEN map ELSE call.found \cup (Left(call) \cap map)

MissedIn(call, map) == call.missed \cup ((Left(call) \cap {call.retry}) \ map)

\* The map is at hand, and is the cache.  A code it lacks drops the cache and
\* is looked up again, once; resolveAllIds() trusts what it finds.
Look(c, call, map) ==
    LET rest == (Left(call) \ map) \ {call.retry}
    IN  \/ /\ rest = {} /\ cache' = map
           /\ Goes(c, Onward(call, "resolved", FoundIn(call, map), MissedIn(call, map), None, {}))
        \/ \E code \in rest :
              /\ cache' = None
              /\ Goes(c, Onward(call, "query", FoundIn(call, map), MissedIn(call, map), code, {}))

Asking(use, codes, product) ==
    [at |-> "query", use |-> use, code |-> None, product |-> product, asks |-> codes,
     found |-> {}, missed |-> {}, retry |-> None, rows |-> {}]

Resolves(c, call) ==
    /\ Free(c)
    /\ \/ cache = None /\ Goes(c, call) /\ UNCHANGED cache
       \/ cache # None /\ Look(c, call, cache)
    /\ UNCHANGED <<units, policies, products>>

\* createProduct() resolves the code of its brand.
Resolve(c, code, product) ==
    product \notin DOMAIN products /\ Resolves(c, Asking("product", {code}, product))

\* An owner sees every brand, others those of their roles; without one, none.
ResolveAllIds(c) == Resolves(c, Asking("all", {}, None))

ResolveAllowedUnits(c, codes) == codes # {} /\ Resolves(c, Asking("roles", codes, None))

\* The rows as they are when the query runs.
RunQuery(c) ==
    /\ calls[c].at = "query"
    /\ Goes(c, Onward(calls[c], "rows", calls[c].found, calls[c].missed, calls[c].retry, units))
    /\ UNCHANGED <<units, policies, products, cache>>

Load(c) ==
    /\ calls[c].at = "rows"
    /\ Look(c, calls[c], calls[c].rows)
    /\ UNCHANGED <<units, policies, products>>

\* What was resolved is used: the product is inserted if its code is free.
Finish(c) ==
    LET call == calls[c]
    IN  /\ call.at = "resolved"
        /\ products' = IF call.use = "product" /\ call.missed = {} /\ call.product \notin DOMAIN products
                       THEN With(products, call.product, [unit |-> call.found, archived |-> FALSE])
                       ELSE products
        /\ Goes(c, NoCall)
        /\ UNCHANGED <<units, policies, cache>>

\* The process starts again: calls and cache are gone.
Restart ==
    /\ calls' = [c \in Callers |-> NoCall] /\ cache' = None
    /\ UNCHANGED <<units, policies, products>>

-----------------------------------------------------------------------------
BrandsStep(c) ==
    \/ \E code \in Brands : CreateBusinessUnit(c, code) \/ UpdateBusinessUnit(c, code)
    \/ SaveUnit(c) \/ InvalidateCache(c) \/ SeedSlaPolicies(c)
    \/ \E p \in Products :
          \/ RemoveProduct(c, p)
          \/ \E archived \in BOOLEAN : ArchiveProduct(c, p, archived)
          \/ \E code \in Brands : Resolve(c, code, p)
    \/ ResolveAllIds(c)
    \/ \E codes \in SUBSET Brands : ResolveAllowedUnits(c, codes)
    \/ RunQuery(c) \/ Load(c) \/ Finish(c)

BrandsNext == (\E c \in Callers : BrandsStep(c)) \/ Restart

\* A call has its answers when its query has run.
Yes(call) == (call.asks \cap call.found) \cup (IF call.at = "rows" THEN Left(call) \cap call.rows
                                                  ELSE {})

No(call) == call.missed \cup (IF call.at = "rows" THEN (Left(call) \cap {call.retry}) \ call.rows
                                 ELSE {})

Registry == INSTANCE BrandRegistry WITH
    registered <- units,
    asked <- [c \in Callers |-> calls[c].asks],
    yes <- [c \in Callers |-> Yes(calls[c])],
    no <- [c \in Callers |-> No(calls[c])]

\* Whatever loads, invalidations and creations overlap, each code a call asks
\* about is answered by the truth at some moment of the call (resolve() and
\* resolveAllowedUnits() of the resolver).
ResolvesTruly == Registry!Spec
=============================================================================
