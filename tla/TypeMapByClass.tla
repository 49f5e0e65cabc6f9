--------------------------- MODULE TypeMapByClass ---------------------------
(***************************************************************************)
(* PG::TypeMapByClass (ext/pg_type_map_by_class.c): the encoder of a query *)
(* parameter by its class, with a cache that is looked up by the address   *)
(* of the class.  Classes can get other ancestors, and can be moved by     *)
(* GC.compact or collected while the cache knows their address.            *)
(***************************************************************************)
EXTENDS Naturals, Sequences, FiniteSets

CONSTANTS
  Classes,       \* classes and modules of the program
  Encoders,      \* PG::Coder objects that can be assigned
  Procs,         \* symbols and procs that can be assigned
  Nil,           \* no assignment, and NULL
  Addresses,     \* values of VALUE a class can have, not 0
  Slots,         \* entries of cache_row, 256 in the code
  Lineages       \* the ancestors that each class can have: prepended modules,
                 \* itself, what it includes and derives from

ASSUME ByClassAssumption ==
  /\ Nil \notin Encoders \cup Procs /\ Encoders \cap Procs = {}
  /\ Addresses \subseteq Nat \ {0} /\ Slots \in Nat \ {0}
  /\ Lineages \in [Classes -> SUBSET Seq(Classes)]
  /\ \A k \in Classes : \A l \in Lineages[k] : Len(l) > 0

VARIABLES
  klass_to_coder,   \* class -> encoder, proc or nil
  cache_row,        \* slot -> [klass, coder]
  ancestors,        \* class -> its ancestors
  address,          \* class -> its VALUE
  reopened          \* classes with other ancestors than when they were cached

tkVars == <<klass_to_coder, cache_row, ancestors, address, reopened>>

Cleared == [s \in 0..(Slots - 1) |-> [klass |-> 0, coder |-> Nil]]

TkInit ==
  /\ klass_to_coder = [k \in Classes |-> Nil]
  /\ cache_row = Cleared
  /\ ancestors \in [Classes -> UNION {Lineages[k] : k \in Classes}]
  /\ \A k \in Classes : ancestors[k] \in Lineages[k]
  /\ address \in {a \in [Classes -> Addresses] : \A j, k \in Classes : a[j] = a[k] => j = k}
  /\ reopened = {}

CACHE_LOOKUP(k) == address[k] % Slots
Hits(k) == cache_row[CACHE_LOOKUP(k)].klass = address[k]

(* The class, then its ancestors but for the first one, be that the class  *)
(* itself or a module that was prepended to it.                            *)
Searched(k) == <<k>> \o Tail(ancestors[k])

(* The first assignment among them. *)
FullLookup(k) ==
  LET Has == {i \in DOMAIN Searched(k) : klass_to_coder[Searched(k)[i]] # Nil}
  IN  IF Has = {} THEN Nil
      ELSE klass_to_coder[Searched(k)[CHOOSE i \in Has : \A j \in Has : i <= j]]

-----------------------------------------------------------------------------
(* The encoder for a parameter of class k.  What a proc answers is not     *)
(* written to the cache.                                                   *)
pg_tmbk_lookup_klass(k) ==
  /\ ~Hits(k)
  /\ FullLookup(k) \notin Procs
  /\ cache_row' = [cache_row EXCEPT ![CACHE_LOOKUP(k)] =
                     [klass |-> address[k], coder |-> FullLookup(k)]]
  /\ reopened' = reopened \ {j \in Classes : CACHE_LOOKUP(j) = CACHE_LOOKUP(k)}
  /\ UNCHANGED <<klass_to_coder, ancestors, address>>

pg_tmbk_aset_selective(k, coder) ==
  /\ klass_to_coder' = [klass_to_coder EXCEPT ![k] = coder]
  /\ cache_row' = IF Hits(k)
                  THEN [cache_row EXCEPT ![CACHE_LOOKUP(k)] = [klass |-> 0, coder |-> Nil]]
                  ELSE cache_row
  /\ reopened' = {}
  /\ UNCHANGED <<ancestors, address>>
pg_tmbk_aset(k, coder) ==
  /\ klass_to_coder' = [klass_to_coder EXCEPT ![k] = coder]
  /\ cache_row' = Cleared
  /\ reopened' = {}
  /\ UNCHANGED <<ancestors, address>>

pg_tmbk_compact(a) ==
  /\ \A j, k \in Classes : a[j] = a[k] => j = k
  /\ address' = a
  /\ cache_row' = Cleared
  /\ reopened' = {}
  /\ UNCHANGED <<klass_to_coder, ancestors>>

(* A module is included into the class, or the class is collected and      *)
(* another one takes its place at the same address.  Only classes without  *)
(* derivations have several lineages.                                      *)
Reopen(k, lineage) ==
  /\ lineage # ancestors[k]
  /\ ancestors' = [ancestors EXCEPT ![k] = lineage]
  /\ reopened' = IF Hits(k) THEN reopened \cup {k} ELSE reopened
  /\ UNCHANGED <<klass_to_coder, cache_row, address>>

TkNext ==
  \/ \E k \in Classes : pg_tmbk_lookup_klass(k)
  \/ \E k \in Classes, coder \in Encoders \cup Procs \cup {Nil} : pg_tmbk_aset(k, coder)
  \/ \E a \in [Classes -> Addresses] : pg_tmbk_compact(a)
  \/ \E k \in Classes : \E lineage \in Lineages[k] : Reopen(k, lineage)

TkSpec == TkInit /\ [][TkNext]_tkVars

-----------------------------------------------------------------------------
(* A cache hit answers what the full lookup over the ancestors would, and  *)
(* never answers instead of a proc: assignments to a base class reach the  *)
(* derived classes that are cached already, and a class that GC.compact    *)
(* moves to the former address of another one does not get its encoder.    *)
(* A class that got other ancestors while it was cached is excepted.       *)
ClassCacheAgrees ==
  \A k \in Classes \ reopened :
    Hits(k) => /\ cache_row[CACHE_LOOKUP(k)].coder = FullLookup(k)
               /\ FullLookup(k) \notin Procs
=============================================================================
