----------------------------- MODULE MCTypeMaps -----------------------------
(* The type maps for results, the cache of the one by class, the tuples    *)
(* and the parameters of a query, on small instances: they share no state, *)
(* so that one of them moves in each behaviour.                            *)
EXTENDS TypeMapByOid, TypeMapByClass, TupleFields, MCQueryParams, TLC

CONSTANTS o1, o2, k1, k2, r1, c1, c2, Base, Mixin, Derived

VARIABLE side   \* "result", "class", "tuple" or "params"

(* All OIDs share the one entry of the cache; 0 is the OID that an empty   *)
(* entry has.  k1 fits to the result, k2 has too few columns.  The module  *)
(* can be included into the derived class or prepended to it.              *)
MCOidOf == (c1 :> 3) @@ (c2 :> 0)
MCColumnMaps == (k1 :> <<c2, NoCoder>>) @@ (k2 :> <<NoCoder>>)
MCResults == (r1 :> [oids |-> <<3, 0>>, ntuples |-> 2])
MCLineages ==
  (Base :> {<<Base>>}) @@ (Mixin :> {<<Mixin>>})
    @@ (Derived :> {<<Derived, Base>>, <<Derived, Mixin, Base>>,
                    <<Mixin, Derived, Base>>})

Sym == Permutations(OidMaps) \cup Permutations(Encoders) \cup Permutations(Threads)
         \cup Permutations(TypeMaps)

MCNameLists == {<<"a", "b">>, <<"a", "a">>}

Init ==
  /\ side \in {"result", "class", "tuple", "params"}
  /\ TmInit /\ TkInit
  /\ side # "class" => /\ address = (Base :> 1) @@ (Mixin :> 2) @@ (Derived :> 3)
                       /\ ancestors[Derived] = <<Derived, Base>>
  /\ TfInit
  /\ side # "tuple" => fnames = <<"a", "b">>
  /\ QpInit
  /\ side # "params" => params = <<>> /\ qmap = <<>> /\ ~with_types

Next ==
  \/ side = "result" /\ TmNext /\ UNCHANGED <<tkVars, tfVars, qpVars, side>>
  \/ side = "class" /\ TkNext /\ UNCHANGED <<tmVars, tfVars, qpVars, side>>
  \/ side = "tuple" /\ TfNext /\ UNCHANGED <<tmVars, tkVars, qpVars, side>>
  \/ side = "params" /\ QpNext /\ UNCHANGED <<tmVars, tkVars, tfVars, side>>

Spec == Init /\ [][Next]_<<tmVars, tkVars, tfVars, qpVars, side>>
=============================================================================
