---------------------------- MODULE MCIdentityRoad ----------------------------
(* TLC instance of IdentityRoad: one provider, two of its work ids and an  *)
(* ISBN; three titles, two of which differ in the subtitle only.           *)
EXTENDS IdentityRoad, TLC

CONSTANTS ra, rb, isbn, ol, t1, t2, t3

MCProviderOf == (ra :> ol) @@ (rb :> ol)
MCMain == (t1 :> "m") @@ (t2 :> "m") @@ (t3 :> "n")
MCAlike == {<<t1, t1>>, <<t2, t2>>, <<t3, t3>>}

MCOffers == {{}, {ra}, {rb}, {isbn}}

\* One book known by its ISBN; or that and another one with a work id of its own.
Library(t, u, r) ==
  [title |-> <<t, u>>, routes |-> <<{isbn}, {r} \ {None}>>]
MCLibraries ==
  {Library(t, None, None) : t \in {t1, t2}} \cup {Library(t, t3, r) : t \in {t1, t2}, r \in {ra, rb}}

Symmetry == Permutations({ra, rb}) \cup Permutations({t1, t2})
=============================================================================
