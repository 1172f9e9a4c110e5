--------------------------- MODULE MCRuntimeUpdate ---------------------------
(***************************************************************************)
(* Instance of RuntimeUpdate: two releases of one version that differ in    *)
(* their second file, and a release of another version that shares the      *)
(* first file with both.                                                    *)
(***************************************************************************)
EXTENDS RuntimeUpdate, TLC

CONSTANTS a1, b1, other, one, two, shared, x, y, spaced

MCReleases == {a1, b1, other}
MCVersions == {one, two}
MCVersionOf == (a1 :> one) @@ (b1 :> one) @@ (other :> two)
MCSpellings == {Plain, spaced}
MCContents == {shared, x, y}
MCSha == (a1 :> <<shared, x>>) @@ (b1 :> <<shared, y>>) @@ (other :> <<shared, x>>)
MCFragile == {<<one, 1>>}
MCFragileMeta == {two}
=============================================================================
