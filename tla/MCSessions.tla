----------------------------- MODULE MCSessions -----------------------------
(***************************************************************************)
(* All sessions of the three families, each with the catalogs and databases*)
(* its queries are about.                                                  *)
(***************************************************************************)
EXTENDS MCFilters, MCJoins, RewriteSession

MCSettings == {FilterSetting, JoinSetting, PushdownSetting}
=============================================================================
