----------------------------- MODULE MCRouterConfig -----------------------------
(* RouterConfig with three builders, enough to nest one below another.     *)
EXTENDS RouterConfig

MCMasks == {<<"/x">>}
MCFilterPaths == {<<>>, <<"/y", "/">>}
MCMountPaths == {<<"/m">>, <<"/n">>}

\* The properties are safety properties and no builder is told from another.
MCSymmetry == Permutations(Builders)
================================================================================
