------------------------------ MODULE MCLoader ------------------------------
(***************************************************************************)
(* Small instances of Loader for TLC.                                       *)
(***************************************************************************)
EXTENDS Loader

G(m, h, index, dry) == [mode |-> m, hook |-> h, index |-> index, dryrun |-> dry]

(* A daemon that insists on being primary, and one that may become a secondary *)
(* with two hook indexes.                                                     *)
SecondaryConfigs == { G("auto", TRUE, <<0, 1>>, TRUE) }
MCConfigs == { G("primary", TRUE, <<>>, FALSE) } \cup SecondaryConfigs
=============================================================================
