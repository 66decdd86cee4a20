----------------------------- MODULE MCDataDir -----------------------------
(***************************************************************************)
(* A directory and a path in it, which may be a file or a directory; a     *)
(* document that excludes nothing and one that excludes the directory as   *)
(* an anchored rule does: its files too, but no directory below it.        *)
(***************************************************************************)
EXTENDS DataDir, TLC

CONSTANTS Dir, Inner, Allow, Ignore

MCPaths == {Dir, Inner}
MCAbove == Dir :> {} @@ Inner :> {Dir}
MCOrder == Dir :> 1 @@ Inner :> 2
MCFound == Dir :> Directory @@ Inner :> [content |-> 2, stamp |-> 2]
MCKept == {[path |-> Inner, file |-> [content |-> 1, stamp |-> 1], listed |-> TRUE]}
MCRules == {Allow, Ignore}
MCExcluded == Allow :> {} @@ Ignore :> {<<Dir, TRUE>>, <<Inner, FALSE>>}
=============================================================================
