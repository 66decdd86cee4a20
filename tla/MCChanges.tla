----------------------------- MODULE MCChanges -----------------------------
(***************************************************************************)
(* Changes on four paths: three in scope, two of which are equal but for   *)
(* case, and one outside.                                                  *)
(***************************************************************************)
EXTENDS Changes, TLC

CONSTANTS Upper, Lower, Other, Outside, body1

MCPaths == {Upper, Lower, Other, Outside}
MCFold == (Upper :> "notes" @@ Lower :> "notes" @@ Other :> "todo" @@ Outside :> "out")
MCScope == {Upper, Lower, Other}
MCFacts == {body1}
=============================================================================
