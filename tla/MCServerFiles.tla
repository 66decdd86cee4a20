--------------------------- MODULE MCServerFiles ---------------------------
(***************************************************************************)
(* Three requests on a file, a twin in the other case the volume takes for *)
(* the same file, one it tells apart, a directory and a file in it.        *)
(***************************************************************************)
EXTENDS ServerFiles, TLC

CONSTANTS Doc, Twin, Other, Folder, Inner, DocCopy, DocCopy2, InnerCopy, TwinCopy, OtherCopy, FolderCopy, r1, r2, r3

MCReqs == {r1, r2, r3}
MCNamed == {Doc, Twin, Other, Folder, Inner}
MCPaths == MCNamed \cup {DocCopy, DocCopy2, InnerCopy, TwinCopy, OtherCopy, FolderCopy}
MCFold == [p \in {Doc, Twin, Other} |-> "doc"] @@ [p \in {DocCopy, TwinCopy} |-> "copy"] @@ [p \in MCPaths |-> p]
MCOn == (Twin :> Doc @@ TwinCopy :> DocCopy) @@ [p \in MCPaths |-> p]
MCFacts == MCReqs \cup {Directory}
MCCopies == (Doc :> {DocCopy, DocCopy2} @@ Twin :> {TwinCopy} @@ Other :> {OtherCopy} @@ Folder :> {FolderCopy} @@ Inner :> {InnerCopy})
MCAbove == (Inner :> {Folder} @@ InnerCopy :> {Folder}) @@ [p \in MCPaths |-> {}]
Symmetry == Permutations(MCReqs)
=============================================================================
