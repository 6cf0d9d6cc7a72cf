------------------------------- MODULE Nsite -------------------------------
(***************************************************************************)
(* nostr/nsite.py: the manifest of a site, from paths to blob hashes, and  *)
(* the mapping of a request to a blob.                                     *)
(*                                                                         *)
(* A path is the sequence of what stands between its slashes: "/" is       *)
(* <<"">>, "/docs/" is <<"docs", "">>, "/a/b.css" is <<"a", "b.css">>.     *)
(* Every path here has its leading slash; the callers see to that.         *)
(***************************************************************************)
EXTENDS Integers, SequencesExt

CONSTANT Dotted     \* the segments with a "." in them, "." and ".." left out

(* The members of a list at these positions, in order. *)
Selected(list, at) ==
    FoldLeftDomain(LAMBDA chosen, i : IF i \in at THEN Append(chosen, list[i]) ELSE chosen,
                   <<>>, list)

(* One step of posixpath.normpath for an absolute path. *)
Collapse(done, segment) ==
    CASE segment \in {"", "."} -> done
      [] segment = ".."        -> IF done = <<>> THEN done ELSE Front(done)
      [] OTHER                 -> Append(done, segment)

(* normpath keeps a leading "//" that is not "///". *)
DoubleSlash(path) ==
    Len(path) >= 2 /\ path[1] = "" /\ (Len(path) = 2 \/ path[2] # "")

normpath(path) ==
    (IF DoubleSlash(path) THEN <<"">> ELSE <<>>) \o FoldLeft(Collapse, <<>>, path)

(* normpath has dropped a final slash, so what decides whether a path is a *)
(* directory is the last segment.                                          *)
normalize_request_path(path) ==
    LET norm == normpath(path)
    IN  IF norm \in {<<>>, <<"">>} THEN <<"index.html">>
        ELSE IF Last(norm) \notin Dotted THEN Append(norm, "index.html")
        ELSE norm

(* Mutant: no fallback to the literal path. *)
resolve_key(paths, path) ==
    LET key == normalize_request_path(path)
    IN  IF key \in DOMAIN paths THEN {paths[key]} ELSE {}

(* The blob of a request, as a set of at most one. *)
resolve_blob(paths, path) ==
    LET key == normalize_request_path(path)
    IN  IF key \in DOMAIN paths THEN {paths[key]}
        ELSE IF path \in DOMAIN paths THEN {paths[path]} ELSE {}

-----------------------------------------------------------------------------
KIND_ROOT     == 15128
KIND_NAMED    == 35128
KIND_LEGACY   == 34128
KIND_LONGFORM == 30023

(* The tags of a manifest; the path tags carry the path and the hash. *)
ManifestTags(paths, identifier, app) ==
    (IF identifier = "" THEN <<>> ELSE << <<"d", identifier>> >>)
    \o (IF app = "" THEN <<>> ELSE << <<"app", app>> >>)
    \o SetToSeq({<<"path", path, paths[path]>> : path \in DOMAIN paths})

ManifestKind(identifier) == IF identifier = "" THEN KIND_ROOT ELSE KIND_NAMED

(* parse_manifest: a later tag of the same path wins. *)
ManifestPaths(e) ==
    LET tagged == {i \in DOMAIN e.tags : e.tags[i][1] = "path"}
        last(path) == CHOOSE i \in tagged :
                        /\ e.tags[i][2] = path
                        /\ \A j \in tagged : e.tags[j][2] = path => j =< i
    IN  [path \in {e.tags[i][2] : i \in tagged} |-> e.tags[last(path)][3]]
=============================================================================
