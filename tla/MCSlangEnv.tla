----------------------------- MODULE MCSlangEnv -----------------------------
(***************************************************************************)
(* SlangEnv on small instances, and what the repository's comments say of  *)
(* it, stated as properties.                                               *)
(***************************************************************************)
EXTENDS SlangEnv

(* type_vault.h:101: "Can only add types exclusevely to avoid duplicated   *)
(* type names."                                                            *)
NoDuplicateTypes ==
    \A i, j \in 1 .. Len(types) : types[i] = types[j] => i = j
=============================================================================
