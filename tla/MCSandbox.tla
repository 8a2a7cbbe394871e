----------------------------- MODULE MCSandbox ------------------------------
(***************************************************************************)
(* A tree for Sandbox in which the run directory and the package lie below *)
(* a user's tree, next to data of the user.                                *)
(***************************************************************************)
EXTENDS Sandbox

MCAbove == [ p \in {"/", "/usr", "/usr/lib", "null", "tty", "/Users", "secret", "package",
                    "package.json", "work", "log"} |->
  CASE p = "/" -> {"/"}
    [] p = "/usr/lib" -> {"/", "/usr", "/usr/lib"}
    [] p \in {"secret", "package", "work"} -> {"/", "/Users", p}
    [] p = "package.json" -> {"/", "/Users", "package", p}
    [] p = "log" -> {"/", "/Users", "work", p}
    [] OTHER -> {"/", p} ]
MCPlaces == DOMAIN MCAbove
MCReadPaths == <<"/usr", "package">>
MCUserTrees == <<"/Users">>
=============================================================================
