---------------------------- MODULE MCScanDirs -----------------------------
(***************************************************************************)
(* Packages for ScanDirs: with and without dependencies, whose manifests   *)
(* are a package's own, a scoped one's, a test fixture's, unreadable, or   *)
(* nameless, and declare hooks in any combination that matters; with a     *)
(* file, a directory, or a directory with a link in it, under one name.    *)
(***************************************************************************)
EXTENDS ScanDirs, TLC

NoScripts == [h \in Hook |-> NoCommand]
All(c) == [h \in Hook |-> c]
Manifest(parent, dir, name, scripts) ==
  [parent |-> parent, dir |-> dir, name |-> name, scripts |-> scripts, readable |-> TRUE]

Bare == [entries |-> (MANIFEST :> "file" @@ "lib/a" :> "dir"), dependencies |-> FALSE,
         scripts |-> NoScripts, found |-> <<>>]
Hooked ==
  [entries |-> (MANIFEST :> "file" @@ "lib/a" :> "file"),
   dependencies |-> TRUE,
   scripts |-> [NoScripts EXCEPT !["prepare"] = "a", !["install"] = Blank],
   found |-> << Manifest("scope", 2, 2, [All("a") EXCEPT !["postinstall"] = NoCommand]),
                Manifest("other", 3, 3, [NoScripts EXCEPT !["install"] = "a"]),
                Manifest("modules", 1, ROOT_LABEL, [NoScripts EXCEPT !["install"] = "b"]) >>]
Rehooked ==
  [entries |-> (MANIFEST :> "file" @@ "lib/a" :> "link"),
   dependencies |-> FALSE,
   scripts |-> [NoScripts EXCEPT !["prepare"] = "c"],
   found |-> << [Manifest("modules", 1, 1, All("a")) EXCEPT !.readable = FALSE],
                Manifest("modules", 4, 4, [NoScripts EXCEPT !["postinstall"] = "b"]) >>]
MCPackages == {Bare, Hooked, Rehooked}
Symmetry == Permutations(Roots)
=============================================================================
