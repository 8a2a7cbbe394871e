--------------------------- MODULE InstallScripts ---------------------------
(***************************************************************************)
(* installscripts.py: which lifecycle hooks of a package tree run, in      *)
(* which order and under which key.                                        *)
(*                                                                         *)
(* A package tree is its root's `scripts`, and the package.json files that *)
(* rglob finds below node_modules in the order of the file system.  Names  *)
(* of packages are numbers, compared as Python compares strings.           *)
(***************************************************************************)
EXTENDS Integers, Sequences, SequencesExt

ROOT_HOOKS == <<"preinstall", "install", "postinstall", "prepare">>
DEPENDENCY_HOOKS == <<"preinstall", "install", "postinstall">>
Hook == ToSet(ROOT_HOOKS)

(* Position of a hook's name in the alphabet.                              *)
Alphabetical == [install |-> 1, postinstall |-> 2, preinstall |-> 3, prepare |-> 4]

ROOT_LABEL == 0                          \* "<root>", no package's name

(* A command is a string; none declared, or nothing but blanks, is no hook.*)
NoCommand == "none"
Blank == "blank"
Runs(scripts, hook) == scripts[hook] \notin {NoCommand, Blank}

Script(package, hook, command) ==
  [package |-> package, hook |-> hook, command |-> command]
KeyOf(script) == <<script.package, script.hook>>

Commands == STRING \cup {NoCommand}
ScriptTable == [Hook -> Commands]

(* A manifest lies in `parent`, which is "modules" (node_modules), "scope" *)
(* (@scope) or "other"; it may be unreadable; its name may be missing.     *)
Manifests ==
  [parent : {"modules", "scope", "other"}, dir : Nat \ {ROOT_LABEL}, name : Nat,
   scripts : ScriptTable, readable : BOOLEAN]

Read(manifest) ==
  manifest.parent \in {"modules", "scope"} /\ manifest.readable
Name(manifest) == IF manifest.name = ROOT_LABEL THEN manifest.dir ELSE manifest.name

Declared(package, scripts, hooks) ==
  FlattenSeq([i \in DOMAIN hooks |->
                IF Runs(scripts, hooks[i])
                THEN << Script(package, hooks[i], scripts[hooks[i]]) >> ELSE <<>>])

Before(s, t) ==
  \/ s.package < t.package
  \/ s.package = t.package /\ Alphabetical[s.hook] < Alphabetical[t.hook]

(* Not the code: in the order they were found.                             *)
ScriptsAsFound(found) == found

(* How many scripts sorted() puts before found[i]: equal keys stay in the   *)
(* order they were found.                                                  *)
Position(found, i) ==
  Cardinality({j \in DOMAIN found : \/ Before(found[j], found[i])
                                    \/ ~Before(found[i], found[j]) /\ j < i})

SortedScripts(found) ==
  [k \in DOMAIN found |-> found[CHOOSE i \in DOMAIN found : Position(found, i) = k - 1]]

(* Not the code: one list of hooks for root and dependencies.              *)
OneHookList(manifest) ==
  IF Read(manifest) THEN Declared(Name(manifest), manifest.scripts, ROOT_HOOKS) ELSE <<>>

DependencyScripts(manifest) ==
  IF Read(manifest) THEN Declared(Name(manifest), manifest.scripts, DEPENDENCY_HOOKS)
  ELSE <<>>

enumerate_install_scripts(tree) ==
  Declared(ROOT_LABEL, tree.scripts, ROOT_HOOKS)
    \o SortedScripts(FlattenSeq([i \in DOMAIN tree.found |-> DependencyScripts(tree.found[i])]))

(* A dict comprehension: of two hooks with one key the later one is kept.  *)
declared_scripts(tree) ==
  LET all == enumerate_install_scripts(tree) IN
  [key \in {KeyOf(all[i]) : i \in DOMAIN all} |->
     all[Max({i \in DOMAIN all : KeyOf(all[i]) = key})].command]

-----------------------------------------------------------------------------
(* Reference: what npm runs for a tree, as a set, whatever the order.      *)
NpmRuns(tree) ==
  {Script(ROOT_LABEL, h, tree.scripts[h]) : h \in {g \in Hook : Runs(tree.scripts, g)}}
  \cup UNION {{Script(Name(m), h, m.scripts[h]) :
                 h \in {g \in Hook \ {"prepare"} : Runs(m.scripts, g)}} :
              m \in {n \in ToSet(tree.found) : Read(n)}}

UniqueNames(tree) ==
  \A i, j \in DOMAIN tree.found :
    Read(tree.found[i]) /\ Read(tree.found[j]) /\ Name(tree.found[i]) = Name(tree.found[j])
      => i = j
=============================================================================
