------------------------------ MODULE ScanDirs ------------------------------
(***************************************************************************)
(* A run directory that outlives its scan: scan.py, `scan_package_version`,*)
(* and of observe.py what touches the directory, `_stage_package`, the     *)
(* shim's log and the hooks enumerated from the staged copy.               *)
(*                                                                         *)
(* The default work directory lies beside the package root, so scanning    *)
(* again, or scanning a sibling version, uses run-<i> again.  The runs of  *)
(* one scan have a directory each and are alike; this is one of them.  A   *)
(* scan may die at any point.  Lines of the event log are named by the     *)
(* scan during which they were written.                                    *)
(***************************************************************************)
EXTENDS InstallScripts

CONSTANTS
  Roots,                \* package roots that share the work directory
  Packages,             \* what a root may hold: its entries and their kind,
                        \* whether it declares `dependencies`, its scripts,
                        \* and the manifests of its node_modules
  NoRoot,
  MaxScans,             \* bound: scans that use the directory
  MaxLines              \* bound: lines in the event log

Written == "package"      \* written by the package, or through a link of its own
Kinds == {"file", "dir", "link"}
MANIFEST == "package.json"

ASSUME ScanConstants ==
  /\ {NoRoot, Written} \cap Roots = {} /\ NoRoot # Written
  /\ MaxScans \in Nat /\ MaxLines \in Nat

(* Without a package.json there is nothing to scan (observe.py:55).        *)
ASSUME PackageType ==
  \A p \in Packages :
    /\ p.entries \in [DOMAIN p.entries -> Kinds]
    /\ MANIFEST \in DOMAIN p.entries /\ p.entries[MANIFEST] = "file"
    /\ p.dependencies \in BOOLEAN
    /\ p.scripts \in ScriptTable /\ p.found \in Seq(Manifests)

FileNames == UNION {DOMAIN p.entries : p \in Packages}

VARIABLES
  package,              \* the package at each root
  modules,              \* roots that have a node_modules
  staged,               \* what stands under each name of run-<i>/package
  link,                 \* root whose node_modules its node_modules links to
  log,                  \* mcpgap-events.jsonl
  scan, root, at,       \* number, package root and progress of the scan
  todo,                 \* entries of the root still to be copied
  hooks,                \* lifecycle scripts still to run
  cursor,               \* event_cursor
  ran,                  \* lifecycle scripts observed
  hookLines, toolLines, \* scans whose lines the hooks and the tools were given
  fresh                 \* history: the directory was new to this scan

dirVars == <<package, modules, staged, link, log>>
ownVars == <<scan, root, todo, hooks, cursor, ran, hookLines, toolLines, fresh>>
scanVars == <<dirVars, at, ownVars>>

Absent == [kind |-> "absent", of |-> NoRoot]
Entry(kind, of) == [kind |-> kind, of |-> of]
Own(f) == Entry(package[root].entries[f], root)

ScanInit ==
  /\ package \in [Roots -> Packages]
  /\ modules \in SUBSET Roots
  /\ staged = [f \in FileNames |-> Absent]
  /\ link = NoRoot
  /\ log = <<>>
  /\ scan = 0 /\ root = NoRoot /\ at = "idle"
  /\ todo = {} /\ hooks = <<>> /\ cursor = 0
  /\ ran = {} /\ hookLines = {} /\ toolLines = {}
  /\ fresh = TRUE

Go(from, to) == at = from /\ at' = to

(* install_dependencies looks at `dependencies` only; a node_modules that  *)
(* is there already stays.  Then mkdir with exist_ok.                      *)
BeginScan(r) ==
  /\ Go("idle", "stage")
  /\ scan < MaxScans
  /\ scan' = scan + 1 /\ root' = r
  /\ modules' = IF package[r].dependencies THEN modules \cup {r} ELSE modules
  /\ todo' = DOMAIN package[r].entries
  /\ ran' = {} /\ hookLines' = {} /\ toolLines' = {}
  /\ fresh' = (scan = 0)
  /\ UNCHANGED <<package, staged, link, log, hooks, cursor>>

(* Not the code: copying only what is not there yet.                       *)
CopyMissing(f) ==
  /\ at = "stage"
  /\ f \in todo
  /\ todo' = todo \ {f}
  /\ staged' = IF staged[f] = Absent THEN [staged EXCEPT ![f] = Own(f)] ELSE staged
  /\ UNCHANGED <<package, modules, link, log, scan, root, at, hooks, cursor, ran,
                 hookLines, toolLines, fresh>>

(* makedirs over a file raises, and so does symlink over anything.         *)
InTheWay(f) ==
  LET kind == package[root].entries[f]
      there == staged[f].kind
  IN  \/ kind = "dir" /\ there = "file"
      \/ kind = "link" /\ there # "absent"

(* copy2 and copytree over whatever is there; nothing is ever removed.     *)
(* copy2 puts a file INTO a directory of its name, and writes a file       *)
(* through a link of its name, to wherever that points.                    *)
CopyEntry(f) ==
  LET kind == package[root].entries[f]
      there == staged[f].kind
  IN
  /\ at = "stage"
  /\ f \in todo
  /\ ~InTheWay(f)
  /\ \/ there \in {"absent", kind} /\ staged' = [staged EXCEPT ![f] = Own(f)]
     \/ there \notin {"absent", kind} /\ staged' = staged
     \/ /\ there = "link" /\ kind = "file"
        /\ \E g \in FileNames :
             /\ staged[g].kind \in {"absent", "file"}
             /\ staged' = [staged EXCEPT ![g] = Entry("file", Written)]
  /\ todo' = todo \ {f}
  /\ UNCHANGED <<package, modules, link, log, scan, root, at, hooks, cursor, ran,
                 hookLines, toolLines, fresh>>

(* The scripts the manifest of the copy may declare: none if it cannot be  *)
(* read, any if it is the package's own work.                              *)
ScriptsIn(entry) ==
  IF entry.kind = "file" /\ entry.of \in Roots THEN {package[entry.of].scripts}
  ELSE IF entry.kind \in {"file", "link"} THEN {p.scripts : p \in Packages}
  ELSE {[h \in Hook |-> NoCommand]}

(* The manifests found below `target`, if that is there.                   *)
FoundIn(target) ==
  IF target = Written THEN {<<>>} \cup {p.found : p \in Packages}
  ELSE {IF target \in modules THEN package[target].found ELSE <<>>}

(* The trees the hooks may be enumerated from.                             *)
StagedTrees(target) ==
  {[scripts |-> table, found |-> found] :
     table \in ScriptsIn(staged[MANIFEST]), found \in FoundIn(target)}

(* link.exists() follows the link: one whose target is gone does not count *)
(* and is in the way of symlink_to.                                        *)
LinkExists == IF link = Written THEN BOOLEAN ELSE {link \in modules}

(* Then the shim's log is touched and the hooks of the copy enumerated.    *)
LinkModules ==
  \E exists \in LinkExists :
    LET wanted == root \in modules /\ ~exists
        target == IF wanted THEN root ELSE link
    IN
    /\ Go("stage", "hooks")
    /\ todo = {}
    /\ wanted => link = NoRoot
    /\ link' = target
    /\ cursor' = 0
    /\ \E tree \in StagedTrees(target) : hooks' = enumerate_install_scripts(tree)
    /\ UNCHANGED <<package, modules, staged, log, scan, root, todo, ran, hookLines,
                   toolLines, fresh>>

(* Something is in the way of an entry or of the link.                     *)
StagingFails ==
  /\ Go("stage", "idle")
  /\ \/ \E f \in todo : InTheWay(f)
     \/ todo = {} /\ root \in modules /\ link # NoRoot /\ FALSE \in LinkExists
  /\ UNCHANGED <<dirVars, ownVars>>

NewLines == {log[i] : i \in (cursor + 1)..Len(log)}

(* A dependency's hook runs in its directory below node_modules, a root's  *)
(* in the copy itself; the package may have removed either.                *)
FromDependency(script) == script.package # ROOT_LABEL
DirGone(script) == FromDependency(script) /\ link = NoRoot
DirMayBeGone(script) ==
  \/ FromDependency(script) /\ link \notin Roots
  \/ \A f \in FileNames : staged[f] = Absent

(* Passed over without a trace.                                            *)
HookSkipped ==
  /\ at = "hooks" /\ hooks # <<>>
  /\ DirMayBeGone(Head(hooks))
  /\ hooks' = Tail(hooks)
  /\ UNCHANGED <<dirVars, at, scan, root, todo, cursor, ran, hookLines, toolLines, fresh>>

(* The next hook has run and the events since `cursor` are given to it.    *)
HookObserved ==
  /\ at = "hooks" /\ hooks # <<>>
  /\ ~DirGone(Head(hooks))
  /\ hooks' = Tail(hooks)
  /\ ran' = ran \cup {Head(hooks)}
  /\ hookLines' = hookLines \cup NewLines
  /\ cursor' = Len(log)
  /\ UNCHANGED <<dirVars, at, scan, root, todo, toolLines, fresh>>

(* Not the code: tools read on from where the hooks stopped.               *)
NoBaseline ==
  /\ Go("hooks", "tools")
  /\ hooks = <<>>
  /\ UNCHANGED <<dirVars, ownVars>>

Baseline ==
  /\ Go("hooks", "tools")
  /\ hooks = <<>>
  /\ cursor' = Len(log)
  /\ UNCHANGED <<dirVars, scan, root, todo, hooks, ran, hookLines, toolLines, fresh>>

ToolObserved ==
  /\ at = "tools"
  /\ toolLines' = toolLines \cup NewLines
  /\ cursor' = Len(log)
  /\ UNCHANGED <<dirVars, at, scan, root, todo, hooks, ran, hookLines, fresh>>

EndScan == Go("tools", "idle") /\ UNCHANGED <<dirVars, ownVars>>

(* The scan is killed, or raises, at any point.                            *)
ScanDies == at \in {"stage", "hooks"} /\ at' = "idle" /\ UNCHANGED <<dirVars, ownVars>>

(* The package's processes log, write and delete in the directory, also    *)
(* those an earlier scan left behind.                                      *)
PackageLogs ==
  /\ at \in {"hooks", "tools"} \/ scan > 1
  /\ Len(log) < MaxLines
  /\ log' = Append(log, scan)
  /\ UNCHANGED <<package, modules, staged, link, at, ownVars>>

PackageWrites(f) ==
  /\ at \in {"hooks", "tools"} \/ scan > 1
  /\ \E x \in {Absent} \cup {Entry(kind, Written) : kind \in Kinds} :
       staged' = [staged EXCEPT ![f] = x]
  /\ UNCHANGED <<package, modules, link, log, at, ownVars>>

(* The link lies in the copy; what it points to is read-only.              *)
PackageRelinks ==
  /\ at \in {"hooks", "tools"} \/ scan > 1
  /\ link' \in {Written, NoRoot}
  /\ UNCHANGED <<package, modules, staged, log, at, ownVars>>

(* Somebody removes an installed tree between scans.                       *)
ModulesRemoved(r) ==
  /\ at = "idle"
  /\ modules' = modules \ {r}
  /\ UNCHANGED <<package, staged, link, log, at, ownVars>>

ScanNext ==
  \/ \E r \in Roots : BeginScan(r) \/ ModulesRemoved(r)
  \/ \E f \in FileNames : CopyEntry(f) \/ PackageWrites(f)
  \/ LinkModules \/ StagingFails \/ HookSkipped \/ HookObserved
  \/ Baseline \/ ToolObserved \/ EndScan \/ ScanDies
  \/ PackageLogs \/ PackageRelinks

ScanSpec == ScanInit /\ [][ScanNext]_scanVars

-----------------------------------------------------------------------------
(* What npm would install and run at the package root.                     *)
OwnTree == [scripts |-> package[root].scripts,
            found |-> IF root \in modules THEN package[root].found ELSE <<>>]
Observing == at \in {"hooks", "tools"}

(* The package has left its copy and the link as they were staged.         *)
Untouched ==
  /\ \A f \in DOMAIN package[root].entries : staged[f] = Own(f)
  /\ root \in modules => link = root

(* In a directory no scan has used, a run is the version's own: what it    *)
(* holds is of this version or the package's work, it links to the         *)
(* version's own dependencies unless the package changed the link, it is   *)
(* charged with no line of another scan, and it runs no script but those   *)
(* npm runs for the package root; when its tools are called it has run all *)
(* of them, unless the package took away what they run in.  As long as no  *)
(* package occurs twice they are those of declared_scripts(package_root),  *)
(* which the report compares.  It is not about their order.                *)
FreshRunIsOwn ==
  fresh /\ Observing =>
    /\ \A f \in FileNames :
         \/ staged[f] = Absent \/ staged[f].of = Written
         \/ f \in DOMAIN package[root].entries /\ staged[f] = Own(f)
    /\ link \in {IF root \in modules THEN root ELSE NoRoot, NoRoot, Written}
    /\ hookLines \cup toolLines \subseteq {scan}
    /\ ran \subseteq NpmRuns(OwnTree)
    /\ at = "tools" /\ Untouched => ran = NpmRuns(OwnTree)
    /\ at = "tools" /\ Untouched /\ UniqueNames(OwnTree) =>
         LET declared == declared_scripts(OwnTree) IN
         {<<KeyOf(s), s.command>> : s \in ran} = {<<k, declared[k]>> : k \in DOMAIN declared}

(* Also in a directory that other versions and killed scans have used: a   *)
(* file under a name that this version has and that has been staged is     *)
(* never another version's.  A directory, or a link, of another version    *)
(* may still stand there: copy2 leaves both.                               *)
NoStaleOwnFile ==
  at # "idle" =>
    \A f \in DOMAIN package[root].entries \ todo :
      staged[f].kind = "file" => staged[f].of \in {root, Written}

(* Lines an earlier scan left in the log reach a hook at worst: the        *)
(* baseline (observe.py:380) keeps them from every tool.                   *)
ToolsSeeThisScan == at = "tools" => toolLines \subseteq {scan}

(* The orders in which a file system may list the manifests.               *)
Orders(found) == Bijection(DOMAIN found, DOMAIN found)
Listed(found, order) == [i \in DOMAIN found |-> found[order[i]]]

(* installscripts.py:76: "Ordered root-first, then dependencies by name,   *)
(* so the sequence is stable": the order in which the file system lists    *)
(* the packages decides nothing as long as their names differ.             *)
OrderIsStable ==
  at = "hooks" /\ UniqueNames(OwnTree) =>
    \A order \in Orders(OwnTree.found) :
      enumerate_install_scripts(OwnTree) =
        enumerate_install_scripts([OwnTree EXCEPT !.found = Listed(@, order)])

=============================================================================
