------------------------------ MODULE Sandbox -------------------------------
(***************************************************************************)
(* sandbox/: how a package process is started confined, on Linux by the    *)
(* helper of landlock.py and on macOS by a profile of seatbelt.py, with    *)
(* the environment of base.py, as observe.py, `_single_run`, asks for it.  *)
(*                                                                         *)
(* The file system is a tree of places; a place stands for the resolved    *)
(* path.  A right is the number of its bit.  The kernel is external: what  *)
(* it rejects and what an installed rule allows.  Any call may fail, and   *)
(* a place may vanish after the configuration was computed.                *)
(*                                                                         *)
(* What carries out the start is not all mcpgap's: the helper is Python    *)
(* code run in the package's directory, which comes first on its module    *)
(* path, and the profile is a file in the run directory until sandbox-exec *)
(* reads it.  Whether something else is there is a choice of the initial   *)
(* state.                                                                  *)
(***************************************************************************)
EXTENDS Integers, Sequences

CONSTANTS
  Places,               \* files and directories, seen as paths
  Above,                \* the places a place lies beneath, itself included
  Dirs,                 \* those that are directories
  Root, Workdir,        \* "/", the run directory
  ReadPaths,            \* node's prefix and the package root, a sequence
  SystemDirs, Devices,  \* _SYSTEM_READ_DIRS, _SYSTEM_DEV_FILES
  NullDevice,
  UserTrees,            \* _USER_DATA_TREES, a sequence
  Config,               \* names that .env.example may declare
  Forbidden             \* those with one of FORBIDDEN_ENV_PREFIXES

ASSUME TreeAssumption ==
  /\ {Root, Workdir, NullDevice} \cup SystemDirs \cup Devices \subseteq Places
  /\ ReadPaths \in Seq(Places) /\ UserTrees \in Seq(Places)
  /\ NullDevice \in Devices
  /\ Above \in [Places -> SUBSET Places]
  /\ \A p \in Places : p \in Above[p] /\ Root \in Above[p]
  /\ \A p \in Places, i \in DOMAIN UserTrees :
       UserTrees[i] \in Above[p] => Above[p] \cap (SystemDirs \cup Devices) = {}

(* observe.py:455 makes the run directory.                                 *)
ASSUME WorkdirAssumption == Workdir \in Dirs

VARIABLES
  platform,             \* sys.platform, and whether its tool is there
  abi,                  \* the kernel's Landlock version, 0 without one
  shadowed,             \* the directory the process starts in holds a
                        \* module under a name the helper imports
  leftovers,            \* processes of earlier hooks still use the run
                        \* directory
  exists,               \* places that exist
  at,                   \* progress of the start
  declared,             \* names that .env.example does declare
  env,                  \* the child's environment: who set each name
  todo,                 \* rules the helper still has to add
  rules,                \* rules of the Landlock ruleset
  ports,                \* ports of the ruleset or of the profile
  restricted,           \* landlock_restrict_self has succeeded
  profile               \* rules of the seatbelt profile, in order

world == <<platform, abi, shadowed, leftovers>>
boxVars == <<world, declared, exists, at, env, todo, rules, ports, restricted, profile>>

-----------------------------------------------------------------------------
(* Rights and what a process does with them.                               *)
ExecuteBit == 0
ReadFile == 2
DirectoryOnly == 3..13
READ_ONLY == {ExecuteBit, ReadFile, 3}
READ_WRITE == 0..15
Operation == {"read", "write", "create", "remove", "truncate"}
RightOf == [read |-> ReadFile, write |-> 1, create |-> 8, remove |-> 5, truncate |-> 14]

_handled_fs(version) ==
  (IF version >= 1 THEN 0..12 ELSE {}) \cup (IF version >= 2 THEN {13} ELSE {})
    \cup (IF version >= 3 THEN {14} ELSE {}) \cup (IF version >= 5 THEN {15} ELSE {})

Each(list) == {list[i] : i \in DOMAIN list}

Rule(path, access) == [path |-> path, access |-> access]

(* Not the code: every right on a file.                                    *)
GrantUnmasked(path, access) == IF path \in exists THEN {Rule(path, access)} ELSE {}

Grant(path, access) ==
  IF path \notin exists THEN {}
  ELSE {Rule(path, IF path \in Dirs THEN access ELSE access \ DirectoryOnly)}

build_config ==
  (UNION {Grant(d, READ_ONLY) : d \in SystemDirs \cup Each(ReadPaths)})
    \cup (UNION {Grant(f, READ_WRITE) : f \in Devices})
    \cup Grant(Workdir, READ_WRITE)

Line(allow, operations, path) == [allow |-> allow, ops |-> operations, path |-> path]
Lines(allow, list) == [i \in DOMAIN list |-> Line(allow, {"read"}, list[i])]

(* Not the code: the users' trees denied after what is allowed back.       *)
DenyLast ==
  <<Line(TRUE, {"read"}, Root), Line(TRUE, {"read"}, Workdir)>> \o Lines(TRUE, ReadPaths)
    \o <<Line(TRUE, Operation \ {"read"}, Workdir), Line(TRUE, {"write"}, NullDevice)>>
    \o Lines(FALSE, UserTrees)

build_profile ==
  <<Line(TRUE, {"read"}, Root)>> \o Lines(FALSE, UserTrees)
    \o <<Line(TRUE, {"read"}, Workdir)>> \o Lines(TRUE, ReadPaths)
    \o <<Line(TRUE, Operation \ {"read"}, Workdir), Line(TRUE, {"write"}, NullDevice)>>

-----------------------------------------------------------------------------
(* The environment: base.py's own, then the package's configuration, then  *)
(* the proxy's and the event log's, each over the ones before.             *)
BaseNames == {"PATH", "HOME", "TMPDIR", "LANG"}
OurNames == {"HTTP_PROXY", "HTTPS_PROXY", "http_proxy", "https_proxy",
             "NODE_EXTRA_CA_CERTS", "NODE_OPTIONS", "MCPGAP_EVENTS"}

(* No name of ours has one of the forbidden prefixes.                      *)
ASSUME NamesAssumption == (BaseNames \cup OurNames) \cap Forbidden = {}

NoEnv == [n \in {} |-> "base"]

build_child_env(names) ==
  [n \in BaseNames \cup names \cup OurNames |->
     CASE n \in OurNames -> "proxy" [] n \in names \ OurNames -> "config" [] OTHER -> "base"]

BoxInit ==
  /\ platform \in {"darwin", "bare darwin", "linux", "other"}
  /\ abi \in IF platform = "linux" THEN 0..7 ELSE {0}
  /\ shadowed \in BOOLEAN /\ leftovers \in BOOLEAN
  /\ declared \in SUBSET Config
  /\ exists \in {Places \ missing : missing \in SUBSET (SystemDirs \cup Devices)}
  /\ at = "asked" /\ env = NoEnv
  /\ todo = {} /\ rules = {} /\ ports = {} /\ restricted = FALSE /\ profile = <<>>

Go(from, to) == at = from /\ at' = to

(* default_sandbox raises SandboxUnavailable: there is no fallback.        *)
available == platform = "darwin" \/ (platform = "linux" /\ abi >= 4)

Unavailable ==
  /\ ~available
  /\ Go("asked", "refused")
  /\ UNCHANGED <<world, declared, exists, env, todo, rules, ports, restricted, profile>>

(* child_env raises ValueError for a name that looks like a credential.    *)
EnvRefused ==
  /\ available /\ declared \cap Forbidden # {}
  /\ Go("asked", "refused")
  /\ UNCHANGED <<world, declared, exists, env, todo, rules, ports, restricted, profile>>

EnvBuilt ==
  /\ available /\ declared \cap Forbidden = {}
  /\ Go("asked", "spawn")
  /\ env' = build_child_env(declared)
  /\ UNCHANGED <<world, declared, exists, todo, rules, ports, restricted, profile>>

(* The port of the proxy is the only one named.                            *)
ProxyPort == "proxy"

ProfileWritten ==
  /\ platform = "darwin"
  /\ Go("spawn", "exec")
  /\ profile' = build_profile
  /\ ports' = {ProxyPort}
  /\ UNCHANGED <<world, declared, exists, env, todo, rules, restricted>>

(* What sandbox-exec reads is what the file holds by then; the two         *)
(* extremes stand for every other profile.                                 *)
OtherProfiles == {<<>>, <<Line(TRUE, Operation, Root)>>}

ProfileReplaced ==
  /\ platform = "darwin" /\ leftovers /\ at = "exec"
  /\ profile' \in OtherProfiles /\ ports' \in SUBSET {ProxyPort, "other"}
  /\ UNCHANGED <<world, declared, exists, at, env, todo, rules, restricted>>

HelperStarted ==
  /\ platform = "linux" /\ ~shadowed
  /\ Go("spawn", "create")
  /\ todo' = build_config
  /\ UNCHANGED <<world, declared, exists, env, rules, ports, restricted, profile>>

(* The helper's first statement runs a module that is not Python's, before *)
(* anything is restricted: it may fail, or be all that runs.               *)
OtherModuleImported ==
  /\ platform = "linux" /\ shadowed
  /\ at = "spawn" /\ at' \in {"running", "died"}
  /\ UNCHANGED <<world, declared, exists, env, todo, rules, ports, restricted, profile>>

(* PR_SET_NO_NEW_PRIVS and the ruleset that handles _handled_fs.           *)
RulesetCreated ==
  /\ Go("create", "rules")
  /\ UNCHANGED <<world, declared, exists, env, todo, rules, ports, restricted, profile>>

(* The kernel wants at least one right, only handled ones, and none on a   *)
(* file that is for directories.                                           *)
Valid(rule) ==
  /\ rule.access # {} /\ rule.access \subseteq _handled_fs(abi)
  /\ rule.path \notin Dirs => rule.access \cap DirectoryOnly = {}

Masked(rule) == Rule(rule.path, rule.access \cap _handled_fs(abi))

RuleAdded(rule) ==
  /\ at = "rules" /\ rule \in todo /\ rule.path \in exists
  /\ todo' = todo \ {rule}
  /\ IF Valid(Masked(rule))
     THEN at' = at /\ rules' = rules \cup {Masked(rule)}
     ELSE at' = "rejected" /\ UNCHANGED rules
  /\ UNCHANGED <<world, declared, exists, env, ports, restricted, profile>>

(* os.open fails on a path that has vanished: not an error.                *)
RuleSkipped(rule) ==
  /\ at = "rules" /\ rule \in todo /\ rule.path \notin exists
  /\ todo' = todo \ {rule}
  /\ UNCHANGED <<world, declared, exists, at, env, rules, ports, restricted, profile>>

PortAdded ==
  /\ Go("rules", "restrict")
  /\ todo = {}
  /\ ports' = {ProxyPort}
  /\ UNCHANGED <<world, declared, exists, env, todo, rules, restricted, profile>>

Restricted ==
  /\ Go("restrict", "exec")
  /\ restricted' = TRUE
  /\ UNCHANGED <<world, declared, exists, env, todo, rules, ports, profile>>

(* Not the code: a call whose failure is ignored.                          *)
FailsOnwards ==
  /\ at \in {"spawn", "create", "rules", "restrict", "exec"}
  /\ at' = IF at = "restrict" THEN "exec" ELSE "died"
  /\ UNCHANGED <<world, declared, exists, env, todo, rules, ports, restricted, profile>>

(* The profile cannot be written, or no process be made, and the call      *)
(* raises; every failing call of the helper ends in die().                 *)
Fails ==
  /\ at \in {"spawn", "create", "rules", "restrict", "exec"}
  /\ at' = "died"
  /\ UNCHANGED <<world, declared, exists, env, todo, rules, ports, restricted, profile>>

Exec ==
  /\ Go("exec", "running")
  /\ UNCHANGED <<world, declared, exists, env, todo, rules, ports, restricted, profile>>

(* Another process removes a place that is to be granted.                  *)
Vanish(p) ==
  /\ at \in {"spawn", "create", "rules"} /\ p \in exists
  /\ exists' = exists \ {p}
  /\ UNCHANGED <<world, declared, at, env, todo, rules, ports, restricted, profile>>

BoxNext ==
  \/ Unavailable \/ EnvRefused \/ EnvBuilt \/ ProfileWritten \/ HelperStarted
  \/ ProfileReplaced \/ OtherModuleImported
  \/ RulesetCreated \/ PortAdded \/ Restricted \/ Fails \/ Exec
  \/ \E rule \in todo : RuleAdded(rule) \/ RuleSkipped(rule)
  \/ \E p \in SystemDirs \cup Devices \cup Each(ReadPaths) \cup {Workdir} : Vanish(p)

BoxSpec == BoxInit /\ [][BoxNext]_boxVars

-----------------------------------------------------------------------------
(* What the kernel lets the process do.                                    *)
LandlockAllows(op, p) ==
  \/ ~restricted \/ RightOf[op] \notin _handled_fs(abi)
  \/ \E rule \in rules : rule.path \in Above[p] /\ RightOf[op] \in rule.access

(* Seatbelt applies the last matching line.                                *)
Matches(line, op, p) == op \in line.ops /\ line.path \in Above[p]
SeatbeltAllows(op, p) ==
  \E i \in DOMAIN profile :
    /\ Matches(profile[i], op, p) /\ profile[i].allow
    /\ \A j \in DOMAIN profile : j > i => ~Matches(profile[j], op, p)

May(op, p) == IF platform = "linux" THEN LandlockAllows(op, p) ELSE SeatbeltAllows(op, p)

Beneath(p, tops) == Above[p] \cap tops # {}
Given == {Workdir} \cup Each(ReadPaths)

(* Nothing but mcpgap's own helper or profile carries out the start.       *)
OwnStart == IF platform = "linux" THEN ~shadowed ELSE ~leftovers

Confined ==
  /\ \A p \in Places, op \in Operation \ {"read"} :
       May(op, p) => Beneath(p, {Workdir} \cup Devices)
  /\ \A p \in Places : Beneath(p, Each(UserTrees)) /\ ~Beneath(p, Given) => ~May("read", p)
  /\ ports = {ProxyPort}

(* base.py:33, landlock.py:248, seatbelt.py:109: whatever failed or        *)
(* vanished on the way, a process that runs has the proxy's variables and  *)
(* no credential-shaped one; and if the helper's modules and the profile   *)
(* are mcpgap's own, it changes nothing outside the run directory and the  *)
(* devices, reads no user's data it was not given, and has the proxy's     *)
(* port alone.                                                             *)
RunningIsConfined ==
  at = "running" =>
    /\ OwnStart => Confined
    /\ \A n \in OurNames : env[n] = "proxy"
    /\ DOMAIN env \cap Forbidden = {}

(* And it can do what it is started for, wherever its directories lie:     *)
(* read and change the run directory, read node and the package; else a    *)
(* run would observe the sandbox and not the package.                      *)
RunningCanWork ==
  at = "running" /\ OwnStart =>
    /\ Workdir \in exists =>
         \A p \in Places, op \in Operation : Beneath(p, {Workdir}) => May(op, p)
    /\ \A d \in Each(ReadPaths) \cap exists, p \in Places : d \in Above[p] => May("read", p)

(* landlock.py:236: no rule the configuration names is one the kernel      *)
(* rejects, so no kind of place aborts the start.                          *)
NothingIsRejected == at # "rejected"
=============================================================================
