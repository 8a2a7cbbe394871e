# A TLA+ verification development for mcpgap

mcpgap installs a version of an MCP server package, runs it in a sandbox behind a
recording proxy, watches what each install hook and each tool call does, repeats that,
and compares two versions. Its reports are only as good as its bookkeeping: which
request, event or file change belongs to which activity, whether runs agree, what a
verdict rests on. This directory models that bookkeeping, checks it with TLC on small
instances and proves its most important guarantees with TLAPS for all instances. Line
numbers are those of `src/mcpgap/` (`src/src/mcpgap/` in `PROJECT.json`).

## 1. Inventory

| component | state it keeps | operations | hard behaviour | what makes it correct |
|---|---|---|---|---|
| Recording proxy, `proxy/sealed.py` | `_requests`, `_active`, `_stop`, the listening socket | `_serve`, `_handle`, `_respond`, `wait_idle`, `close` | one thread per connection, an acceptor, a polling caller; exceptions on every path | counter exact; recorded before answered; a quiet answer is sound for what is counted; every connection is served while the acceptor lives |
| One run, `observe.py` `_single_run`, `_run_install_scripts` | `before`, `event_cursor`, `fs_before`, observations | hooks, startup, baseline, tool calls with a retry, slicing of three logs | package processes act at any time; timeouts; a required-only retry | windows disjoint; awaited work charged to its author; nothing observed is lost but to a hook of the same key; the run ends |
| MCP client, `mcpclient.py` | `_next_id`, pipes, drain thread | `request`, `notify`, `initialize`, `list_tools`, `call_tool`, `close` | foreign server: late, repeated, missing replies, exits, floods, processes left with its pipes | a reply belongs to its request; no tools without a handshake; it finishes |
| Folding, `observe.py` `observe_version` | results of the runs | agreement key, fold | runs that list or see different things | a conclusion needs agreement of all runs |
| Diff, `diff.py`, `model.py` | none between calls | matching, attribution, side effects, verdicts | order and multiplicity of requests | consistent means nothing new; findings are reproducible |
| Event log, `observers/events.py`, `shim.cjs` | append-only file in the run directory | append, read from a line | written by several processes | part of the run |
| Snapshots, `observers/filesystem.py` | none | hash a tree, compare | concurrent writers | part of the run |
| Certificate authority, `proxy/ca.py` | `_leaves`, two files per host name | `leaf_for`, then `load_cert_chain` | called by handlers without a lock; every call truncates and rewrites both files, and may fail; the directory may be an earlier run's | what is served is of this run's authority; only a failure of the handler's own or a writer of the same files can cost a request |
| Scan and its directories, `scan.py`, `_stage_package` | the work directory, shared by scans | stage, link, enumerate, observe, again | leftovers of an earlier, killed or sibling scan; a package that changes the copy it runs in | a new directory shows one package only; tools never see an earlier scan's events |
| Request parsing, `_parse_request`, `_dechunk` | bytes read so far | `recv` until the end looks reached | segmentation, false ends, limits, timeouts | the recorded body is a beginning of the one sent, and all of it unless it was cut, lies about its length or holds a false end |
| Install script enumeration, `installscripts.py` | none | find, filter, key, sort | file system order, copies of one package, nested manifests | equal to what npm runs |
| Probe arguments, `probes.py` | none | arguments from a schema, required-only retry, tokens | JSON schema recursion | a token names one argument; an echo is attributed exactly if it carries one |
| Sandbox backends, `sandbox/` | a ruleset being built, a profile | environment, configuration, the helper's calls, `exec` | every call may fail, paths vanish, kernels differ, line order matters, helper and profile lie within the package's reach | what our own helper or profile starts is confined, and can work |
| Canned responses, header normalisation, CLI, fixtures, corpus builder | none | | | not modelled |

The run calls everything else: it opens the proxy, hands its address to the package in
the environment, calls `wait_idle` before it reads, reads the shim's log and the run
directory, and talks to the server through the client. The package shares with it the
proxy (through sockets), the log file and the directory. Folding and diffing come after
all runs and share nothing with them but their results.

## 2. Modules

| module | models | composes |
|---|---|---|
| `RequestLog` | what the proxy promises: an abstract append-only log | |
| `SealedProxy` | `proxy/sealed.py` | refines `RequestLog` |
| `RunObservation` | `_single_run` and `_run_install_scripts` | extends `SealedProxy` |
| `McpClient` | `mcpclient.py` against an arbitrary server | |
| `VersionDiff` | the loop and fold of `observe_version`, `scan.py`, `diff.py` | |
| `LeafCerts` | `leaf_for` and `_handle_connect` | |
| `InstallScripts` | `installscripts.py`, with a reference of what npm runs | |
| `ScanDirs` | a run directory across scans: `scan.py`, `_stage_package`, the log | extends `InstallScripts` |
| `HttpRequest` | `_parse_request`, `_dechunk` | |
| `Probes` | `probes.py`, the retry, `_tokens_from` and `attribute` | |
| `Sandbox` | `sandbox/base.py`, `landlock.py`, `seatbelt.py` | |
| `SealedProxyProofs`, `RunObservationProofs`, `McpClientProofs`, `VersionDiffProofs`, `ScanDirsProofs` | theorems about the module of that name | |
| `ProxyPartsProofs` | theorems about `LeafCerts` and `HttpRequest` | |
| `PackagePartsProofs` | theorems about `Sandbox` and `Probes` | |
| `SequenceFacts` | lemmas about naturals, sequences and loops that those proofs share | |
| `MC...` | instances for TLC; `MCParts` runs `HttpRequest`, `Probes` and `Sandbox` in one | |

Definitions whose comment begins "Not the code" are variants of the definition below
them with a plausible mistake. No specification uses them; they are the mutants of
`PROJECT.json`, and TLC finds the named property violated when one takes the place of
the real definition.

**SealedProxy.** `phase[c]` is where a connection is: queued by the kernel, accepted (the
handler thread exists but has not run), parsing, in a TLS tunnel, recorded, leaving
(answer written, or given up), gone. `requests`, `active`, `stop` are the attributes of
the same names; `waitPc`, `lastCount`, `stable` are `wait_idle`'s position and locals.
Each action is one critical section or one blocking call: `Count` and `Leave` are the two
locked updates of `_active`, `Record` is parsing plus `_record`, `Abandon` every early
return and exception, `PollBusy/PollSettling/PollSettled` the branches of one turn of
the polling loop. The settle interval and the deadline may elapse at any poll, so no
property depends on their length. `AcceptFails` is any error of `accept()`, after which the thread
is gone for good.

**RunObservation.** The steps of a run are numbered: hooks, startup, tools. A log is
abstracted to its sequence of causes and an observation to three half-open windows
`(lo, hi]` of log positions, which is what the slices `requests[before:]`,
`lines[cursor:]` and the comparison of two snapshots are. Package processes
append for any cause that has begun (background work). `Foreground` says that the
run is still waiting for that cause; `prompt` and `awaited` are histories of it. `HookTimesOut`
kills the shell only; `HookReaped` is the second `communicate()`. Hooks are numbered, and
`KeyOf` is `InstallScript.key`: `SliceRequests` stores under the key, so it takes away what an
earlier hook of the same key had there. The run's exceptions
(`RunBreaks`) lead to the `finally` clause.

**McpClient.** `stage` is the caller's place in the exchange, `pc` the place in `request`.
A line is its kind and id. The server is any program: `ServerAnswers` in any order,
`ServerChatters` repeats, asks, notifies, prints noise or JSON scalars, and it may exit
or close stdout at any time. `held` says that a process it started has its pipes too: `readline()`
sees the end only when nobody has (`ReadEof`). The calls of `call_tool` stand for first calls and retries
alike.

**VersionDiff.** The loops over names treat each name by itself, so the state is that of
one arbitrary name, of kind tool or hook: what each run saw of it (`results`), what the fold keeps
(`folded`), and its row (`report`). Sets `{}`/`{x}` stand for None/x. `EqualValues` is Python's `==`,
which takes 1 and true for the same. A scan that raises
(a failed handshake) takes no further step. `MatchRequests` states pairing by
rank; `MatchOne`/`MatchLoop` is the loop as written, and `LoopMatchesByRank` says that the
two are the same.

**LeafCerts.** `at[h]` is the place of handler `h` in `_handle_connect`; each read or
write of the dict or of a file is a step, and `write_bytes` is two, because `open()`
truncates. Any of them may raise (`StepFails`), after which the handler is `failed`; `dropped` is what a chain
that does not load or is not trusted leads to. A pair of files is named by the handler that minted it, so that a mixed pair is visible.
`disturbed` is a history: who was using a file when another handler changed it.

**ScanDirs.** One run directory across scans of several package roots. `staged` says what stands under each
name of the copy, a file, a directory or a link, and from which root it came or whether the
package wrote it; `link` where `node_modules` points; `log` names each line by the scan during which it
was written. `CopyEntry` is `copytree` and `copy2` over what is there: a file goes into a directory
of its name and through a link of its name, and what cannot be overwritten raises (`StagingFails`). The
hooks are those of the staged manifest and of whatever the link points to, a hook whose
directory is gone is passed over (`HookSkipped`), and the package may write, delete and change the link whenever it runs
(`PackageWrites`, `PackageRelinks`). A scan may die anywhere; processes of dead scans go on
writing. `InstallScripts` is the pure part: `enumerate_install_scripts` over a tree
of manifests whose order is that of the file system; `NpmRuns` is the reference, written
from npm's rules and not from the code.

**HttpRequest.** The stream is a sequence of units (`nl` is a CRLF) and `Receive` takes any
number of them, so a run of it is a segmentation. The sizes (`MaxHeader`,
`MaxBody`) count units. `Units` is what a stream may consist of, `Sizes` what
`int(_, 16)` makes of a unit that is a size line, and `ZeroAtEnd` the units that end in
the character 0. A chunked request carries the parts its client sends (`chunks`, each
encoded by `Chunk`) and the header lines after the last of them (`trailer`).
`NextChunk` is one turn of the loop of `_dechunk`, which is the recursive function that
takes as many turns as the data has units; turns after the loop's end change nothing.

**Probes.** A nonce is the text it is the digest of. A value is the set of its leaves, each
with its place (the keys that lead to it) and its words. `Schemas` are any schemas, closed
under the schemas inside of them, and `Depth` says how deep each nests; `value_for` is a
recursive function over what may be asked for (`Asked`), and `Makes` its body. `Chunks` is
the splitting of `_tokens_from`.

**Sandbox.** One start of a process: the environment, then either the profile of seatbelt
or the helper's calls one by one. What carries out the start may be another's: on Linux the helper is run in
the package's directory, which comes first on Python's module path (`shadowed`, `OtherModuleImported`); on macOS the profile is a file of
the run directory until `sandbox-exec` reads it, and earlier hooks may have left processes there
(`leftovers`, `ProfileReplaced`). The kernels are external operators: `Valid` is what
Landlock accepts, `LandlockAllows` and `SeatbeltAllows` are what the rules permit. The
tree of places is a constant, so the run directory can lie under a user's
home, as it usually does.

## 3. Runs

| run | instance | states | shows |
|---|---|---|---|
| `SealedProxy` | 3 connections | 182 thousand | `ActiveCounts`, `QuietIsIdle`, refinement of `RequestLog`, `QueuedIsServed` |
| `RunLogs` | 3 hooks with 2 keys, 2 tools, 1 effect | 606 thousand | `WindowsInOrder`, `PromptEffectsExact`, `RunEnds` |
| `RunRequests` | 2 tools, 2 connections | 2.9 million | `WindowsInOrder`, `AwaitedRequestsExact` |
| `McpHonest` | 3 versions, 1 call | 764 thousand | `RepliesMatch`, `ToolsAreLearned`, `HandshakeErrorJustified`, `ClientFinishes` |
| `VersionDiff` | 2 runs, 17 observations and absence | 642 thousand | all properties of the fold and the diff |
| `ScanDirs` | 2 roots, 3 packages, 2 scans, 1 log line | 1.7 million | `FreshRunIsOwn`, `NoStaleOwnFile`, `ToolsSeeThisScan`, `OrderIsStable` |
| `LeafCerts` | 3 handlers, 3 hosts, 2 file names | 3.0 million | `LoadedIsCurrent`, `UndisturbedIsServed` |
| `Parts` | 15 streams; 2721 tools, schemas that nest two deep; a tree of 11 places, 8 kernels | 274 thousand | the properties of `HttpRequest`, `Probes` and `Sandbox` |
| `RunHookTimeout` | 1 hook | | violated: a hook's timeout does not bound it |
| `McpAsking` | 1 version, ids shared | | violated: a server's request is taken for a reply |
| `DiffFold` | as `VersionDiff` | | violated: names only later runs list vanish |
| `DiffOrder` | as `VersionDiff` | | violated: the order of recording decides the verdict |

Each violated property quotes the sentence of the code or the docs that promises it;
`findings` in `PROJECT.json` says what the code does instead.

**Bounds.** Three connections are one more than needed for two handlers to overlap while
the poller samples and a third arrives. `RunLogs` has three hooks because the second
inherits the cursor of the first and the third has the key of the first, with one in between that must not be touched; two tools because the tool loop carries snapshots over; one
effect suffices because each property is about a single log entry and the windows around
it. `RunRequests` needs two connections so that one can be slow while the other is
answered, and two tools so that a late one has a wrong window to fall into. `LogLines`
exceeds `PipeCap` in `McpHonest` so that the stderr pipe does fill up; `MaxExtra = 2` lets an old reply be
repeated twice. `MaxEffects`, `MaxExtra`, `MaxUnread` are the only bounds in guards.
`VersionDiff` has two runs, the fewest that can disagree, and observations
with a number and the truth value that equals it, and with every kind of body: the caller's, the config's, the package's, not JSON, differing
in a header only, twice the same, two in both orders. In `LeafCerts` two host names share a
file name and one does not, and with three handlers two can fight over the files a third is
loading. `ScanDirs` has two scans, so that one, of the same root or the other, finished or killed,
precedes the one that is observed, and each of the packages has a name that is of another kind in another package; one log
line, because each property is about single lines. A third scan adds nothing the theorems
do not say for any number of them. `MaxScans` and `MaxLines` are in guards. The streams
of `HttpRequest` include each framing, each malformed head, a body over the limit, a body with
too little and too much, a chunk size that ends in 0, data that looks like the last
chunk, and trailers. The schemas of `Probes` are those of each type and form, bare, in a list, and
two of them in an object, one of these in a list, so that paths have joints of both kinds;
one key looks like a path, and one tool has the name that configuration values go by. The kernels of `Sandbox` are Landlock 0 to 7; its tree has a file
and a directory of each kind that is granted. `Parts` moves one of its three systems per
behaviour, so it explores the sum of their states. Symmetry is used for connections in `RunRequests`, for handlers in
`LeafCerts` and for roots in `ScanDirs`, which check invariants only. Deadlock checking is off because every one of these systems ends.

**Fairness.** `FairProxySpec`: the acceptor, each handler and the poller run (they are OS
threads), except that nothing makes a handler that is reading come to an end: the 30 s timeout is one of each
`recv`, so a peer that sends a little now and then keeps it there (`Reading`, which `OwnStep` excludes). `QueuedIsServed` excepts
that handler and no other. `FairRunSpec`: the run's thread and the poll
loop go on; that contains the assumption that the server answers or dies and lets go of its output, because the client
has no timeout. `FairPipesSpec` adds that processes which inherited a hook's pipes
let go of them in the end, which `RunHookTimeout` shows to be necessary. `FairMcpSpec`: the client and the drain thread run, and
the server reads, logs and answers unless it exits or closes stdout. That a process left by the server lets go of the
pipes is not assumed: `ClientFinishes` says that the client ends or the pipes are held for ever. The modules `LeafCerts`,
`ScanDirs` and those of `Parts` state safety only and assume no fairness. No fairness is put on anything the package does by choice.

## 4. Proofs

The theorems hold for any finite set of connections, any number of hooks, tools,
effects, runs, protocol versions and calls, any requests and observations, any handlers,
hosts and file names, any packages, roots and scans, any stream, segmentation and size lines, any
tree of places, any tools and schemas, however deep they nest. Assumptions are the named ASSUMEs, which TLC evaluates on each run:

* `KeyAssumption`: each hook has a key, named by some hook.
* `ConnsFinite`, `RunBounds`, `DiffBounds`, `McpBounds`, `LeafConstants`, `ScanConstants`, `HttpBounds`:
  numbers are numbers, some sets are finite, some values differ.
* `TreeAssumption`, `NamesAssumption`, `WorkdirAssumption`: places form a tree with a root, names of the
  environment do not clash, the run directory is a directory.
* `PackageType`: what a package consists of, a `package.json` among it (without one there is nothing to scan), its manifests being in one of the orders the
  file system may list them in.
* `SizesAssumption`: "0" is a size line of zero and a line break is none.
* `TextAssumption`, `SchemasAssumption`, `ToolsAssumption`: keys are texts, and so are the joints of a path; a schema is
  finite, so one inside of another nests less deep, `MaxDepth` being any number; a tool's parameters have schemas.
* `ClientsAssumption`: a client ends its header section and chunks a body as HTTP has it. What it
  says about the length of a body is its own affair, and it may go away at any moment.

Three theorems of `McpClientProofs` assume in addition, in their statements, that the server's own
requests do not use the client's ids: `McpAsking` is the counterexample without it.
The other two hold against any server.

* `SealedProxyProofs`. `ProxyTypeOK` says `active` is a natural number; that is inductive
  only with `ActiveCounts`, since `Leave` needs a handler to be counted before it
  subtracts; both are proved together. `QuietIsSound` needs `StableSince`: while
  `stable` holds, `stableCount` equals `lastCount`. `ProxyImplementsLog` rests on
  `LogInv`: a connection is in the log exactly once, and only in a phase after
  `Record`; each step then maps to `Submit`, `Keep`, `Answer`, `Drop` or a stutter.
* `RunObservationProofs`. `RunUsesProxy` shows that every step of a run is a step of the
  proxy or leaves it alone, so the proxy's theorems carry over. `WindowsNeverOverlap` rests on
  an invariant of five parts: observations exist only for steps passed (`StepInv`), every recorded window ends at
  or before the mark of its channel (`RequestInv`, `EventInv`, `ChangeInv`), and the marks never
  pass the ends of the logs (`MarkInv`), which only grow (`LogsGrow`).
  The second half of the module proves that windows are not only disjoint but right.
  `EventsFit` and `ChangesFit` place every effect made while its activity was waited for: at or
  before the mark, in its own activity's window and no other, except past the mark exactly while
  that activity is the current one and its log unread. `RequestsFit` does so for requests, in two
  halves that need different reasons: what the current attempt asked lies past the mark because
  nothing has begun when the mark is taken (`StartedInv`, which is where the second mark of a
  retry matters), and an answer that was awaited belongs to a request already in the log
  (`LogInv` of the proxy, carried over by `RunUsesProxy`). That nothing observed is lost is `ReportedInv`:
a step that is behind the run is `Reported`, and `SliceReports` shows that the only observation a
store takes away is that of an earlier hook of the same key.
* `McpClientProofs`. `BaseInv` holds against any server: `CountInv` counts the ids taken by
  version retries, the list and the calls, which is what `McpTypeOK` needs. So does `RefusedInv`:
  unless the server is gone, the errors taken are as many as the versions tried before this one,
  each under an id of its own; a handshake error rests on it (`FailedHandshakes`).
  `RepliesAreOurs` needs that ids are fresh: `SentInv` says that all
  requests ever written, read by the server or not, have ids below `nextId` and no two
  share one, `SaidInv` that each printed reply answers a request the server has read.
  `LearnedInv` carries the handshake's replies on to the calls.
* `VersionDiffProofs`. `DiffInvariant`: the row is a function of the two folds and each
  fold of its runs. `ComparedRuns` draws from it that a concluded row was made from
  first runs with which all others agree; `SameKeySameContent` turns equal keys into
  equal content by counting; `QuietPairAddsNothing` looks into one matched pair.
  Together they give the three theorems about verdicts and findings. `LoopPairsByRank` goes
  over the turns of the matching loop: what is left after k of them are the old requests
  that no earlier rank has used, in their order, so the first with the
  destination is the one of the next rank. `RepeatsAreFindings` injects the telling
  requests of the new run into the old requests of their destination, by rank.
* `ScanDirsProofs`. `ScanInductive` strengthens the three properties of the run directory with who
  may have left a file, a link or a line: as long as a directory is `fresh`, only this
  scan and this package; in any case no name still to be copied matters, and no line of
  an older scan is past the cursor once the baseline was taken. While hooks run, `HooksInv` says that
  in a fresh directory those run and those still to be run are together the ones npm runs, as long as the package has left
  the copy and the link alone; they were enumerated from a copy that `StageInv` shows to be the version's own. `OrderNeverMatters` is about
  the pure part: with different names the position of a hook in the sorted list is its rank
  among the hooks, which is the same for every order of the manifests, so two orders give the same list.
* `ProxyPartsProofs`, the leaves. `PairInv`: whoever is past the dict holds a pair minted for its host;
  `FreshInv`: once a handler of this run has opened a file nothing of an earlier run is
  in it, and what was loaded is of this run and this file; `OwnInv`: a handler that nobody disturbed finds what it wrote.
  A step that fails (`StepFails`) takes only its own handler out and leaves the files as they are, so all of this holds across failures.
* `ProxyPartsProofs`, the request. `HttpInv`: what is parsed is what `_dechunk`, or nothing, makes of the
  first n units of the body, and unless the client cut it short the code had a reason to stop at n.
  `DechunkChunks` proves that decoding undoes the client's chunking, whatever the parts and
  whatever follows the last chunk: after k turns the loop stands behind the encoding of the first k parts.
  `DechunkCut` proves that decoding a beginning of a text gives a beginning of its
  decoding, wherever the cut falls, in a size line, in the data or between the two:
  both loops take the same turns until one meets the end (`BehindStep`). With
  `GotFacts` (the header section ends at the same place however much has arrived) they give the three theorems.
* `PackagePartsProofs`, the sandbox. `EnvInv`: past the start the backend was available and the environment is
  the one built from allowed names. `HelperInv`: every rule, to be added or added, is a
  `GoodRule` (changes only below the run directory and the devices, no directory right
  on a file), and at `exec` the process is restricted or has the profile, if
  the start is mcpgap's own (`OwnStart`). `RunningConfined` then reads
  off that every operation's right is handled by the kernels that are accepted (`Handled`), and that after the first line of the profile
  each line that allows is about what was given (`ProfileLines`, `ProfileConfines`).
  `RunningIsAble` is the other direction: every path that still exists when the helper
  reaches it got its rule, or has vanished, and in the profile no line that denies
  stands after the lines for the run directory and the package.
* `PackagePartsProofs`, the arguments. `ProbesAreDefined` comes first: a definition by recursion means
  what it says only if some function satisfies it. It is built in turns, each making every
  value from those of the turn before; what nests n deep is settled after n + 1 turns
  (`TurnsSettle`), so the last turn changes nothing. `ValuesSpeak` then goes by
  induction over the depth (`DepthInduction`): the tokens of a value are of its tool and of paths that begin with
  its own, every text that says something has a token between separators, and two texts that share a
  token are one. The last needs the one before: members of an object under k and m have
  paths that begin with path.k and path.m, and when neither key looks like a path, the
  unit after the dot decides which of them it was (`BeginsBelow`). `EchoesAreSettled` rests on
  `TokensAreTaken` and `TakenTokens`: splitting gives exactly the tokens that stand alone, and
  configuration tokens differ from a tool's unless the tool is named `__config__`.

Induction over loops and lists, which several of these proofs need, is not taken from a library:
`SequenceFacts` derives it in a form without operator parameters (`LeastNatural`,
`SetInduction`, `FromZeroInduction`: a set of naturals that has 0 and with k also k + 1
has them all) and, from it, that a loop written as a recursive function
is defined and runs as its equation says (`LoopRuns`), and what `FlattenSeq` returns (`FlattenPrefixes`, `FlattenDistinct`).

Only model-checked: liveness (`QueuedIsServed`, `RunEnds`, `ClientFinishes`), which
TLAPS does not do. Every other property of a passing run is stated by a theorem.

## 5. Not modelled, and known limits

Not modelled: TLS itself (a handshake succeeds or not), npm, path rewriting, the header rules of `normalize.py`
(two stateless filters), the canned answers (a table), the encodings in which a
token is looked for (base64, hex, case), the sets in the report's summary, reports' wording, `clear()` of the proxy (no
caller), torn lines of the event log. A snapshot is taken atomically: a file
written while the tree is being hashed is on one side or the other. The kernel's accept order is arbitrary
and the backlog of 64 is never reached.

In four places where the code does other than its documentation says, a run shows it and
`findings` quotes the sentence (section 3). In the following places it does so too, and the models contain the case;
no run is spent on it, but the property next to it says what holds in spite of it:

* `sealed.py:139`, `147`: `wait_idle` waits until "no new one has arrived", yet it cannot see a
  connection whose handler has not counted itself, and both callers drop the result that is to mark an
  incomplete observation. `QuietIsIdle` speaks of counted handlers and `AwaitedRequestsExact` of awaited
  requests for that reason.
* `sealed.py:104`: the proxy "answers them all", yet any error of `accept()` ends the acceptor
  (`AcceptFails`). `QueuedIsServed` holds until then.
* `sealed.py:197`: "what the package tried to send is recorded before we get here", yet a connection that
  fails before its inner request is read leaves nothing in the log. `UndisturbedIsServed` says which
  connections cannot fail because of others.
* `observe.py:8`: hooks run "exactly as npm would order them", yet a dependency's `install` runs before its
  `preinstall`. `FreshRunIsOwn` compares the sets of hooks, not their order.
* `observe.py:145`, `174`: "a fresh copy per run", yet in a reused directory files, directories, the
  `node_modules` link and log lines survive. `FreshRunIsOwn` needs a new directory;
  `NoStaleOwnFile` and `ToolsSeeThisScan` say what can be relied on in an old one.
* `observe.py:253`: each hook is executed and recorded, yet hooks of two copies of one package share a key (307), and the
  last one's observation is what is kept. `PromptEffectsExact` says that nothing else is lost.
* `probes.py:3`: "every value we supply carries a nonce", yet numbers, booleans and values of an enum carry none;
  `EchoesAreAttributed` says what becomes of each kind.
* `landlock.py:20`, `seatbelt.py:7`: what is started runs restricted, yet the helper's modules and the profile's file
  lie where the package may write (`OtherModuleImported`, `ProfileReplaced`). `RunningIsConfined` and
  `RunningCanWork` are about starts to which neither happens (`OwnStart`).

Limits that no sentence of the code denies, and no property forbids:

* `events.py:4`: what a tool does in the background after it was answered is charged to
  whichever activity is being observed then. `PromptEffectsExact` is about foreground effects.
* A hook whose directory an earlier hook removed is passed over without a trace (`observe.py:269`).
* A body that is over the limit, has a false length, or holds what looks like its end at the border
  of two segments is recorded as far as the segments happened to bring it; `BodyIsABeginning` says it is a
  beginning and no more. A request with trailers is not seen to be complete.
* A `.env.example` that names `HOME` or `PATH` replaces the sandbox's own value, and one with a
  credential prefix makes the scan raise `ValueError`; `RunningIsConfined` protects the proxy's variables.
* `mcpclient.py:93`: there is no timeout on a server that neither answers nor exits, nor on a process
  that keeps a dead server's stdout open.
* `scan.py:22`: the `env` parameter joins the configuration that attribution goes by after the runs and never
  reaches the package; `EchoesAreAttributed` speaks of `declared_config` only.

Left out of the models where it makes no difference to the properties: the package as a writer of the leaf
files (`LeafCerts`); sandbox-exec reading a profile that is half written.

## 6. Plan

The plan of the project, in order of importance. All of it is done.

1. `RequestLog`, `SealedProxy`: threads and refinement.
2. `RunObservation`: the run on top of the proxy.
3. `McpClient`: the exchange with the server.
4. `VersionDiff`: fold and diff.
5. Proofs of types, of the counter, the refinement, the windows, the verdicts.
6. `LeafCerts`: handlers in `leaf_for` for one host, the pair of files, what `load_cert_chain` reads.
7. `ScanDirs`: run directories kept between scans and versions.
8. Pure algorithms and the sandbox: `HttpRequest`, `InstallScripts`, `Probes`, `Sandbox`.
9. Proofs of the client, of the leaves and of the sandbox; of `PromptEffectsExact` and
   `AwaitedRequestsExact` (the proxy's log order joined with the windows).
10. Proofs of every other safety property outside `Probes`: run directories and the order of hooks, repeats and the
    matching loop, failed handshakes, the sandbox's ability to work, request bodies.
11. `Probes` with recursive functions in place of RECURSIVE operators, and a proof of
    `TokensNameArguments` and `EchoesAreAttributed`.
