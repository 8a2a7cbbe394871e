----------------------------- MODULE LeafCerts ------------------------------
(***************************************************************************)
(* proxy/ca.py, `EphemeralCA.leaf_for`, as the proxy's handler threads use *)
(* it in sealed.py, `_handle_connect`.                                     *)
(*                                                                         *)
(* leaf_for is called without a lock.  It tests a dict, mints, stores,     *)
(* reads the dict again, and then writes two files on EVERY call, not only *)
(* after minting; load_cert_chain reads them back.  Two handlers of one    *)
(* host share both files.  write_bytes is two steps, because open()        *)
(* truncates before anything is written.                                   *)
(*                                                                         *)
(* A key pair is named by the handler that minted it; one PEM file holds   *)
(* the certificate or the key of one pair, or nothing.                     *)
(***************************************************************************)
EXTENDS FiniteSets

CONSTANTS
  Handlers,             \* handler threads, one per connection
  Hosts,                \* host names that CONNECT asks for
  FileOf                \* `safe`: the file name a host name is mapped to

ASSUME LeafConstants == FileOf = [n \in Hosts |-> FileOf[n]]

Files == {FileOf[n] : n \in Hosts}

VARIABLES
  leaves,               \* _leaves: the pair of a host, by its minter
  certFile, keyFile,    \* contents of leaf-<safe>.pem and leaf-<safe>.key
  at,                   \* where each handler is in _handle_connect
  host,                 \* the host it was asked for
  pair,                 \* the pair it took from _leaves
  chain,                \* the certificate load_cert_chain has read
  disturbed,            \* history: others wrote to its files meanwhile
  recorded              \* handlers whose request reached the log

leafVars == <<leaves, certFile, keyFile, at, host, pair, chain, disturbed, recorded>>

Nothing == [empty |-> TRUE]              \* no file yet, or an empty one
Earlier == [earlier |-> TRUE]            \* signed by an earlier run's authority
Minted(h, n) == [by |-> h, host |-> n]
Pairs == [by : Handlers, host : Hosts]
Contents == Pairs \cup {Nothing, Earlier}

Places == {"idle", "test", "mint", "fetch", "cert", "certOpen", "key",
           "keyOpen", "load", "loadKey", "tunnel", "dropped", "failed", "done"}

(* The handler may still read what it wrote.                               *)
Using(h) == at[h] \in {"certOpen", "key", "keyOpen", "load", "loadKey"}
File(h) == FileOf[host[h]]

(* The directory may have been used by an earlier run, which may have been *)
(* killed between any two writes; the authority is always a new one.       *)
LeafInit ==
  /\ leaves = [n \in Hosts |-> Nothing]
  /\ certFile \in [Files -> {Nothing, Earlier}]
  /\ keyFile \in [Files -> {Nothing, Earlier}]
  /\ at = [h \in Handlers |-> "idle"]
  /\ host \in [Handlers -> Hosts]
  /\ pair = [h \in Handlers |-> Nothing]
  /\ chain = [h \in Handlers |-> Nothing]
  /\ disturbed = {}
  /\ recorded = {}

Go(h, from, to) == at[h] = from /\ at' = [at EXCEPT ![h] = to]

(* The tunnel is answered 200 before there is a certificate.               *)
Connected(h) ==
  /\ Go(h, "idle", "test")
  /\ UNCHANGED <<leaves, certFile, keyFile, host, pair, chain, disturbed, recorded>>

TestLeaves(h) ==
  /\ Go(h, "test", IF leaves[host[h]] = Nothing THEN "mint" ELSE "fetch")
  /\ UNCHANGED <<leaves, certFile, keyFile, host, pair, chain, disturbed, recorded>>

(* _mint takes long and touches nothing shared; its result is stored even  *)
(* if another handler stored one for this host meanwhile.                  *)
StoreLeaf(h) ==
  /\ Go(h, "mint", "fetch")
  /\ leaves' = [leaves EXCEPT ![host[h]] = Minted(h, host[h])]
  /\ UNCHANGED <<certFile, keyFile, host, pair, chain, disturbed, recorded>>

(* Not the code: files are written only by the handler that minted.        *)
FetchTrustsFiles(h) ==
  /\ Go(h, "fetch", IF leaves[host[h]] = Minted(h, host[h]) THEN "cert" ELSE "load")
  /\ pair' = [pair EXCEPT ![h] = leaves[host[h]]]
  /\ UNCHANGED <<leaves, certFile, keyFile, host, chain, disturbed, recorded>>

(* Not the code: files that are there already are used as they are.        *)
FetchKeepsFiles(h) ==
  LET there == certFile[File(h)] # Nothing /\ keyFile[File(h)] # Nothing IN
  /\ Go(h, "fetch", IF there THEN "load" ELSE "cert")
  /\ pair' = [pair EXCEPT ![h] = leaves[host[h]]]
  /\ UNCHANGED <<leaves, certFile, keyFile, host, chain, disturbed, recorded>>

FetchLeaf(h) ==
  /\ Go(h, "fetch", "cert")
  /\ pair' = [pair EXCEPT ![h] = leaves[host[h]]]
  /\ UNCHANGED <<leaves, certFile, keyFile, host, chain, disturbed, recorded>>

(* Whoever uses the file at the moment somebody else changes it.           *)
Disturb(h) ==
  disturbed' = disturbed \cup {g \in Handlers \ {h} : Using(g) /\ File(g) = File(h)}

OpenCert(h) ==
  /\ Go(h, "cert", "certOpen")
  /\ certFile' = [certFile EXCEPT ![File(h)] = Nothing]
  /\ Disturb(h)
  /\ UNCHANGED <<leaves, keyFile, host, pair, chain, recorded>>

WriteCert(h) ==
  /\ Go(h, "certOpen", "key")
  /\ certFile' = [certFile EXCEPT ![File(h)] = pair[h]]
  /\ Disturb(h)
  /\ UNCHANGED <<leaves, keyFile, host, pair, chain, recorded>>

OpenKey(h) ==
  /\ Go(h, "key", "keyOpen")
  /\ keyFile' = [keyFile EXCEPT ![File(h)] = Nothing]
  /\ Disturb(h)
  /\ UNCHANGED <<leaves, certFile, host, pair, chain, recorded>>

WriteKey(h) ==
  /\ Go(h, "keyOpen", "load")
  /\ keyFile' = [keyFile EXCEPT ![File(h)] = pair[h]]
  /\ Disturb(h)
  /\ UNCHANGED <<leaves, certFile, host, pair, chain, recorded>>

(* load_cert_chain reads the certificate, then the key, and checks that    *)
(* they belong together; an SSLError is swallowed by _handle, which closes *)
(* the connection.                                                         *)
LoadCert(h) ==
  /\ Go(h, "load", IF certFile[File(h)] = Nothing THEN "dropped" ELSE "loadKey")
  /\ chain' = [chain EXCEPT ![h] = certFile[File(h)]]
  /\ UNCHANGED <<leaves, certFile, keyFile, host, pair, disturbed, recorded>>

LoadKey(h) ==
  /\ Go(h, "loadKey", IF keyFile[File(h)] = chain[h] THEN "tunnel" ELSE "dropped")
  /\ UNCHANGED <<leaves, certFile, keyFile, host, pair, chain, disturbed, recorded>>

(* The handshake succeeds if the client is shown this run's certificate    *)
(* for the host it asked for; then its request is read and recorded.       *)
Handshake(h) ==
  LET trusted == chain[h] \in {Minted(g, host[h]) : g \in Handlers} IN
  /\ Go(h, "tunnel", IF trusted THEN "done" ELSE "dropped")
  /\ recorded' = IF trusted THEN recorded \cup {h} ELSE recorded
  /\ UNCHANGED <<leaves, certFile, keyFile, host, pair, chain, disturbed>>

(* Any step may raise on its own account: the port is no number, the name  *)
(* cannot be minted (ca.py:80), a file cannot be opened or written         *)
(* (ca.py:71), the handshake is aborted or takes 30 s (sealed.py:215).     *)
(* _handle swallows the exception; a file once opened stays empty.         *)
StepFails(h) ==
  /\ at[h] \notin {"dropped", "failed", "done"}
  /\ at' = [at EXCEPT ![h] = "failed"]
  /\ UNCHANGED <<leaves, certFile, keyFile, host, pair, chain, disturbed, recorded>>

LeafStep(h) ==
  \/ StepFails(h)
  \/ Connected(h) \/ TestLeaves(h) \/ StoreLeaf(h) \/ FetchLeaf(h)
  \/ OpenCert(h) \/ WriteCert(h) \/ OpenKey(h) \/ WriteKey(h)
  \/ LoadCert(h) \/ LoadKey(h) \/ Handshake(h)

LeafNext == \E h \in Handlers : LeafStep(h)

LeafSpec == LeafInit /\ [][LeafNext]_leafVars

-----------------------------------------------------------------------------
LeafTypeOK ==
  /\ leaves \in [Hosts -> Pairs \cup {Nothing}]
  /\ certFile \in [Files -> Contents] /\ keyFile \in [Files -> Contents]
  /\ at \in [Handlers -> Places] /\ host \in [Handlers -> Hosts]
  /\ pair \in [Handlers -> Contents] /\ chain \in [Handlers -> Contents]
  /\ disturbed \subseteq Handlers /\ recorded \subseteq Handlers

(* A handler whose chain loads serves a certificate of this run's          *)
(* authority, although the directory may hold an earlier one's, and of a   *)
(* host that shares its file name: for any other host the one asked for.   *)
LoadedIsCurrent ==
  \A h \in Handlers : at[h] \in {"tunnel", "done"} =>
    /\ chain[h] \in Pairs
    /\ FileOf[chain[h].host] = File(h)

(* leaf_for may be called without a lock as long as no other handler       *)
(* writes the files of the host while one uses them: a handler none of     *)
(* whose own steps fails (StepFails) and that nobody disturbed finds what  *)
(* it wrote, and its request is recorded, whatever races and failures came *)
(* before and whatever they left in the files.  The package, which may     *)
(* write in the run directory as well, is not a writer in this model.      *)
UndisturbedIsServed ==
  \A h \in Handlers : at[h] \in {"done", "dropped"} => h \in recorded \cup disturbed

=============================================================================
