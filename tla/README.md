# The foldlab store, modelled in TLA+

Foldlab keeps a content-addressed store, `@foldlab/cas`. Its semantics are
mechanised in Lean as pure transitions over one abstract store; its program is
Effect TypeScript (`src/library/effects`), with fibers, processes, files, an HTTP
daemon, an MCP host, a remote client and a replay plane. These modules are about
what the Lean model leaves out: several callers at once, reads that are old when
they are used, failing backends, interrupts, kills, lost answers, and what a
restart finds on disk. Paths below are relative to `src/library/effects/` unless
they begin with `src/`.

1. [Inventory](#1-inventory)
2. [Modules and the code](#2-modules-and-the-code)
3. [Runs](#3-runs)
4. [Proofs](#4-proofs)
5. [Where the code and its documents disagree](#5-where-the-code-and-its-documents-disagree)
6. [What is not modelled](#6-what-is-not-modelled)
7. [Plan](#7-plan)

## 1. Inventory

```
 shell (bin/cli) ---.                      .--- byte plane (memory, file, key-value)
 MCP tools (bin/mcp)+--> store law --------+--- root store
 programs, blobs,   |    Store.ts,         '--- word log (memory, file, SQL)
 values, schemas ---'    admission.ts              ^
                                                   | pages
 cas-http/0 --> front door, gates --> server core  '--- history verb and route,
       ^        (http.ts)             (Core.ts)         workbench panel
       | exchanges
 remote plane (archive): transfer machine, mirror, proof streams
 replay plane (archive): sessions that record into and replay from the store
 closure / verify (Graph.ts), schema assembly --> byte plane, or any host
```

| Component | State it keeps | Operations | Hard behaviours | What makes it correct |
|---|---|---|---|---|
| Store law `src/cas/Store.ts`, `src/internal/admission.ts` | none between calls; during one, the reference tags collected so far | `put`/`putOutcome`, `load` | one suspension point per read, no lock; write lands and receipt fails; interrupt anywhere | residents closed under references; receipts sound; acknowledged content stays |
| Server core `src/server/Core.ts` | none | load, upload, presence, read root, publish root, capabilities | presence check, then publish; a second admission door into the same plane | the same admission law; published graphs complete |
| Byte planes `src/cas/Backend.ts`, `FileBackend.ts`, `KvsBackend.ts` | bytes per address | load, presence, put | racing puts, kills between temp file, link and cleanup; a failure after the effect | one join: absent, then whole, then unchanged |
| Word log `src/cas/WordLog.ts` | receipts in order; file: lock file, repair file | `append`, `since` | read-modify-write of the mark over processes, torn and unterminated tails, stale locks, a repair that crashes | appends take turns; history never wedged; acknowledged receipts stay; marks dense |
| History reads `src/cas/WordLog.ts`, `bin/cli/history.ts` | cursor held by the client | page, resume, drain | the word grows between and during reads; page cap; overshooting marks | nothing missed, nothing twice, drains end |
| Workbench trunk `src/experiments/workbench/src/trunk` | columns, mark, counts of one panel | fold a page, partition, draw | late, repeated and damaged pages, a repaired log | no receipt twice, none silently gone |
| Graph walks `src/cas/Graph.ts` | stack, pushed set, verified map of one walk | `closure`, `verify` | the host changes between reads, or lies; shared and circular references | listings complete and ordered; audits exact; walks end |
| Programs `src/cas/Programs.ts` | tables as nodes; the answers of one run | put, load, run | field widths; a run that stops half-way; two runs of one table | a stored table loads as itself; a run accounts for what it admitted |
| Blobs `src/cas/Blob.ts`, `src/internal/blobGraph.ts` | chunk trees as nodes | put, read, ranged read | offsets at chunk edges, half-written trees, foreign manifests | a range reads what was put |
| Values `src/cas/Value.ts`, `src/internal/refMarkers.ts` | a node per value | put, get | ordinary data that looks like a marker; order of numbering | a value reads back, references included |
| Canonical schemas `src/cas/CanonicalSchema.ts`, `Materialize.ts` | a node per schema | admit, put, get, assemble, print | two orders of names, repeated keys in raw text, a store that lacks or lies, cyclic references | one spelling per schema; assembled tables are those of the references; printed source loads |
| Store layout `bin/cli/store.ts` | the directory, its config | `init`, find, read, open | kills between calls, racing inits, edits, unreadable files | a created store opens as asked; a gated one is never served open |
| Daemon `bin/mcp/http.ts`, `server.ts`, `src/server/Protocol.ts`, `bin/cli/daemon.ts` | two gates of `maxInFlight`, gauges, counts | serve, shut down | waiting and hung calls, clients that leave, bodies that break off, spelled headers | permits returned; only what is let in changes the store; answers true |
| Shell `bin/cli/commands.ts`, `naming.ts`, `ledgers.ts` | none of its own | one verb per invocation | each step may fail while other processes act | the nearest store; the first failure told; reports true |
| Remote plane `archive/remote-plane` | transfer machine, mirror, probe | put, stream, load, query, push, publish; read proofs | lost, late and repeated answers, deadlines, retries, one key at a time | beliefs true of the peer; nothing leaks; calls end; proofs bind |
| Replay plane `archive/replay-plane` | session cell, history nodes, witnesses | invoke, record, substitute, complete, abort | fibers in one cell, interrupts around a put, late outcomes | histories true and stored; a replay repeats its recording |
| Root stores | set of roots | publish, list | publication after an earlier load | a root is the entry of a complete graph |
| Lean and documents: `src/library/cas`, `src/library/machine`, `src/library/effect-protocol`, `src/formal`, the rest of `src/experiments` | n/a | n/a | n/a | proved there, or not part of the program |

How they interact: every content change goes through one of two admission doors,
the store law or the server core's upload, into one byte plane shared by all
fibers and processes of the composition. The store law then appends a receipt to
the word log. Roots are published into a grow-only set. Nothing coordinates the
doors: there is no transaction and no lock over the byte plane, only over the
appends of the file word log. The daemon holds permits around store calls, and the
shell holds nothing. `PROJECT.json` lists the hazards line by line.

## 2. Modules and the code

| Module | Models | Role |
|---|---|---|
| `Admission` | `verifyNodeBytes`, `judgeAdmission`, what decoding yields | pure operators |
| `CasStore`, `CasStoreProofs` | `putOutcome`, `uploadNode`, `publishRoot`, `cas_publish_root` over one plane, root set and word | the core, implements `AtomicStore`; theorems, refinement included |
| `AtomicStore` | what the store law promises: a node is admitted in one step | abstract specification |
| `BytePlane` | what `ByteWriterShape` promises: one join | abstract specification |
| `FileBackend`, `FileBackendProofs` | `putBytes` of the file backend down to file system calls | implements `BytePlane`; theorems, refinement included |
| `Word` | what the word log promises | abstract specification |
| `WordLogFile`, `WordLogFileProofs` | `makeFileWordLog`, down to prefixes of a write | implements `Word`; theorems, refinement included |
| `WordHistory`, `WordHistoryProofs` | `since` in three realizations, `drainFrom` | readers; theorems |
| `Panel` (theorems in `WordHistoryProofs`) | the trunk's fold, partition and rectangles, over pages of `WordHistory` | a reader of readers |
| `Shell` (theorems in `WordHistoryProofs`) | one invocation of the command line | composes what a verb reads and writes |
| `GraphWalk`, `GraphWalkProofs` | `closure`, `verify` | readers of a growing or lying host; theorems |
| `Schemas`, `SchemaWalk`, `SchemaDoor` | the two orders of names, documents, guarded tables and both revisions of an envelope; assembly over the host of `GraphWalk`; the admission table, normal form and raw scan | canonical schemas |
| `SchemaSource` | `source`: one printed module over several bindings | what Effect's lowering may answer is an input |
| `Programs`, `Blobs`, `Values`, `StoreClients` | tables, chunk trees and typed values as content; callers that put, load and run them | clients of the store law |
| `StoreLayout`, `WireLaw`, `FrontDoor`, `ServeHost`, `ServeHostProofs` | the directory; the law of an exchange; headers as spelled; the daemon, its gates and its calls | the host; theorems |
| `RemoteMachine`, `RemoteTransfer`, `RemoteTransferProofs` | `step`; the adapter and the wire | the remote client; theorems |
| `MerkleStream` | control documents, framer, decoder, verifiers | documents on the wire and proof streams |
| `ReplayReducer`, `ReplaySession`, `ReplaySessionProofs`, `ReplayCarrier` | `reduce`; the session over the store; the bytes of its nodes | the replay plane; theorems |
| `MC*` | | the small worlds TLC explores |

**Content.** A byte string and its address are one element of `Ids`: that SHA-256
does not collide is the one assumption on the address function. `Nodes` are the
byte strings that decode (decoding and canonical form coincide in
`casCodec.ts`), `Known` those of scheme version 0, `TagOf` and `RefsOf` what
decoding yields. Oversize, non-canonical and unknown content are members of
`Ids` outside those sets. Because a node names its references by their digests, no
set of nodes refers only into itself (`ReferencesWellFounded` of `GraphWalk`).

**CasStore.** `pc[c]` is the suspension point of caller `c`: `refs` (before the
next reference read of `admissionFacts`), `own` (before the read of its own
address), `write`, `receipt`, `publish`. One action is the code from one
suspension point to the next, the pure judgment included: `ReadReference` is one
turn of the loop, `ReadOwnAndJudge` the last read and `judgeAdmission`,
`PutBytes` the backend's write and what the door does with its answer,
`AppendReceipt` the log's append. `PutNode` and `UploadNode` are the code before
the first read of either door; `LoadForPublish`, `CheckPresence` and `PublishRoot`
are the two publications. `plane` chooses the backend family: `"join"` compares
when something is resident, `"set"` (key-value) overwrites. `worded` says whether
the composition has a word log. Every backend step may fail before or after its
effect; `Interrupt` ends a call at any point; `Damage` changes bytes at rest.
A refusal changes nothing shared, so the model keeps that a call was refused and
not which clause it named.

**FileBackend.** `object[id]` is the file at the address's path, `scaffold[p]` the
temp file of put `p`. Actions are the file system calls in the order of
`writeFresh` (`MakeTemp`, `WriteTemp`, `Link`, `SettleRace`, `Release`), preceded
by `Exists` and `Compare`. `acquireUseRelease` is `Used` (the use is over and the
release is owed) and `Release`. `Interrupt` respects that the acquire is not
interruptible and that an interrupted link may still land; `Kill` runs no release.

**WordLogFile.** The file is `lines`, whose last may be `Partial` or `Fused`, and
`ended`, whether it ends in a newline. `readLog` is `Torn`, `Unterminated`,
`Entries` and `Readable`, the last the condition under which it does not refuse.
An append goes `queued` (semaphore), `locking` (exclusive create with bounded
retries), `reading`, perhaps `repairing` and `renaming`, `appending`, `torn`,
`unterminated`, `releasing`. A write may stop after any prefix and fail there, or
the process may die there. The removal of the lock may fail silently, as
`Effect.ignore` allows. `RemoveStaleLock` is the operator the refusal addresses.

**WordHistory and Panel.** Marks are dense, so a word is its length. `ReadPage` is
the whole answer of the memory and file logs and the first statement of the SQL
one, whose second statement is `ReadHeads`. The panel pulls with one of those
readers; its transport delivers a page late, twice or damaged. A page from before
a repair lowers the mark and is surfaced as refused; a column's high-water mark
keeps its count honest. What is claimed is claimed for the whole-page realization.

**Shell.** A verb is a list of steps over the services of the store it resolved,
each one look at the disk or one call; other processes act between any two. A step
that goes through many things keeps those that are left and takes them as a listing
sorts them; a walk takes what is next in any order.
`init` is `StoreLayout`'s, `run` and `serve` are `ServeHost`'s, `history` is
`WordHistory`'s. Two orders of the code show in it: `Effect.provide(layerStoreAt(store))`
builds the store before the verb runs, so a store's refusal comes before one about
the name, although `nameProgram` says the name is judged before the store; and
`status`, `doctor` and `serve` read the config again although `layerStoreAt` says it
is read once. `countObjects` reports no failure: an object directory that cannot be read
is counted as one of no objects (`CountObjects`, `CountFan`), so what `ReportsTrue` says
of a count is that it is never over what is there, and is no less than what there was if
no read failed. A config edited between the two can make another verb than `init`
create a layout; `RightStore` speaks of the others (`Steady`).

**GraphWalk and the schema modules.** Frames, the pushed set and the verified map
are the code's. One walk runs at a time because walks share nothing. `Lie` lets the
host serve anything at an address between any two reads. The edges `verify`
collected are listed by `Graph.dfsPostOrder` of the effect package: the model allows
every listing that puts a node after all it has edges to. `SchemaWalk` loads a root
schema and then, round by round, those its references name, over the same host: a
name inside a payload is no edge the store admits by, so assembly is the one place
where it is checked. `FromEnvelope` is the switch over revisions: today's payload is
judged at the door and answered in normal form, a retired one is projected
(`LegacySchema`: an integer comes back under a range check) and sorted by the lowering,
which has no door. The final door of an assembly therefore refuses some documents that
`get` answered, and `AssemblyExact` says exactly which are assembled. A keyword stands for
every form without names or children (literals and typed references too), and an array
for the nest of its item. `SchemaSource` prints modules. A binding holds a revived schema and
`source` lowers it once more; that lowering is Effect's, which renames and splits entries
(`test/SchemaReferenceAssembly.test.ts:301`), so a binding of the model holds any guarded
table it might answer, that test's three entries among them, and not the assembled one.
`SchemaDoor` is the admission table of `admitNode`, the normal
form of `normalizeRepresentationJson` and the scan of raw text for repeated keys, over
codes of one-letter names; `admitNode` throws at the first refusal, and a fractional
number makes `canonicalJson` throw a `TypeError`, both as in the code.

**StoreClients.** A caller's put is the store law's: reads and judgment first, the
write later, so two callers may both be answered fresh. `Programs`, `Blobs` and
`Values` are the pure parts, with the widths of their fields kept as bounds
(`WireBound`, `MaxUint32`, `MaxUint64`, `MaxMaterialized`, `MaxSafe`). `Foreign` is what
others wrote before, well formed or not. A value read back is cut to its projection
(`Cleaned`), and `markerize` reads past excess members of a `$link` body, as
`refMarkers.ts:144` does.

**ServeHost.** `StoreLayout` is the directory under `init` processes, whose steps are
the code's file system calls, and operators' edits. The host reads it, serves, drains
and stops. An exchange goes through the front door and the profile (`WireLaw`, a
function of the exchange and the limits), takes a permit, takes its body, makes the
store calls of one of its plans and answers; a call may fail or hang, a client may
leave, the deadline fires once the host drains. `FrontDoor` is the same door over
headers and queries as they are spelled. The history route is outside both gates, so
the daemon's log line of a worst case of twice `maxInFlight` (`bin/mcp/http.ts:503`)
leaves it out. A tool call is a list of lines, each a put or a load, and a load of a run
is resolved before it is read. What crosses in its frame is an envelope, the payloads as
hex and every address it names: `maxNodeBytes` is clamped for a fixed slack around the
payload, and the references of a put are in no way bounded, so a call may be lost to the
transport although the cap admits it. `AnswersHold` says which (`Around` is over the
slack). `cas_run_ref` runs a table that is in the store already and its puts are
not capped by `maxNodeBytes`.

**RemoteTransfer.** `RemoteMachine` is the total `step`; a caller's adapter turns its
commands into exchanges. A request is perhaps processed, then answered, damaged or
lost; one whose caller has left may still be processed later. The peer checks nothing;
it is trusted to keep what it accepted and to report presence truly. A 409 poisons
the address for the machine (`rejected`). The digest may fail and the mirror may answer
another address after the machine has taken its operation (`remote.ts:965`, `:1040`,
`:1060`), and on these three exits nobody tells the machine: `Forget` moves the operation
to `left`, where it stays, under a number no other call gets. No document claims that
every exit clears, so this is no disagreement; `NothingLeaks` says that these are the only
ones and that at most one is left for each failure. `MerkleStream` frames a body cut into
fragments anywhere and decodes it against symbolic, injective hashes; frames after
`done` are ignored, a malformed frame loses the items framed before it in that
fragment, the empty tree and the tree of one empty chunk share a root, the sizes of a
consistency proof are trusted, and a wrong `count` of an opening is not detected
although the leaf at its index is bound. All of this is the code's.

**ReplaySession.** A history node is addressed by its content and refers to the one
before it, so a root is the sequence of entries it leads to. The cell's updates
exclude each other (`lock`), and from `Mask` to the new cell a fiber cannot be
interrupted. An interrupted call leaves the cell's `pending` behind, so that the next
invocation is rejected. The finalizer's read of the cell waits outside the deadline of
its put, so an append whose put of a history node never returns holds the teardown too. One execution may store a witness of completion and one of abortion.
`ReplayCarrier` is the bytes of requests and outcomes: a lone surrogate becomes the
replacement character, a leading byte order mark is lost, of coinciding keys the last
wins, and the reader accepts keys in any order.

## 3. Runs

| Run | Bounds | Distinct states | Checks |
|---|---|---|---|
| `cas_store` | 5 byte strings (two kinds, a pair that refers, one wrongly kinded node, one unknown version, one junk), 2 callers, 1 damage | 244,359 | `ResidentClosed`, `PublishedComplete`, `AnswersKept` |
| `word_log_file` | 3 writers in 2 processes, 1 retry, 4 appends, 2 kills | 209,268 | `LogReadable`, `AcknowledgedKept`, `RefinesWord`, `AppendsAnswer` |
| `word_history` | 1 reader, word up to 4, page limit 2, marks -1 to 6; a panel given 4 pages; one shell invocation in 6 worlds with 2 steps of others, 1 edit, 1 fault | 159,202 | `PagesFaithful`, `PanelHonest`, `RightStore`, `ReportsTrue`, `OutcomesTold`, `ReadsAnswer` |
| `file_backend` | 3 puts of one address, 1 of another, 1 damage | 343,963 | `SuccessFinished`, `RefinesPlane` |
| `graph_walk` | 8 byte strings, a shared leaf, 2 lies; schemas of two rounds and of both revisions; codes and payloads at the door | 96,910 | `ClosureComplete`, `AuditExact`, `AssemblyExact`, `DoorExact`, `ReadersAnswer` |
| `remote_transfer` | 2 callers, 2 calls, 2 attempts, key limits 0 to 2; 1 failing digest or mirror; trees of up to 3 chunks, fragments of 3 cells | 231,772 | `NothingLeaks`, `BeliefsHold`, `CallsEnd`, `StreamExact`, `ProofsSound` |
| `store_clients` | 2 clients, 2 calls, counts below 4, bytes below 16, chunks of 2; every guarded table of 3 names for one binding, of 2 names for two | 108,782 | `ProgramsHold`, `BlobsExact`, `ValuesExact`, `SourceLoads` |
| `replay_session` | 2 sessions of 2 fibers and 2 calls; carried values | 289,269 | `CarrierExact`, `HistoryTrue`, `ReplayRepeats`, `LateOutcomesDropped`, `InterruptsEnd` |
| `serve_host` | 2 inits, 1 edit, 2 fibers (one of a set of probes, one of a set that keeps the host busy), 1 hung call, 1 permit per gate; headers and queries as spelled | 115,762 | `ConfigHonoured`, `GatesExact`, `OnlyLetIn`, `AnswersHold`, `FrontDoorExact`, `ExchangesEnd` |
| `cas_store_double_receipt` | as `cas_store`, no damage | violation | `OneReceiptPerAddress` |
| `schema_put_get` | as `graph_walk` | violation | `StoredReadsBack` |
| `word_history_sql` | as `word_history`, no fairness | violation | `SqlNothingMissed` |

Runs that check several modules start them as alternatives: an initial state chooses
the audience (`MCWordHistory`, `MCRemoteTransfer`) or carries one sample that one step
clears (`MCGraphWalk`, `MCReplaySession`, `MCServeHost`, `MCStoreClients`), so modules that share nothing
do not multiply each other's states.

**Why the bounds are enough to see the interesting cases.** Two callers suffice
for every pair of steps between a check and the use of what it found, and the
content holds a node and what it refers to, so a put can race the put of its
reference. Initial states of `cas_store` are all closed sets of known nodes, not only
the empty store. Three writers in two processes give both kinds of competition, for
the semaphore and for the lock file; four appends and two kills let a crash damage
the tail, the next append crash during the repair and a third one mend it. Three
racing puts make a winner, a loser and one who finds the object there. A word of
four with a page limit of two has full, short, empty and overshooting pages, and a
page that fills while the drain runs. Two lies let a host serve a circle of
references, or hide a node that it served before; what it may lie about
(`MCLiable`) is three addresses: it hides them or serves a leaf there, serves another
inner node or junk under two, and tells the truth again. Two calls of the
remote plane race one key, retry once and meet an expired deadline; a batch limit of
zero is the peer that says so. Widths of 2 bits and chunks of 2 bytes put every count
and offset on both sides of its edge. Two sessions are a recording and its replay, or
two recordings one on top of the other. One permit per gate is the full gate; a cap of
9 is clamped to 3 by the frame (`FrameBytes` 9, `FrameSlack` 2, `Envelope` 1), with nodes
below, at and above it; one address (`AddressBytes` 4) is more than the slack, so a node
within the cap that names another may not cross. A table of three names has every way in
which an entry reads another, at once or later, on a cycle or off it, and two bindings
over two names share an entry, differ in one, or take a name of the table.

**Fairness.** Each append's own steps are weakly fair (`Step` of `WordLogFile`):
the Effect scheduler runs a runnable fiber, timers fire and file system calls
return. The same holds of the reads a reader issued (`WordHistory`), the next step of
a walk or an assembly (`GraphWalk`, `SchemaWalk`), the adapter of a call, whose
deadline fires (`RemoteTransfer`), the end of a session and the runtime's part of a
masked append (`ReplaySession`), and a host's entering, serving and closing of exchanges
(`ServeHost`), where a hung call is not served. A call, a kill, an interrupt, a failing
create, an operator, a live handler, a client and a lie are never fair, and neither are
the replay plane's puts (`StoreReturns`): the store of a session may hang. `InterruptsEnd`
is what is then left of the promise about teardown, that an interrupted session ends
unless a put of a history node stays under way for ever; a put of a witness is bounded by
its deadline. Nothing is
assumed about who gets a permit or a lock first: the number of appends and of exchanges
is bounded, so weak fairness is enough; on a store whose other writers never rest, the
code claims no fairness between waiters and neither do the models. On a word that grows
for ever a drain need not end, and `MaxWord` bounds the growth.

**Deadlock.** It is checked in `cas_store`, `word_history`, `graph_walk`,
`remote_transfer` and `replay_session`. In `word_log_file` the number of appends is
bounded, in `file_backend` every put runs once, in `store_clients` the number of calls is
bounded and in `serve_host` each fiber serves once: these systems stop when the work is
done, and their configurations say `CHECK_DEADLOCK FALSE`.

**What the properties exclude.** `ResidentClosed` excludes that check-then-insert
without a lock leaves a dangling or wrongly kinded reference. `PublishedComplete`
excludes that a publication based on an old presence check, or on a short declared
closure, names an incomplete graph. `AnswersKept` is what callers were told, read
against the later store: receipts resident, fresh admissions receipted,
acknowledgements kept. `LogReadable`, `AcknowledgedKept` and `RefinesWord` exclude
duplicate marks, fused lines, lost receipts, and a repair that takes back what a reader
saw. `AuditExact` holds against a host that changes in the middle of the walk;
`ClosureComplete` needs an honest host and says so by `lies = 0`. `SourceLoads` is
about modules: what is read while one is evaluated is declared above its reader or stands
suspended, and each binding finds under every name of its own lowering the code that
stood there. A name that one binding's lowering leaves open may be answered by another's
table; the code allows it and nothing is claimed about it. `ReportsTrue`
includes counts told after a failed read, as far as they are still true. `BeliefsHold` says of each answer of the transfer machine what must then be
true at the peer, `NothingLeaks` that an operation that is over is nowhere in flight
unless a digest or an address failed under it.
`ProgramsHold` says that a run accounts for what it admitted and that two runs of one
table agree. `HistoryTrue` relates a stored history to the live executions in the order
they were delegated, `ReplayRepeats` a replay to the script of its recording.
`AnswersHold` reads every answer of the host against the store from then on. Each of
these takes several steps, mostly of several actors, to break.

**Seeded faults.** Some operators stand beside a definition they resemble and are
used by nothing: `UnmetAbsence` beside `Unmet`, `LockSeized` beside `LockRefused`,
`RenameOver` beside `Link`, `PushAgain` beside `Descend`, and so on. Each is the
definition with a plausible fault; `PROJECT.json` ("mutants") pairs it with the
property that fails once it takes the definition's place.

## 4. Proofs

TLAPS checks the theorems of eight modules for all values of the constants, under
the assumptions each module names: types of the parameters, that markers such as
`Absent` or `Nothing` are none of the data, and, for closures,
`ReferencesWellFounded` (content addressing). TLC evaluates every assumption on the
instances it runs.

**CasStore** (`CasStoreProofs`). None of the safety properties is inductive alone.
`IInv == TypeOK /\ CallsSound /\ ResidentClosed` is: `CallsSound` records, for
every suspension point, what the reads so far have established and that it is
still true of the plane, and it survives the other callers because the plane only
grows (a collected tag stays the tag of a resident node) even when bytes are
damaged in place, since an address once present stays present. The step that uses
it is `PutBytes`: with all tags met, writing the node keeps `ResidentClosed`. On
top of `IInv`, `Named` (roots, receipts and acknowledged addresses are resident)
is inductive, and gives `ReceiptsHold`, `AcknowledgementsHold` and, with closure,
`PublishedGraphsComplete`: the set of all residents is the closed set.
`FreshAdmissionsReceipted` and the action property `PlaneGrows` follow step by step;
`AnswersStay` collects what the run checks as `AnswersKept`.

`ImplementsAtomicStore` says that none of this is visible from outside: with the
resident addresses as what is held, and the address of its call as what an
acknowledged caller was told of, every behaviour of `CasStore`, on either plane and
through interrupts, failures and damage, is one of `AtomicStore`. That store admits a
node in one step, all references met at that instant, receipts and publishes only what
it holds, and acknowledges in the step that earned it (a refused or interrupted call
may still have had its effect, as the code's receipt failure says). Beyond `IInv` the
proof needs `Entitled`: a call about to write carries a node of known kind, and a call
about to receipt has a word log. `WriteAdmits` is the step that matters: what
`CallsSound` kept of reads long past makes the write an admission at its own instant.
The collected reads, the judgment and damage map to steps that change nothing held.
This refinement is proved and is in no run's list.

**WordLogFile** (`WordLogFileProofs`). `IInv` adds two parts to the properties.
`FileSound`: whoever writes, the file is receipts at their marks, perhaps followed
by the first bytes of one more. `HolderSound(w)`: the holder of the lock knows how
far the file is from what it read (when it begins to append, the file is exactly
what it read and ends in a newline; while torn, that plus `Partial`; and so on).
Every step of a writer that does not hold the lock leaves the file alone, so only
the holder's step has to be looked at. It follows that what reads return changes
by one receipt at the next mark or not at all, which is `LogReadable`,
`AcknowledgedKept` and the refinement `ImplementsWord`. The proof of
`AppendsTakeTurns` never uses the semaphore: the lock file alone excludes, within
a process as between processes, and the permit only spares the fibers of one
process the wait on the file.

**FileBackend** (`FileBackendProofs`). `PutSound(p)` says what put `p` knows at each
stage: a link is only tried on a whole temp file, no scaffold exists before it is
made, success met the whole object at its address. `ImplementsPlane` then shows
that each step of each put joins one whole object where there was none or leaves
the object paths alone; `SuccessIsFinished` that a success left no scaffold.

**WordHistory** (`WordHistoryProofs`). The invariant places every page by the mark it
was asked from: what a reader has seen is an increasing run from its mark, contiguous in
the one-look realizations, its cursor is within the word, and a drain still owes only
what its end says. A page is contiguous because the word only grows between the read and
the answer (`WordGrows`, an action property). `ReadsAreFaithful` is `PagesFaithful` for
any number of readers, any page sizes and marks.

**GraphWalk** (`GraphWalkProofs`). `HostHonest`: a host that has not lied holds known
nodes at their own addresses, closed under references at their declared kinds. `Path`: the
stack is a path from the root, no address twice on it. For `closure`, `Sorted` (what
was pushed is what is listed or on the stack, never both), `FrameRead` (every reference
a frame has passed is listed or leads to the frame above) and `Placed` (a listed address
comes after its references and before one that refers to it). An address that was pushed
and is met again must be listed, not on the stack: that is the one place where a circle
would hide a child, and `NoCycle` excludes it, from `ReferencesWellFounded` over an
honest host. For `verify`, which detects circles itself, `VerifyInv`: what is verified
is known, edges are followed references at their kinds, and a frame that has gone had
every reference followed. `PostOrderLists` turns the collected edges into the listing.
`ClosureListsTheGraph` and `AuditsAreExact` are the run's properties, the latter
against any host.

**ServeHost** (`ServeHostProofs`). Two invariants. `LayoutInv /\ HostInv`: the makers
are counted, what stands in the directory at each step of a lone `init` is what it wrote
so far, a policy that was read says what the config said, and permits, gauges and
counts are cardinalities of sets of exchanges; it gives `ConfigsHonoured` and
`GatesStayExact`. `StoreInv`, on top of it: roots are held and what is held is held with
its references, and per exchange, what it saw is still so; once past the door, what is
left of its calls is the end of one of the plans of its request, every earlier call has
been done in the store, and a changed store means that the request was let in within the
cap. Its lemmas are about the plans: judgment before write and publication after
presence, closure or write (`Shape`), every completed plan implies what its answer
promises (`PlanServes`), and a call of one line that the transport drops is over the cap
or names more than the slack holds (`PayloadFits`). Nothing is assumed about what is
around a payload. It gives `PlansFollowed`, `ChangesLetIn` and `AnswersAreTrue`, for any
set of exchanges, nodes, policies and programs.

**ReplaySession** (`ReplaySessionProofs`). `IInv == SessionInv /\ Scripted /\ Follows`.
The lock of the session is not taken as given: `Turns` shows that the cell changes hands
only between the fiber that puts and the end of the session, and from it, that a cell in
the middle of a put is nobody else's. `Delegates` and `Flies` say how far the history may
lag: at most one call is in flight, and what is recorded lacks at most that last
execution. `Tracing` reads the cursor off the trace, `Persisting` and `Concludes` say what
a stored node will hold when its put ends, and `Exits` which outcomes the end may still
get. With these, what is stored is the live executions in order (`HistoriesAreTrue`). For
`ReplaysRepeat`, `Scripted` ties the script of a plain recording to its history (or to its
history and the call still outstanding), and `Followed` the cursor of a replay to the calls
the replay has made. `LateOutcomesAreDropped` is an action property: nothing joins the
history of an aborted session, by any fiber that comes back late. All hold for any fibers,
calls, outcomes, terminals and bounds. The attempt to prove `Delegates` found a guard of
the model that grouped otherwise than meant (a call of the main program outside a run);
the model is corrected, and its instance is the smaller for it.

**RemoteTransfer** (`RemoteTransferProofs`). `CallSound` pairs every caller with the
machine: an operation is in flight exactly while the caller waits for the wire or admits
what it loaded (`PairedAt`; what a failed digest or address left behind is apart, in
`left`, under a number nobody uses), it is the one the caller's verb and stage call for (`Fits`),
and a reply that has come tells what the peer has done (`Done`). `Believed` is what the
machine counts on, presence included; `PeerSound` that publications, recorded or still on
the wire after their caller left, stand on held content. The pairing is what carries the
proof: a confirmation is only ever made of the operation in flight, so a late, lost or
refused answer cannot confirm another key, and `PublishEntitled` over confirmed keys is
enough for a peer that checks nothing, because what it holds only grows. Every event of the
wire, timely or not, takes the operation out (`Heard`, `Cleared`), and only a failure of
a digest or an address adds to `left`, and one at most (`LeftBehind`): that is
`NothingIsLeaked`; `BeliefsAreTrue` collects the rest. Both hold for any callers, graphs,
limits and number of attempts.

**Panel** (in `WordHistoryProofs`, over the readers it asks). `PanelSound` is what
survives a transport that keeps no promise: a page in flight is a run of the word from a
mark the fold was at (`Answers`), the fold is exact at the furthest mark it ever reached
(`ExactAt`: each column counts the receipts due to it and carries the last of them, each
at its rank), and what is drawn still names the rows it was cut for (`HeldBy`). That a
truncation takes the mark back and not the columns is why the furthest mark, and not the
mark, is in the invariant; and the high-water mark of a column is what keeps
`PageFolds` true when a page from before a repair comes again. Ranks are counted
(`RisingRanks`, `EachRank`) with the cardinality lemmas, so nothing is an induction over
pages. The rectangles need that a column's origin lies beyond the column before it; the
origins are a recursive function, whose existence and order are shown by a least
counterexample (`OriginsExist`, `ColumnsInOrder`), and rounding is monotone (`Snapped`).
`PanelHonestHolds` is for any word, kinds, carrier, span, views and ratios, over a word
answered whole. The selection of a page's receipts is written as `Listed`, because the
prover does not expand `SelectSeq`.

**Shell** (in `WordHistoryProofs`, the invocation beside the readers).
`ShellInv` says what discovery knows: a directory nobody edited since the invocation
began still says what it said then, and is a store now exactly if it was one
(`UneditedKept`); each directory already looked at was none (`PassedOver`); and the store
found, the backend opened and a refusal for want of a store agree with what stood there
at first (`Found`, `Opened`, `Unfound`). The heart is that a verb at work adds to the
layout of the store it opened and to no other directory, and that this leaves a store a
store (`LayoutMade`, `Continuing`), so `init` alone creates one. `RightStoreHolds` is for
chains of any length.

`ShellReports` is the invariant of what a verb says and does. The store only grows while
it runs, damage included (`PlanesGrown`), and an emitter only writes a ledger anew
(`PapersEmitted`). A verb is at one of the stages of its list of steps, and a stage says
what is settled of the report (`Stages`): the root count lies between what there was and
what there is; the objects counted are no more than there are, and with those of the
directories still to count no less than there were if no read failed (`ObjectsCounted`); each root of the beginning has its one row or is left
(`RowsSoFar`); what a walk has read lies below its root and was sound, and its
references are read or next (`Walked`), so that a finished walk has read the
whole graph (`Below`, the least closed set); each ledger told was in the state its file
had at some moment. What others do then is shown once to keep any stage, because the
parts are monotone in the store. Nothing is published before the last step and a
refusal ends the list (`Moving`, `Ended`), which is `OutcomesToldHolds`; that a parser's
mistakes are each told once is about the runs of `Told`. `ReportsTrueHolds` reads the
report off the stage with no steps left.

`ShellAssumption` says that discovery has a directory to start from, that what stands in
one is one of the layouts of `StoreLayout`, that a listing orders every address and
directory, that what may be named has an annotation that names it, and that the admission
map is on no registry.

**Only model-checked.** The liveness properties (`AppendsAnswer`, `ReadsAnswer`,
`ReadersAnswer`, `CallsEnd`, `InterruptsEnd`, `ExchangesEnd`), because liveness under
fairness and `ENABLED` are out of the prover's reach. `ProgramsHold`, `BlobsExact`,
`ValuesExact`, `StreamExact`, `ProofsSound`, `CarrierExact`, `AssemblyExact`,
`SourceLoads` and `DoorExact`, because they are about recursive definitions over data
(trees, encodings, tables): what these compute for every input needs induction over the
data, which the installed provers cannot instantiate, and a module that reaches a
`RECURSIVE` operator loses the prover. `FrontDoorExact` compares two spellings of one
function over samples.

## 5. Where the code and its documents disagree

Shown by a run:

* **Two receipts for one address** (`cas_store_double_receipt`). `src/cas/Store.ts`
  reads, judges, writes and appends without a lock; two concurrent puts of one
  absent node both answer fresh and both append. `src/cas/WordLog.ts:67` says a
  duplicate put appends nothing. The word is still sound (`AnswersKept`), but
  it is not one receipt per admission.
* **A stored schema that does not read back** (`schema_put_get`).
  `src/cas/CanonicalSchema.ts:93` sorts the fields of an object by the JSON text of
  their names, which ends in a quote and escapes; the door of `get` wants the names
  in ascending order. For `"a"` and `"a b"`, or a name with a quote, `put` stores what
  `get` refuses, against the test "schemas are content: put, address identity, exact
  frozen get" (`test/CanonicalSchema.test.ts:76`).
* **A cursor past an unread receipt** (`word_history_sql`). The SQL `since` reads an
  empty page and the word's length in two statements; a receipt appended between
  them is before the cursor and was handed to nobody, while `src/cas/WordLog.ts:104`
  says a client never computes its own cursor. The memory and file logs answer from
  one look, and for them nothing is missed (`PagesFaithful`).

Met while modelling, and modelled as the code does it:

* A hung store can hang a teardown. The finalizer of a session reads its cell
  (`archive/replay-plane/src/replay/Replay.ts:776`) before the deadline of its own put
  begins, and a masked append holds the cell while the put of its history node is under
  way; `Replay.ts:97` says a hung store must not hang session teardown. Without its
  premise, `InterruptsEnd` is violated by a put of history that never returns.
* `countObjects` (`bin/cli/store.ts:767`, `:772`) turns a directory that cannot be read into
  no objects, and `status` succeeds with the sum, while `bin/cli/commands.ts:488` says that
  the machine register must not be able to read an uncounted store as an empty one.
  `ReportsTrue` bounds such a count from above only.
* The clamp of `maxNodeBytes` sets 64 KiB of the frame aside for what is around a payload,
  which `bin/mcp/server.ts:161` calls far more than any of it, and `:167` says that the
  host's cap fires before the transport's; a put names references without bound in that
  frame, and is then lost there though its payload is within the cap.
* `get` lowers a schema of the retired revision without a door, and `assemble` ends at the
  door, which refuses the range check an old integer is read with, and fields that stand
  in the order of their JSON texts; `src/cas/Materialize.ts:179` says a document with no
  address-named reference assembles to itself.
* `bin/mcp/http.ts:1086` names the cas-http/0 byte plane among the doors whose receipt
  follows; `src/server/Core.ts:138` only writes the bytes.
* The store `init` "creates exactly once" (`bin/cli/store.ts:171`, `:706`) only when
  no other `init` runs beside it.
* Bound to `fe80::1` the daemon takes `fe80` for its name and refuses the browser's
  `[fe80::1]:port`, although `bin/mcp/http.ts:608` says the check must never refuse the
  addresses the host answers on; `::1` and `::` give the empty name. A mark in the query
  may be spelled with percent escapes although a comment says one mark has one
  spelling. An artifact that cannot be read is listed as present and answered 404.
* `CanonicalSchema.ts:468` orders its refusals, but an ill-formed node met first hides a
  later `notASchema`; `:125` says every refusal carries a name of the taxonomy, but a
  fractional number ends in a `TypeError`.
* `src/internal/refMarkers.ts:149` says a link body carries exactly its two members, and
  `:144` reads past others.
* `readLedger` answers "not written yet" for any failure to read, and opening a
  directory with `objects/` and a SQL configuration creates `cas.db` even for `status`,
  which `bin/cli/commands.ts:519` calls read-only.

## 6. What is not modelled

* **Loss of power.** No fsync is claimed by the code (`src/cas/WordLog.ts`,
  `src/cas/FileBackend.ts`), so only process crashes are modelled.
* **A write that lands after its interrupted fiber released the lock.** The model
  stops an interrupted append where it was. Whether the operating system may finish
  it later depends on the platform adapter, which is outside the repository.
* **An operator who removes a lock that is held.** The refusal tells them not to.
* **Stores made or moved while a verb runs.** Of what a verb has passed on its way up, the
  model lets operators edit or remove configurations (`MaxMeddled`), not directories,
  so of the race of discovery `RightStore` covers that part.
* **A value with an own `__proto__` key**, which `src/internal/refMarkers.ts:162` drops when
  it cuts references out; names of `Values` are ordinary ones.
* **The inside of SQL statements and key-value operations.** Each is one atomic step,
  as the database makes it; what lies between two of them is modelled. `bun:sqlite`
  blocks the process while it waits, which is no step of the model.
* **Wording, rendering, help, telemetry** (the OTLP, replica and memory samplers and the
  heartbeat), the contents of projections and metrics, the manifest, `serve` over stdio,
  the MCP adapter's own check beyond what `AdapterOrigins` says, and IPv6 binds.
* **The byte grammar of canonical JSON, the layout of nodes, live schemas of Effect
  (their revival, lowering and code generation are inputs of `SchemaSource`),
  annotations' payloads, `fromPayload`, the reviver, UTF-16 order.** Pure functions over
  unbounded data, pinned by the repository's vectors and its Lean model.
* **The file root store, the SQL root store, the path reader, `inspect`,
  `programAddress`, the service adapter of the replay plane** (`Service.ts`, `makeKit`),
  the remote plane's offline mode, and the receiver that joins framer and decoder, which
  exists only in tests.
* **The workbench's view and application.** A panel that sees the word truncated is
  surfaced as refused; what the view does then is not modelled.
* **Architecture, exchanges and conformance vectors; the Lean developments; the other
  experiments.** Descriptions, proofs and workbenches the library does not depend on.

## 7. Plan

Done: the store law and both doors, the two stores of durable state with real failure
behaviour against abstract specifications, their readers, the clients (programs, blobs,
values, schemas), the host and the shell, and the two archived planes; proofs for the
modules of section 4.

Next, in this order:

1. `WordLogFile` with a bound on late writes, and the property that then fails.
2. The file root store and the receiver of proof streams, when the code has them outside
   tests.
