# A TLA+ model of icechest

icechest keeps Zarr arrays and Iceberg tables in one Icechunk repository, and
publishes both by one Icechunk commit. There is no catalog service: the map
from a table's name to its current `metadata.json` travels in the commit
metadata of each Icechunk snapshot. The claim is that arrays and table rows are
seen together or not at all, with any number of concurrent writers. This
directory models the code that has to make the claim true, checks it with TLC
on small instances, and proves it with TLAPS for all instances: every invariant and
action property of the runs, and that `commit()` implements an atomic store, where needed
under a hypothesis that the theorem names and section 4 explains. Only the two liveness properties rest on TLC alone.

Paths below are relative to the repository; `transaction.py` and its siblings
are in `src/icechest/`.

## 1. Inventory

| component | state it keeps | operations | model |
|---|---|---|---|
| `HybridTransaction` (transaction.py) | Icechunk session, catalog, intents, captured base snapshots, staged-past-the-intents set | open, `group`, `create_table`, `append`, `delete`, `overwrite`, `commit`, `_recover`, `__exit__` | `HybridStore` |
| `IcechunkCatalog` (catalog.py) | `pointers`, `staged` | `current_pointers`, `rebase_onto`, `create_table`, `commit_table`, `load_table` | `HybridStore` |
| pointer map (pointer.py) | none: a value in commit metadata | `read_pointers` at a snapshot, branch or tag, `commit_metadata` | `HybridStore`, `Reading` |
| `iceberg:` convention (convention.py, conventions/) | attributes of the root Zarr group | `declare`, `read_bindings` | `HybridStore`, `Reading` |
| conflict validation (validation.py) | none | `conflicting_adds` | `IcebergTable` |
| `HybridRepo`, `HybridSnapshot` (transaction.py) | a repository; a snapshot id and the store cached for it | `create`, `transaction`, `read`, `store`, `group`, `pointers`, `bindings`, `table` | `HybridStore`, `Reading` |
| batch ingest (demo/ingest.py) | locals of one call | `ingest_batch`, `_granule_exists`, `_record_skip` | `Ingest`; the sort in `Clustering` |
| granule writer (demo/virtualize.py) | locals of one call, the session it writes to | `virtual_granule`, `write_granule_to_store`, `read_header` | `GranuleWriter`, `Access`; one step of `Ingest` |
| pyramid layout and attributes (demo/conventions.py) | none | `multiscale_layout`, `granule_attrs` | `GranuleWriter` |
| asset URLs (demo/assets.py) | none | `asset_key`, `to_s3_url`, `to_vcc_url`, `asset_urls` | `Access`, `GranuleWriter` |
| credentials (demo/credentials.py) | a cached token, issued keys | `lpdaac_credentials`, `earthdata_token`, the container, its credentials, the registry | `Access` |
| demo store (demo/store.py) | none | `open_store`, `ensure_table`, schema, sort order, partition spec | `Access`, `Ingest`, `Clustering` |
| hash (demo/hash.py) | none | `with_stac_hash` | `Clustering`; its refusal in `Ingest` |
| archive selection (demo/source.py) | an opened table | `open_archive`, `granule_filter`, `select_granules` | `Selection` |
| TIFF header (demo/tiff.py) | locals of one call | `parse_ifds` | `TiffHeader` |
| notebook (examples/) | the variables of its cells | calls of the above, in order | `DemoTable`, `DemoGranule` |
| Icechunk, PyIceberg | snapshots, branches, sessions; table metadata | libraries, modelled from their use | external |

**Interaction.** Transactions share two things only: the Icechunk repository
(snapshots, branch tips) and the warehouse directory of metadata files. A
transaction stages array writes in its session and records table operations as
intents. `commit()` applies the intents to its catalog, which writes metadata
files and stages their locations, and hands the whole pointer map to
`session.commit`, a compare-and-swap on the branch. If that conflicts,
`_recover` reads the pointers at the tip, checks that the staged work can be
rebuilt, adopts the pointers, and rebases the session; the intents are applied
again.

**What is hard.** Every interleaving of several `commit()`s, in particular of
the two reads of the tip in `_recover`; a validation window that starts when a
removal was staged and ends after any number of conflicts; work that no intent
can rebuild; a replay that has nothing left to do; a second `commit()` after an
error; sessions of another branch; several writers declaring tables on one root
group; a commit whose answer is lost; handles that outlive the branch tip, the
files or the keys they were opened with; partial writes and failing cleanup in a
batch; references written in one access mode and resolved in another; and the
edges of counts, cuts, boxes and bit shifts in the demo's pure code.
`PROJECT.json` lists these as hazards, each at its line.

**What makes each part correct.** Transaction: all or nothing, no lost
update, serial effect, isolation of removals, an end to every call. Catalog:
old versions never change, unchanged tables are carried forward. Convention:
declaration and pointer together. Validation: no added row is missed. Ingest: a
row and its arrays together, once, left alone afterwards, and an honest result.
Reading: one handle, one snapshot. Granule writer: what the attributes declare is
what was staged, and nothing is staged of a granule that cannot be read. Access:
every request reaches the object the record names, and a granule's references are
published whole. Selection: what was asked for
and no other. Clustering: files and partitions are what the metadata says they
are. TIFF header: the levels the bytes cover.

## 2. Modules

| module | contents |
|---|---|
| `IcebergTable` | a table version (data files, chain of Iceberg snapshots), PyIceberg's append/delete/overwrite on it, and `conflicting_adds` |
| `HybridStore` | EXTENDS `IcebergTable`: the repository, the warehouse and the transactions; one action per call or per step of `commit()`; the properties |
| `HybridStoreProofs` | EXTENDS `HybridStore`: types, immutability, isolation of removals; all or nothing, exhaustion, no lost update; declarations and pointers |
| `AtomicStore` | the abstract specification: transactions that take effect in one step; stands for no code |
| `HybridStoreRefinement` | EXTENDS `HybridStore`, INSTANCEs `AtomicStore` with what a reader sees |
| `RefinementProofs` | EXTENDS `HybridStoreProofs` and `HybridStoreRefinement`: serial effect, refusals, appends; the refinement of `AtomicStore` |
| `IngestProofs`, `ReadingProofs`, `AccessProofs`, `DemoGranuleProofs`, `DemoTableProofs` | each EXTENDS the module it is named after: its theorems |
| `Subsequences`, `SubsequenceProofs` | the members of a sequence that are in a set, in their order, as several modules need them; induction on numbers, and what such a subsequence keeps |
| `Reading` | a reader's handle while transactions (one step each) commit or are given up, branches move, tags are made, PyIceberg trims metadata logs and Iceberg's cleanup runs |
| `Ingest` | processes that run `ensure_table` and `ingest_batch` |
| `GranuleWriter` | `write_granule` on one granule, with the attributes it declares |
| `Access` | writers that read headers and stage references level by level, readers that resolve what is published, in modes of their own, with keys and tokens that expire, also during a request |
| `Selection` | an archive that is published while selections run |
| `Clustering` | the hash, its blocks, and the files of the granules table |
| `TiffHeader` | the walk of the IFD chain |
| `DemoTable` | EXTENDS `Selection` and `Clustering`: what was selected is the batch that is ingested |
| `DemoGranule` | EXTENDS `TiffHeader` and `GranuleWriter`: a granule's header is walked, then the granule is written |
| `MC...` | each EXTENDS one of the above and defines the operations, records or files TLC gets |

Definitions whose comment begins "A fault for the checks to catch" are not part
of the model: each is a plausible bug that a property of the runs detects
when it takes the place of the definition after it.

### State and code, HybridStore

| variable | code |
|---|---|
| `snaps`, `tip` | Icechunk's snapshots and branches: arrays, root group attributes, pointer map |
| `warehouse` | the metadata.json files, location -> table version |
| `session[w]` | `tx.session`: base snapshot, root group written or not, its attributes, chunks written |
| `catalog[w]` | `tx.catalog`: `pointers`, `staged`, and how many files it has written (which names the next) |
| `plan[w]` | `_branch`, `_intents`, `_base_snapshots`; `direct` and `chunks` and `start` record what the caller did, for the properties |
| `loop[w]` | `_unmanaged_staged`, the position in the loops of `commit()`, the error raised |
| `pc[w]` | `idle`, `open`, inside `commit()`: `apply`, `recover`, `rebase`; `committed`, `failed` |
| `faults` | storage errors so far |

A step touches shared state at most once. `commit()` is split where it must
be: each intent's application is a step, then `session.commit`, then
`_recover` up to the adoption of the pointers (one read of the tip), then
`session.rebase` (the other read).

Abstractions: a row is a key and its author; a predicate is a set of keys; a
chunk is written or not. A data file's statistics are the range of its keys,
so validation is conservative as in the code. An Iceberg operation records one
snapshot where PyIceberg may record up to three. The location of a metadata
file also names the Iceberg snapshot recorded in it. Icechunk's conflict solver
is external: two updates of the root group cannot be solved; two writes of one
chunk may be solved or refused, and the model takes either.

`InOrder` says which rows a list of operations leaves, by the last operation that
gives or takes each row. It is the reference for `PublishedIsSerial`, and stated
without recursion so that it can be proved about; an ASSUME of `MCHybridStore` has
TLC compare it with running the operations one after the other (a fold), on all
lists of up to two operations of the runs.

### State and code, Ingest

`commits` is the history of `main`, with the table's rows and the number of
parts present at each `/{granule_id}`; `tx[b]` is the transaction (base, staged
parts, adopted table version), `result[b]` the locals of `ingest_batch`. The
transaction is reduced to what a batch uses: a single append, which no
validation refuses, and new nodes, whose creation on both sides no solver
reconciles. The session is private until the commit, so a granule's write is one
step that ends with all parts staged, or with any number of them and an error.
Every process runs `ensure_table` first, as the demo does. `seen` is a record for
the properties: the tip when the pointers were last read. A commit is
`Undisturbed` if that is the commit it was made on. `faults` counts failed cleanups
and errors of the object store apart.

An error of the object store may strike before the end (`StorageFault`) or be the
answer of a commit that took effect (`AnswerLost`). In both cases `ingest_batch`
discards the session and raises (ingest.py:154-162); in the second its rows and
arrays are published all the same, whole. `ResultIsTrue` therefore says that a batch that
raised published all that it kept, or nothing. The comment at ingest.py:157,
"commit() publishes nothing when it raises", repeats the docstring of `commit()`
(transaction.py:289-290); of a lost answer neither holds.

### The atomic store

`AtomicStore` says what a caller is promised: `store[b]` holds, for each branch,
the tables that exist, their rows and the chunks; a transaction collects work,
and `Commit` applies all of it, in order, to what the branch holds at that
moment, provided that every operation finds its table and that the rows removed
are rows the transaction saw when it began. It may also `Abort`, and leave
nothing. `HybridStoreRefinement` maps the snapshot at each tip to the store (a
table's rows are those of the version its pointer resolves to), the direct work
followed by the intents to the work, and a transaction to `committed` exactly
when Icechunk moved the branch, whatever its caller was told. Staging, lost
compare-and-swaps, adopting and rebasing are stuttering steps.

### The other modules

`Reading` takes a transaction as one step, which is what the refinement is for.
`handle[r]` is a `HybridSnapshot`: its id, the store it has cached, and the answers
`table` gave. A version is the count of its rows, a table's arrays the count
of arrays, so that lockstep is an equality. It also has both of the table's
`SAFETY_PROPERTIES` and its metadata log. Two kinds of deletion are external. Expiry and
orphan cleanup (`Maintain`), if `gc.enabled` lets them, delete every version but the
one on `main`. And PyIceberg itself, if `write.metadata.delete-after-commit.enabled`
is set, deletes the file that falls off the log when it writes the next version
(`Purged`), whether or not that version is ever published: an attempt that lost, or a
transaction given up (`Abandon`), writes metadata as well. Files are named by how many
were ever written, for names are never used again.

`GranuleWriter` has `virtual_granule`'s locals and the session: arrays by path,
attributes by band group. Opening a COG yields any pyramid of `Pyramids` or
raises; a write to the store may raise at any step. The EPSG code, the dimension
names and the constant convention objects are left out.

`Access` treats a URL as a scheme and a sequence of path segments, so that a
prefix with a trailing slash, its `rstrip` and obstore's joining are operations on
sequences. A job takes the usable bands of a granule in the order of their
positions. A process may open the store, build the registry and virtualize in
different modes, as the code allows. A writer stages into the session of its batch,
one level of one band at a time, after all headers were read; it may raise at any
of these steps, and the cleanup of what it staged may raise too (`torn`). Issued keys
have the time they expire and the time icechunk is told (credentials.py:101). An s3
reader's keys are refreshed when it asks, by the time it was told; its request is
served later, and may find them expired. An https reader's bearer token is a
static header, and a registry's token or keys are fetched once, so these run out for
good. That one process keeps a token for its registry and its store
(`earthdata_token`'s cache) is left out: each has one of its own.

`Selection` keeps ids as sequences of characters, because tile names can be
prefixes of each other, and lets a limited scan return any subset of the size the
limit gives. `Clustering` scales the hash down to `LevelBits` bits per dimension
and measures coordinates in cells; the interleaving is the `stac_hash` library's.
`TiffHeader` has the bytes where they matter: the value field of an entry, the
cut of the header. A chain is a list of IFDs at different offsets: a TIFF whose
chain runs back into itself is not well formed and not an input here.

`DemoTable` and `DemoGranule` put these together as the notebook's cells do. In the
first the records `select_granules` returns become the rows of `ingest_batch`, in
any order, as often as the cells are run again; the archive's owner publishes
meanwhile. In the second the two cells share nothing but their order.

## 3. Runs

| run | instance | what it checks |
|---|---|---|
| `two_writers` | 2 transactions, up to 2 intents (append, delete, overwrite) on a table with rows, a chunk, direct catalog work, 1 retry, a storage error or a lost answer | `PublishedDescends`, `PublishedIsSerial`, `AppendedOnce`, `RefusedOnlyIfEmpty`, `SnapshotsAreImmutable`, `Implements` |
| `fresh_store` | 2 transactions on an empty repository, 2 tables to create, a chunk, a storage error or a lost answer, a second `commit()`, one context manager | `DeclaredResolves`, `AllOrNothing`, `Implements` |
| `three_writers` | 3 transactions of 1 operation, 2 branches, sessions of either, 1 retry, a fault, one context manager | `TypeOK`, `NoBlindRemoval`, `AllOrNothing`, `ExhaustionIsEarned`, `CommitTerminates` |
| `ingest` | 3 processes, overlapping batches with a repeated id and a malformed row, writers that fail, up to two failed cleanups, storage errors or lost answers | `TypeOK`, `RowsHaveArrays`, `OneRowPerGranule`, `ResultIsTrue`, `ArraysHaveRow`, `PublishedStays` |
| `readers` | a reader, 2 tables at 2 locations, 2 branches, a tag, 4 snapshots, 3 metadata files, a log of one, creators who override both safety properties or none | `LockstepReads`, `PinnedVersionsResolve`, `DeclarationsStay` |
| `access_modes` | 2 writers, 1 reader, 3 granules, one in another bucket, one of two bands of different depths, modes s3, https and an unknown one, keys and tokens that last one tick | `RequestsHitTheObject`, `ReadersOutliveKeys`, `GranulesAreWhole` |
| `demo_granule` | 4 chains in 2 byte orders, cut at every length; 2 bands, pyramids of 0 to 3 levels, one malformed, one of another shape with as many pixels | `LevelsAreCovered`, `ReadsInHeader`, `WalkEnds`, `LayoutResolves`, `NothingStagedUnread`, `ReturnedIsWhole`, `BoundsAreThePixels` |
| `demo_table` | archives of 3 of 8 records and one published later, 37 queries, 2 rounds; 3 bits per dimension, blocks of one level, 2 rows a file | `SelectionIsSound`, `SelectionIsComplete`, `LimitIsFilled`, `FilesAreRanges`, `PartitionsAreBoxes`, `FiledWhereItLies` |
| `lost_update`, `commit_again`, `same_file_deletes`, `ingest_cleanup` | see below | each is violated |

**Bounds.** Two writers with one retry are enough for a conflict and a replay,
and two operations for a removal after another intent, for an append before a
delete, and for an intent next to direct work. Three writers are what it takes
for a replay to lose again, for retries to run out, for an added row to be covered
by a later snapshot, and for a commit to fall between the two reads of the tip.
Two rows in the first file make a delete rewrite it. Two parts per granule give an
incomplete one. `MaxOps`, `MaxCalls` and `MaxFaults` bound what the code does
not; `MaxRetries` is the code's own parameter. Two branches and a tag are enough
for a handle to be on another version than `main`. In `ingest` two faults give a
failed cleanup in a batch whose answer is lost. In `readers` a log of one loses its
file on the second append to a table, so three files are enough to delete a version
that a tag or a handle is on. Creators there override both safety properties or
none: Iceberg's own default for the second is off, so leaving only that one out shows
in no state; that a default of "on" would be caught is the mutant `PurgingProperties`.
In `access_modes` one tick of the clock comes before any step: between two headers,
between a request and its answer, or between two requests, when the keys are
refreshed. Three bits per dimension give two
regions and four cells in each. Symmetry is by permutation of the writers
(`two_writers`), processes (`ingest`), readers and tables (`readers`), and writers (`access_modes`), which the
specifications do not tell apart; the runs with a liveness property use none.
`access_modes` and `demo_table` stop when their bounds are used up (the people
who run the demo may stop at any time) and do not check for deadlock.

With three writers on one branch the two reads of the tip really do break
`PublishedDescends`, `PublishedIsSerial`, `Implements` and (with two tables)
`DeclaredResolves`; those are checked with two writers, where no third commit
can fall between the reads, and the violation is a run of its own. The theorems of
section 4 say that the window is the only cause, with any number of writers. With three
ingest processes the rows of one batch can be lost in the same way while its arrays
stay, so `ArraysHaveRow` speaks of the commits up to the first that was disturbed,
with cleanups that work, and `PublishedStays` of the rows carried into an
undisturbed commit.

**Fairness.** `FairSpec` asks weak fairness of each running `commit()`: a thread
inside a call keeps taking steps. Nothing is assumed of callers, of faults, or of
who wins a race; the loop ends because `max_retries` bounds it. `DemoGranule` asks it
of a running `parse_ifds`.

### Violations found

1. `lost_update`: `_recover` reads the tip twice (transaction.py:358 and :362).
   A commit that lands in between is rebased over, its pointer is not adopted,
   and the next `session.commit` succeeds: that commit's rows disappear from the
   table without an error. The docstring says the replayed metadata "descends
   from the version that actually won". If that commit created a table, the new
   snapshot declares a table it has no pointer for, which the convention rules out
   ("a snapshot that declares a table always resolves it").
2. `commit_again`: after an error the docstring allows a second `commit()`, which
   applies the intents on top of the versions the first call staged: rows twice.
3. `same_file_deletes`: README.md says that two concurrent deletes touching one
   data file "can never both succeed"; the loser's delete is replayed on the
   winner's version, as a test expects.
4. `ingest_cleanup`: a failed cleanup is only noted in the skip reason; the batch
   publishes the failed granule's arrays without a row, and every later batch
   skips that granule as already in the store.

Two things about bindings were met while modelling and are no runs. The convention
calls a binding's location the root of the table's "data, manifests, metadata";
`_metadata_location` puts metadata files under the catalog's warehouse, whatever
location the table was given. And `create_table` on an existing table with another
location rewrites the binding (`CreateTable` in `Reading`) and leaves the table's
files where they are.

## 4. Theorems

Every theorem holds for all values of the constants that satisfy the named
assumptions of its module. These say only that the sets are what they are said
to be: the first commit's author is no writer, keys are numbers because
statistics order them, there is a branch, bounds are natural numbers. Where a
theorem needs more, it says so as its own hypothesis. The inductive invariants were
checked by TLC on the instances of the passing runs before they were proved, except
`Founded` (of the refinement), which the proof itself led to.

**Induction.** The library's induction theorems take a predicate as an operator, which
the provers cannot instantiate. `SubsequenceProofs` therefore states induction over a
*set* of numbers (`Least`, `Induct`): to prove P for every number, the set {n \in Nat :
P(n)} is shown to have 0 and each successor. A recursive function `f[i \in 0..n]` is
first shown to exist, by that induction, and then to be what its definition says
(`PowersExist`, `PowersUnfold` and their like). What the models compute recursively
- powers of two, the interleaving of bits, the subsequence of a sequence, the outcome of
a list of operations - is proved about in this way.

### The store (`HybridStoreProofs`)

- `TypeCorrect`: `Spec => []TypeOK`. `TypeOK` is not inductive: that
  `loop.attempt` stays within `max_retries` needs that recovery is entered with
  a retry left (`Retrying`), and that versions are versions needs that every
  pointer is to a written file (`Refs`) and every new name is new (`Fresh`).
  Their conjunction is `Shape`.
- `SnapshotsStay`: `Spec => SnapshotsAreImmutable`. Every step only adds
  snapshots and files (`Grows`), from `Shape`.
- `RemovalsAreIsolated`: `Spec => []NoBlindRemoval`. The inductive invariant is
  `IInv = Shape /\ Histories /\ \A w : WriterInv(w)`. `Histories` says that a
  version's chain accounts for its rows: each row was in the version any
  snapshot of the chain names, or is in a file added after it. `WriterInv` says
  that the window's left edge is the version the transaction started from
  (`Anchored`), so that an empty `ConflictingAdds` means that what a removal
  selects in the adopted version was there at the start (`RemovalsSafe`), hence
  that staging it removes nothing else (`StagedSafe`). The one exception of
  `Anchored`, a base captured on a version staged past the intents, is harmless
  because such a transaction is refused before it replays. The theorem holds in
  spite of the window in `_recover`, which loses additions but removes no row
  through a removal.

### Commits (`HybridStoreProofs`)

The actions are first sorted into nine forms (`Opening`, `Preparing`, `Staging`,
..., `Landing`; the lemma `StepForms`), by what they do to the acting transaction;
the invariants below are then shown to survive each form.

- `TransactionsAreWhole`: `Spec => []AllOrNothing`. The invariant `LInv` is a ledger
  of each transaction: what it stages on is published and what it stages its own
  (`Provenance`), the session carries the chunks of the plan for as long as it may
  be committed (`Carrying`), and there is one snapshot of a transaction that is done,
  none of any other (`Outcome`).
- `GivingUpIsEarned`: `Spec => []ExhaustionIsEarned`, from the ledger's last part
  (`Overtaken`): the k-th attempt starts with k snapshots of others between the start and
  the session's base, and a rebase is entered only when the tip is past that base.
- `NoUpdateIsLost`: `Spec /\ TipStill => []PublishedDescends`. `TipStill` says that no
  step moves a tip while a transaction stands between the two reads of it in
  `_recover`. It is just what the run `lost_update` violates, so the theorem
  says that this window is the only way to lose an update: with conflicts, replays,
  storage errors, lost answers and second calls of `commit()` there is no other. The
  invariant `DInv` adds that a transaction whose session is at the tip has the tip's
  pointers (`Current`) and that what it would publish descends from them (`Lineage`).
- `TwoWritersLoseNothing`: with at most two writers (`AtMostTwo`),
  `Spec => []PublishedDescends`. A writer about to rebase was put there by the other's
  commit; the other has committed and commits once, so `TipStill` follows
  (`TwoKeepStill`).

### Declarations (`HybridStoreProofs`)

- `DeclaredTablesResolve`: `Spec /\ TipStill => []DeclaredResolves`, provided that
  tables are created through the transaction (`NoDirectCreate`): one created on
  `tx.catalog` has a pointer and no declaration, as the runs' `DirectOps` avoid too.
  In the invariant `NInv`, attributes grow along a branch and only when the root group is
  written (`Chain`); the session's attributes are those of the start and the tables
  created since, and if the transaction wrote the root group nobody else did
  (`Names`); a staged table is one of the base or created here, and the creations
  applied so far are staged or in the base (`Stagings`).
- `TwoWritersDeclareAlike`: the same for two writers, without `TipStill`.

### Serial effect (`RefinementProofs`)

- `TransactionsAreSerial`: `Spec /\ TipStill => []PublishedIsSerial`, and
  `TwoWritersAreSerial` for two writers. `Settled` speaks of single rows, since a failed
  call leaves the effect of some intents behind and a second call applies them
  again on top: a row that an intent applied so far concerns is there just if the
  applied intents give it, and a row that no intent concerns is as the direct work
  left it. After the last intent that is the serial effect, because what the last
  operation concerned with a row says of it does not depend on what was before.
  `Directs` says that direct work never meets a replay.
- `RefusalsAreDeserved`: `Spec => []RefusedOnlyIfEmpty`, provided that `commit()` is called
  once (`OneCall`). With two calls it fails: a replay on the winner's version, a storage
  error, and a second call that counts its attempts from 0 on the winner's pointers,
  may find that the winner has done its work and raise the error of an empty
  transaction. In `EInv`, a first attempt stages on the pointers of the start.
- `AppendsAreOnce`: `Spec => []AppendedOnce`, under `OneCall` again, which is what the run
  `commit_again` breaks. `AInv` bounds the data files that hold a row (`Copies`) by
  the operations up to the last one applied that asked for it (`Requests`): an
  operation adds one file at most and a rewrite none, an adopted version has no row
  of a transaction that has not committed, and what others asked for no longer
  changes once they have.

### The refinement (`RefinementProofs`)

- `CommitIsAtomic`: `Spec /\ TipStill => Implements`, and `TwoWritersAreAtomic`: with at most
  two writers `Spec => Implements`. The mapped initial states are `AtomicStore`'s (`MapInit`),
  and every step maps to one of its steps or changes nothing it sees (`MapNext`): opening is
  `Begin`, the calls of a transaction are `Ask` and `Write`, an error is `Abort`, a published or
  lost-answer commit is `Commit`, and applying, conflicts, adopting and rebasing are stutters.
  The mapped `Commit` needs four things: that all the work is applied in order to what
  the branch holds now (`PublishedIsSerial`'s invariant `SInv`), that no row but those the
  transaction saw is removed (`RemovalsSafe`), that every operation finds its table, and
  that just the created tables are new. For the last two the invariant `RInv` adds to `SInv`
  that each transaction's tables are `Founded`: an intent applied so far found its table in the
  adopted pointers, in the direct work, or created by an earlier intent (`Found`), also
  where an earlier, failed call left tables staged (`Sourced`), and direct work stands
  on tables that were there (`Stood`). `AtomicStore`'s recursion over the list of operations is
  brought to `InOrder` by induction on its length (`ThroughIs`, `OutcomeIs`).

### The demo (`DemoGranuleProofs`, `DemoTableProofs`)

Every invariant of the runs `demo_granule` and `demo_table`.

- `ReadsBeforeItStages`, `ReturnsWhole`, `LayoutsResolve`, `BoundsArePixels`, from `WInv`: the bands
  opened are the first ones of the record (`Opened`), what is staged is just the levels before
  the part that is written next, each with its shape, and the bands done have their attributes
  (`Progress`), and nothing is staged until all was read (`Steps`). Assumed: the bands asked for
  are different (`BandsAssumption`: a dict keeps one URL a band); a pyramid is a list of
  shapes (`PyramidAssumption`); transforms are north-up (`TransformAssumption`:
  conventions.py:118 relies on it).
- `FindsTheLevels`, `StaysInHeader`, from `HInv`: after k turns the first k IFDs of the chain are
  wholly in the header, `sizes` are those of the images among them, and the offset is that of
  the next (`Walked`). That the value of an entry is what its writer meant, in either byte
  order and width, is the lemma `EntryValueIs`. Assumed: IFDs lie behind the first eight
  bytes, no two at one offset, and values fit their kind (`FileAssumption`), as TIFF
  has it.
- `ReturnsTheWanted`, `ReturnsAllWanted`, `FillsTheLimit`, from `QInv`: what is returned are the records
  with a transform of a scan of the table. The lemma `FilterIsWanted` says that the filter's
  comparisons mean what they are for: two boxes share a point just if they pass the four
  comparisons (`BoxesMeet`), and an id starts with a tile and a dot just if that is its tile
  (`TileNamed`). Assumed: an archive is finite, boxes have their corners in order, an id has
  a dot and a tile's name none (`RecordAssumption`, `QueryAssumption`).
- `SortsIntoRanges`, `BlocksAreBoxes`, `FilesWhereItLies`, from `LInv`: each file is sorted and of one
  block, and the files of one batch lie apart. Behind `BlocksAreBoxes` is that the shifted hash is
  the interleaving of the coordinates' high-order bits, and that these bits determine
  each coordinate's region and are determined by it, for any number of levels. Assumed: the
  partition bits are whole levels of the octree (`BitsAssumption`: 12 of 63 in the code).

### The other modules

- `IngestProofs`: `TypeCorrect`, `RowsKeepTheirArrays`, `ArraysKeepTheirRow`,
  `IngestAppends`, `GranulesHaveOneRow`, `ResultsAreTrue`: every invariant of the run
  `ingest`. `IInv` joins `StoreInv` (about the history: the store's properties, and that
  nodes stay with the batch that wrote them) and a `BatchInv` for each batch: its
  base and the version it adopted are in the history (`Bases`), what it staged is not
  in its base (`Apart`, which is why a rebase over a granule fails), it keeps only
  granules it staged whole (`Kept`), the rows handled so far are kept or skipped
  (`Accounted`), and it has no commit before the last step (`Unseen`, `OwnCommit`). A
  batch that raised either has no commit or one that landed before the error
  (`Outcome`), with all that it kept.
- `ReadingProofs`: `PinnedVersionsStay`, `ReadsAreLockstep`, `DeclarationsAreKept`: every
  property of the run `readers`. In `IInv`, every snapshot has as many rows as arrays in
  each table whose version is there (`Lockstep`), the versions of tables whose creator
  overrode no safety property are there (`Resolves`), and each answer a handle has had is right for its
  snapshot (`HandleInv`). `Resolves` rests on `Guarded`: a version that allows cleanup or
  deletes metadata after commits is of a table whose creator asked for that, since each
  version takes over the properties of the one before. Any overrides and any length
  of the log are covered.
- `AccessProofs`: `UrlFormsAgree`, `ReadersAskWithValidKeys`, `GranulesStayWhole`: every
  property of the run `access_modes`. `IInv` gives the form of a store's container, of a registry,
  of a job and of the references staged and published; that a reference in the form of one mode
  resolves to the record's object in each other is shown by cases on the modes, with
  URLs as sequences of any length. `StoreForm` says that an s3 store is told when its
  keys expire, so that a request is asked with valid ones (`RequestForm`).
  `SessionForm` says that what a session has of a granule is whole, left by a failed
  cleanup, or of the granule being written after all its headers were read; since a session is published only between granules, and over none that
  another published meanwhile, published granules stay whole.

### Only model-checked

Liveness under fairness (`CommitTerminates`, `WalkEnds`), which is outside this prover's
reach. No invariant, action property or refinement of a passing run is left to TLC alone.

A lost answer (`AnswerLost`) takes part in all theorems about the store: it moves the
branch like a publication and ends the transaction like an error, and what the two
share is stated once (`LandedShape`, `Landing`).

## 5. What is left

The two liveness properties, which need a prover for fairness. And `Reading` takes a
transaction as one step because of the refinement: that its steps are `AtomicStore`'s is
argued in section 2, not proved.

## 6. Not modelled

Icechunk's and PyIceberg's internals, beyond what the code relies on. A second
`commit()` after a lost answer, since what Icechunk's session is by then is not
visible here. `is_declared`, which no code of the package calls. A storage error inside `_recover`: like one in
a replay, it publishes nothing. The refusal of a read-only catalog, which is the first
line of each of its writing methods and changes nothing, and the file of a creation given
up, which no version and no log refers to. The exchange of
credentials and the reading of COGs, which libraries do. Chains of IFDs that run
back into themselves. The schema `ingest_batch` reads at the tip (ingest.py:146):
no code of the repository changes a table's schema, so it is always the one the
table was created with. The notebook's display cells.
The catalog methods that only raise `NotImplementedError`.
