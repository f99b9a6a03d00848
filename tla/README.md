# QntyAuthorityRoot: specification and verification

QntyAuthorityRoot is an offline issuer of authority receipts.  Given a request
that stays inside a frozen policy, it signs a receipt with an injected Ed25519
signer and commits it to an append-only SQLite ledger before it returns the
bytes.  On top of that issuer, a script issues short-lived "Ink V0F" grants in a
production root directory.  This directory holds TLA+ models of both, TLC runs
on small instances, and TLAPS proofs for every instance.

## The system

| Component | State | Operations | Interacts with |
|---|---|---|---|
| Issuance policy: `policy.py`, `risk.py`, `ink_v0f_binding.py`, `ink_v0f_grant.py` | none (frozen constants of the checkout) | admission predicate, dust envelope, exact binding, request builder, request id | called by the issuer for new and for stored requests |
| `AuthorityIssuer` (`issuer.py`) | an SQLite database: one `issuer_metadata` row, the `issuances` rows | construct and initialize, `issue`, `get_committed`, `list_committed` | other issuers over the same file, through SQLite's write lock; the injected signer; an optional historical-request validator |
| Epoch-6 successor lane (`scripts/issue_ink_v0f_epoch6_successor_grant.py`) | the lane's database, four exported files per request, temporary files | one run per operator command: inspect history, preflight, issue, verify, export, report | the issuer, the inspector, other runs through the file system |
| Production inspector (`scripts/inspect_ink_v0f_production_state.py`) | none (reads every ledger of the root) | read-only inventory, refusal on an active grant | run as the lane's preflight |
| Epoch-5 lane (`scripts/issue_ink_v0f_epoch5_production_grant.py`) | its own database, four exports under fixed names, temporary files | the same run for one request only; refuses once the checkout is rebound, as it is at this commit | the issuer, the inspector, runs of both lanes through the file system |
| Receipt contract (`contract.py`) | none, but every stored row holds its documents | parse, recompute ids and digests, verify the signature | the issuer and the inspector, on every row they read |
| Canonical JSON (`canon.py`) | none | parse, serialize, digest | all of the above |

What is hard in it: several issuers, of different policies and configurations,
contend for one database; a call may fail, time out or die at any point of its
transaction, before or after the commit; retries must find the receipt of the
first attempt; stored receipts are validated with the policy and identity of the
checkout that reads them, which a rebind replaces; a stored row is seven columns
that repeat one another and are validated by different readers in different
strength; the scripts list and read the ledgers in connections of their own
before the issuer's transaction, hold no lock over their own steps, and publish
four files after the commit, each through a temporary file whose name any other
run of the same request uses too.  Every such hazard is listed in `PROJECT.json`
with the line where it bites and the properties that cover it.

What makes it correct:

- the ledger: serials without gap, one receipt per request id, no two Ink
  grants valid at once, one authority configuration, nothing returned before it
  is durable, everything admissible recoverable, every call ends;
- the policy: no Ink grant outside the reviewed scope and the dust envelope,
  whatever policy object the issuer was given;
- the lanes: grants of a lane succeed one another, the epoch-5 lane keeps to one
  request, a successor is admitted once its predecessors have expired whatever
  they were bound to, an exact retry is refused nowhere on its way to the
  committed grant, a committed grant never fails the checks made after the
  commit, files are published whole, in order and only for committed grants, no
  run touches the temporary file of another before it is published, every run
  ends;
- the receipts: whatever happened to the columns of a row, a receipt that is
  returned was committed, for the request of the id asked for; a row left as it
  was committed is returned whatever happened to the others; an inspection that
  passes has seen exactly the committed receipts.

## Modules

| Module | Models |
|---|---|
| `IssuancePolicy` | policies, requests and the predicates over them, `_validate_committed_receipt` as far as it depends on who reads, the overlap test, and `issue()` for an issuer that is alone (`IssuedFrom`); no variables |
| `IssuancePolicyProofs` | what the policies admit, that the overlap test finds exactly a shared instant, and that an exact retry is idempotent |
| `GrantLedger` | abstract specification of one issuance database: `Configure`, `Grant`, `Answer` |
| `AuthorityIssuer` | `issuer.py` with connections, transactions, failures, timeouts, crashes; implements `GrantLedger` |
| `AuthorityIssuerProofs` | the theorems about it |
| `MCAuthorityIssuer` | instances for TLC |
| `ProductionRoot` | both production scripts with their preflight over one production root; each lane implements `GrantLedger` |
| `ProductionRootProofs` | the theorems about it for any number of concurrent runs |
| `ProductionRootExportProofs` | the theorems about the exported files, and when a failing `chmod` can harm them |
| `ProductionRootSoleRunProofs` | the theorems about it where runs, of one lane or of both, are kept apart |
| `ProductionRootRefusalProofs` | what the scripts do not refuse |
| `ProductionRootConditionProofs` | what the operator has to keep for the statements the scripts do not keep by themselves |
| `MCProductionRoot` | instances for TLC |
| `ReceiptContract` | `contract.py`, the columns of a stored row, and what its readers validate |
| `ReceiptContractProofs` | the theorems about it |
| `MCReceiptContract` | instances for TLC |

`AuthorityIssuer` takes a row for the values it encodes; `ReceiptContract`
justifies that, by taking the row apart.  `ProductionRoot` takes the issuer's
transaction for one step, the operator `IssuedFrom` of `IssuancePolicy`;
`CallsAreAtomic` of `AuthorityIssuer` justifies that, with `LaneIssuersAreIssuers`
for the issuers that the scripts make.

Operators whose comment begins with "Mutant" are not part of the models.  Each
is a plausible bug in the definition that follows it; `PROJECT.json` names the
property that finds it when it takes that definition's place.

### IssuancePolicy

A QntySpot commit and implementation digest are compared together everywhere,
so a pair of them is one `Identity`.  Addresses, venues, networks and roots are
members of small sets, times are natural numbers, a level is 0..4.  Schema
constants, text validation, and digests of frozen objects are left out: they
determine, or are determined by, the values kept.  The binding that the code
keeps in module constants is the parameter `identity`.

### AuthorityIssuer

A process is idle, has an open issuer, or is at one step of a constructor or
call.  `connect` and `begin` wait for `BEGIN IMMEDIATE`; `initialize`, `lookup`,
`scan`, `insert` and `commit` are inside the transaction; `return` is after the
commit, where a crash loses the answer but not the row.  The variable `writer`
is SQLite's write lock.  The bodies of the transaction are separate steps, so
that the lock and not the model's granularity is what excludes interference.
`BusyTimeout` is the end of the 30 seconds of `busy_timeout`; it may happen
whenever the lock is taken.  `Crash` may happen at any step and releases the
lock, as SQLite does for a closed connection or a dead process; with WAL and
`synchronous = FULL` committed rows survive.  A failing signer, a failing commit
and a refusal all roll back.  A stored row stands for its bytes: that they parse
and carry a good signature is kept by the append-only triggers, so the only part
of validation that can fail is the part that depends on who reads, which
`Validates` keeps.  `historical` is the set of requests the injected validator
accepts.  `list_committed` reads without changing anything and is left out.
`answers` is a history variable for the properties.

`IssuedFrom(history, i, rid, r, g)` is the whole of `issue()` as one step: with
these rows committed, issuer `i` answers request `r` under `rid` with row `g`.
The actions of `AuthorityIssuer` are translated from the code one by one and do
not use it; that their interleavings come to the same is the property
`CallsAreAtomic`.

### ProductionRoot

A run of either script goes through `inspect` (the history of its own lane),
`list` and `survey` (the preflight lists the ledgers and then reads them one by
one), `open`, `initialize`, `issue`, `verify`, and for each file `export`,
`create`, `write`, `replace`, `chmod`.  Each is one reading or writing of shared
state.  What the two scripts do alike is one action; where they differ the lane
decides:

- the epoch-5 history is empty or exactly the grant asked for (`Epoch5Admits`),
  and no export may exist before the grant (`NoOrphanExport`); the epoch-6
  history is in order, of the current identity or expired, and a new request
  starts after all of it (`Epoch6Admits`);
- the epoch-5 script compares receipts with an identity it names itself
  (`EPOCH5_IDENTITY`), the epoch-6 script with the checkout's;
- the epoch-5 issuer has no historical validator, the epoch-6 one vouches for
  expired requests of the exact scope;
- the epoch-5 exports have one fixed name each, the epoch-6 exports one for each
  request (`Stem`).

From `export` on it is `_atomic_write_new`.  `tmp[f]` and `file[f]` are the two
directory entries of an export; an entry leads to the rows' content, to the file
a run has open and has not written yet (the value is the run, so that the file
stays its own under whatever name it goes by then), or to `Torn`, what such a run
has left.  `O_EXCL` is the guard of `CreateTemporary`.  `Publish` is `os.replace`:
it moves whatever has the temporary name, which is the run's own file unless
somebody has removed it.  `os.chmod` follows inside the same `try`, as `SetMode`.
`WriteFails` is an exception at any of the three steps; its clean-up unlinks the
temporary name, whatever that leads to by then, and after the `replace` it may be
another run's.  A file that was closed is whole for good: `fsync` precedes the
`replace`, and a power failure that takes back a rename is not modelled.

`database[l]` is `bare` between the creation of the file (`PRAGMA journal_mode =
WAL` writes it) and the schema commit.  `binding` is the preparation the
installed checkout is bound to, V0, V1, ...; `Rebind` moves to the next one, and
never back, as in `ink_v0f_binding.py` where each is a historical constant once
superseded.  A run keeps the identity of the checkout it started from.

At this commit the binding is V10, past the one the epoch-5 script names, so
that script refuses ("historical-only") before it reads history, preflight, key
or ledger, as
`test_epoch5_current_rebind_refuses_before_preflight_key_or_ledger` asserts.  In
the model that is `NotSuperseded`, a guard of `Start`, and
`SupersededLaneIsHistorical` says that it is for good.  What the model shows of
the epoch-5 lane past that guard is about the checkouts that the script issued
under, which share the root with this one: the model starts from any
preparation, and a run whose configuration binds the first one
(`lane_sequential`, `lane_concurrent`, `overlapping_ledgers`) begins in such a
checkout.  No statement about this commit alone rests on an epoch-5 run.  The
ledgers of epochs before 5 hold no Ink grants; all the inspector takes from them
is that a ledger of the pinned configuration exists (`CompatibleLedger`).  The
issue time is whatever the operator types, as in the code: nothing compares it
with a clock.  The private key, the public anchor, the trust configuration and
file modes only decide whether a run ends early, which `Crash` covers at every
step.

### ReceiptContract

A document is a record of the fields of `to_object`, a digest is a wrapper of
what was digested, a signature is a pair of a key and a message: SHA-256 has no
collisions and Ed25519 cannot be forged, and nothing else is assumed of them.
`Commit` is `issue`; `Damage` is done by the environment: `Lose`, `Copy`,
`Exchange` and `Splice` are the ways in which a column may come to differ from
what was committed, following the damage that `tests/test_ledger.py` does to
single columns: a column is lost, holds what another row holds, two rows hold
each other's value, or one field of a receipt is that of another row's receipt.
PRIMARY KEY and UNIQUE columns stay unique, as SQLite's indices keep them.  The
three readers of a row differ: `ValidatesFor` (`_validate_committed_receipt`,
behind `get_committed`, the retry and the scan) compares the request record,
`Reads` (the inspector and the history inspections) only the receipt with three
columns.

The issuer is one, with atomic calls; the loss of a whole row is not modelled
(nothing in a row says how many there were, and the triggers refuse a deletion),
so "every committed receipt" is to be read as every one whose row is still
there; and `list_committed`, which validates nothing, promises nothing here.

## Runs

| Run | Configuration | Instance | Shows |
|---|---|---|---|
| `issuer_safety` | `AuthorityIssuer.cfg` | 2 processes, 3 request ids, 7 requests, 4 issuers | the safety properties of the issuer, refinement of `GrantLedger` included |
| `issuer_liveness` | `AuthorityIssuerLiveness.cfg` | 2 processes, 2 request ids, 7 requests, 2 issuers | `CallsEnd`, and `CallsAreAtomic` where two issuers contend for the lock |
| `receipts_ink` | `ReceiptContractInk.cfg` | 3 Ink rows, up to 2 damaged columns or fields | `InkReadsAreExact`, `IntactRowsAreReturned`, `InspectionIsExact`, `InkGrowsOnGenuineHistory` |
| `receipts_legacy` | `ReceiptContractLegacy.cfg` | 2 legacy rows, also of one request under two ids, up to 4 damages | `ReadsAreGenuine`, `ReadsAreExact` |
| `lane_sequential` | `ProductionRootSequential.cfg` | 1 run of either lane at a time, 4 issue times, 2 preparations, 2 files | succession, the epoch-5 lane's one request, reports and their files, that exact retries and successors are refused nowhere, no lane's grant begins inside the other's and the superseded lane is closed for good, across crashes and a rebind |
| `lane_concurrent` | `ProductionRootConcurrent.cfg` | 2 runs of either lane, 2 issue times whose grants touch, 1 file | each lane implements `GrantLedger` without any exclusion between runs |
| `lane_liveness` | `ProductionRootLiveness.cfg` | 2 runs of the epoch-6 lane, epoch 5 closed as at this commit, 2 issue times whose grants overlap, 2 preparations, 2 files | `RunsEnd` and the variant behind it, `RunsShorten`; no overlap in the lane, `CommittedGrantsVerify` with runs of two identities in progress at once, and what holds of the exported files while two runs write them and any step may fail |
| `backdated_successor` | `BackdatedSuccessor.cfg` | 2 runs | violation, see below |
| `overlapping_ledgers` | `OverlappingLedgers.cfg` | 1 run at a time, both lanes | violation, see below |
| `stale_temporary` | `StaleTemporary.cfg` | 1 run at a time | violation, see below |
| `torn_export` | `TornExport.cfg` | 3 runs of the epoch-6 lane for one request, 1 file | violation, see below |
| `bare_database` | `BareDatabase.cfg` | 1 run at a time | violation, see below |

Why the bounds are enough.  Two processes suffice for a race on one lock or one
directory; a third repeats the second everywhere but in `_atomic_write_new`,
where a failing `chmod` needs it to do harm: `torn_export` has three.  Three
request ids give serials 1 to 3, so a new row can meet one before and one after
it.  The requests contain a pair that overlaps, a pair that touches at an end,
the same interval under two identities, another network, and two that must be
refused.  The issuers contain every reason for which a stored row fails to
validate: another identity, another policy, another configuration, and a
validator that vouches for exactly one row.  With grants of length 2, two issue
times hold a pair that overlaps or a pair that touches, and the four of
`lane_sequential` (1, 2, 3, 5) hold both and separate grants as well, where the
predecessor of a predecessor matters.  Two files are enough to interleave
publications and to stop between them; the scripts' four repeat the same step.
The two-process runs of `ProductionRoot` share the questions between two
instances because one with both lanes, more issue times, a rebind and two files
is too large.  Refinement is checked where both lanes run and a grant may begin
as another ends; one file is there for the steps after the commit.  The rebind,
the files, their order and the variant are checked where one lane runs, as at
this commit, and where one of two grants has to be refused.  All their safety
properties are proved for every instance (see Proofs), both lanes and any number
of runs included, three of them on a premise about a failing `chmod` that two
runs cannot break; only `RunsEnd` rests on the instance, and `RunsShorten`
covers what the instance leaves out.

In `receipts_ink`, three rows are needed for a receipt that is doubled while
another is lost and a third is intact, and two damages for the combinations that
no single column shows.  In `receipts_legacy`, four damages are one more than
`ReadsAreExact` needs to be refuted without its bound: the bound `damaged < 3`
is tight.  `MaxRows` and `MaxDamage` are guards of `Commit` and `Damage`.  No
other variable is unbounded: rows are bounded by request ids, so no other guard
is added for the model's sake.

Deadlock is checked in every run but the two of `ReceiptContract`, where the
bounded numbers of rows and damages run out.

Symmetry under exchange of processes, or of request ids, is used where only
safety is checked.

### Fairness

Both `FairSpec`s ask weak fairness of each process's own steps once a call or a
run has begun: the operating system schedules a runnable process, and the busy
timeout is finite.  They ask nothing of `Construct`, `Issue`, `GetCommitted` and
`Start`, which callers and operators choose, nor of `Rebind`, nor do they forbid
crashes.  `CallsEnd` and `RunsEnd` say that again and again no call or run is in
progress, which is the same as that each one ends: one that never did would
leave its process in progress for good.  `CallsEnd` rests on the timeout: a
version that waits for the lock without end violates it, since nothing makes
SQLite's lock fair.  `RunsEnd` rests on `O_EXCL` failing at once where a dead
run left a temporary file.  Its safety half is stated without fairness as
`RunsShorten`: every step a run takes, a refusal included, lowers `Remaining`, a
natural number made of the step it is at, the ledgers it has not read and the
files it has not published.

### Disagreements between documents and code

Five runs show a statement of the governance documents that the code does not
keep.  They are listed under "findings" in `PROJECT.json` with quotations.

1. `backdated_successor`: the epoch-6 script decides outside the issuer's
   transaction that a new request starts after the last expiry.  Two concurrent
   runs can commit out of order, and every later run then refuses the history.
2. `overlapping_ledgers`: the preflight looks for grants of other ledgers at the
   instant of the issue time only, so an interval that begins before another
   ledger's grant may reach into it.
3. `stale_temporary`: a temporary export left by a killed run stops every exact
   retry.
4. `bare_database`: a database file without tables, left by a killed first run,
   stops every later run.
5. `torn_export`: `os.chmod` stands after `os.replace` in one `try`, so when it
   fails the clean-up unlinks a name that is no longer the run's.  If a second exact
   retry has created its temporary file there, a third can create one anew, and the
   second publishes the third's, unfinished.  Nothing replaces a torn export, and
   every later retry is refused over it.

`EpochFiveHoldsOneRequest` and `ReportsAreExported` are properties of one run at a
time in the epoch-5 lane, where the rows are counted outside the issuer's
transaction and the names of the files are fixed.  At this commit no epoch-5 run
comes so far.

The passing runs state the same matters as the code guarantees them:
`SuccessorsStartAfterExpiry`, `EpochFiveHoldsOneRequest` and
`ReportsAreExported` with one run at a time, `ExactRetryFindsItsFiles` with two,
`NoGrantBeginsInsideAnothers` at the instant the inspector looks at,
`ExactRetryIsNotRefused` unless a temporary file is in the way,
`SuccessorIsNotRefused` unless the database is bare.  What an operator has to
keep for each of the five statements is proved, see
`ProductionRootConditionProofs` and `ProductionRootExportProofs`.

## Proofs

Everything here is proved for every value of the constants: every set of
processes, issuers, request ids, requests, issue times, preparations and number
of files or damages.  The assumptions on constants are
`PolicyConstantsAssumption` (the frozen constants are well-formed),
`IssuerAssumption` (what `__init__` and the dataclasses check), `RootAssumption`
(a grant's duration is within the envelope's; no two preparations have one
identity), `ReceiptAssumption`, and `JunkAssumption` (what decodes to nothing is
not what `issue()` encodes); besides, that `None` is none of the values it stands
in for.  `CompatibleLedger` (a ledger of the pinned configuration exists) is a
premise of the theorems about refusals.

What an operator has to keep is a temporal premise of the theorem that needs it,
never a bound on a constant: `[]RunsAlone(l)` (no run of lane `l` begins before
the one before it has ended or died), `[]OneRunAtATime` (the same for both
lanes together), and action premises on issue times and crashes.  The model
itself allows everything else.  Each premise is kept by behaviours that issue,
crash, retry and rebind: `lane_sequential` explores those of one run at a time.

### AuthorityIssuerProofs

Proved: type correctness, the six safety invariants of `issuer_safety`, the
refinement of `GrantLedger`, and that calls are atomic.

None of the invariants is inductive.  That two grants never overlap depends on
what a call learned in its scan, and that this is still true at its commit
depends on the lock.  `Invariant` therefore has four parts besides the types:
`Control` (the lock is held by exactly the process inside a transaction, and an
open issuer's configuration is the database's), `Knowledge` (what each step has
established: the request id is unused, nothing overlaps, the row to commit is
committed already or may be added), `History` (what the rows have in common),
and `Answered` (what was returned is in the history).  The lemma `OwnStep`
reduces a step that leaves both tables alone to the share of the process that
takes it, so each action needs only its own `ControlOf` and `Knows`; `Commit` and
`InitializeDatabase`, which write a table, have proofs of their own.  The
cardinality of the rows enters only through `NextSerialIsNext`.

The ledger says what is committed, not who is given what and who is refused.
`CallsStayAtomic` does: the row that a call is about to commit is what `issue()`
makes of the rows committed now, under the policy and identity of that issuer, and
a call that its own lookup or scan refuses has no receipt under `IssuedFrom`.  The
first half is part of `Knows`: the lookup and the scan establish it, and the lock
keeps it true up to the commit.  The second rests on `History`: one request id has
one row, so a row that fails is the only one.

### IssuancePolicyProofs

`OverlapIsSharedInstant`: the code compares the larger begin with the smaller
end of two half-open intervals; for non-empty intervals of times that is the
same as a second at which `assert_valid_at` accepts both.  It makes "no overlap"
mean what a consumer sees (`OneGrantOfALaneAtATime`).

Three theorems say what the policies, envelope and binding admit together.  A
caller may build an issuer with a policy of its own: `ReviewedPolicyIsWidest`
says that none admits an Ink request the reviewed policy does not.
`InkRequestsHaveOneShape`: an admitted Ink request is one that
`build_ink_v0f_request` builds, but for an issue time that may be any second of
its interval.  `BuiltRequestsAreOwn`: what is built for one identity is admitted
under that identity only, so that a rebind revokes everything before it.

`RetriesAreIdempotent` is about `IssuedFrom`: whatever is committed between a call
and its exact retry, by whatever issuers, an issuer of the same policy and
identity is given the first call's receipt and no other, and is not refused.  It
needs no more than that no request id is used twice, which the ledger keeps.

### ProductionRootProofs

Proved for any number of concurrent runs: type correctness,
`LaneGrantsNeverOverlap`, `CommittedGrantsVerify`,
`TemporaryIsOwnedUntilPublished`, `ExportsAppearWhole`, `RunsShorten`,
`SupersededLaneIsHistorical`, and the refinement of `GrantLedger` by each lane.

There is no lock to argue from.  Instead the root only grows: rows stay, an
initialized database stays, a published file stays a published file
(`RootGrows`).  `Knows(p)` is what a run has established by the step it is at
(the row it read or issued is committed, the files before its next one are in
place), and it is stated so that growth keeps it true, which is
`OthersStillKnow`.  `OwnStep` then reduces an action to the run that takes it.
`History` (serials, request ids, disjoint intervals), `Published` and `Reports`
are the parts about shared state; only `Issue`, `Publish` and `Report` change
what they speak of.  That a grant does not overlap needs no knowledge from
before the transaction: `Issues` reads the rows at the commit.  The refinement
goes through `LaneStep`, the step of a ledger in the words of `ProductionRoot`,
of which the steps of the two instances are the same formula.

`Entries` says what the directory entries lead to: the content of a committed row,
or a file that the run writing that very export has open.  With it
`TemporaryIsOwnedUntilPublished` is inductive.  A clean-up that meets the file of
another run comes from a run past its `replace`, and then the export is there
(`Knows`); while it is not there, whoever writes has created the temporary file,
and `O_EXCL` let nobody else.  `ExportsAppearWhole` follows: the first to publish
publishes its own, closed file.  `RunsShorten` needs the range of
`Remaining` (`RemainingFacts`), in which the ledgers not yet read count: the
survey takes one of them away at each step.  `SupersededLaneIsHistorical` rests
on two facts: a run writes only what is its own lane's (`StepKeepsToItsLane`),
and a rebind never comes back to an identity (`SupersededStays`).

`LaneIssuersAreIssuers` joins the two halves of the project: what
`IssuerAssumption` asks of issuers and requests is true of those that the
scripts make, for every lane, identity and issue time.  Each lane's database is
therefore one that the theorems of `AuthorityIssuerProofs` speak of, and the one
step `Issue` of `ProductionRoot` is what they show a call to be.

### ProductionRootExportProofs

`SuccessorReportsAreExported`, `ExportsFollowTheLedger` and
`ExactRetryFindsItsFiles` are about what stays in the files, and `torn_export`
shows that a clean-up can spoil it.  They are proved on the premise
`[][~CrowdedCleanUp]_vars`: no run cleans up after its `replace` while a second
is writing the same export and a third is about to create the temporary file.
That is exactly what the counterexample needs.  If only the second is there, its
file is gone, but the export is whole already and nobody can put another file in
its place: the second run's `replace` finds nothing and it ends (`Lost`).
`Whole` is the invariant: every file is a committed row, and a run that is
writing either has its temporary file or has lost it.  `TwoRunsExportSafely`
discharges the premise where there are never more than two runs.

### ProductionRootSoleRunProofs

The scripts decide on what they read before the issuer's transaction, which is
sound for an operator who keeps runs apart and for no one else; the violation
runs show that.  Which runs have to be kept apart depends on the property:

- `SuccessorsStartAfterExpiry` those of the epoch-6 lane,
- `EpochFiveHoldsOneRequest` and `ReportsAreExported` those of the epoch-5 lane
  (the second also on the premise about a failing `chmod` in the epoch-6 lane),
- `NoGrantBeginsInsideAnothers` all of them,

with crashes at every step, rebinds in the middle of a run, and the runs of the
other lane interleaving at will in the first two.  `LaneInvariant(l)` is the
inductive part for one lane, and `LaneNext` its step.

`SoleInvariant` adds to `Invariant` the properties themselves and what the run
has read: from the inspection to the commit the history it did not refuse is
still the lane's (`HistoryStands`), and every grant active in a ledger it has
read, or that was not there when it listed them, has been seen, so that past the
preflight nothing is active in the other lane (`SurveyStands`).  A grant that the
preflight takes for the run's own is in its own lane because receipts repeat
their epoch.

### ProductionRootRefusalProofs

`SuccessorIsNotRefused` and `ExactRetryIsNotRefused`, by showing each of the
five refusals out of reach, under `CompatibleLedger` (without a ledger of an
earlier epoch the preflight refuses everything).  The first needs no more than
that the lane's grants follow one another (`OrderedLaneTakesSuccessors`), hence
only that the runs of the lane are kept apart; the second has the premise
`OneRunAtATime`. Two more things are needed.  `Seen` and `Remembered`: the run
has seen nothing but what is active at its issue time, and it holds the receipt
of its request id if there is one.  `BoundInOrder`: the grants of the epoch-6
lane are bound to the preparations in the order of these, since a rebind never
goes back.  It is what lets a retry pass its own history: the grants before the
one asked for have expired by its issue time, and those after it, which have
not, are bound to the same checkout.

### ProductionRootConditionProofs

The violation runs refute statements of the governance documents.  The theorems
here say what an operator has to keep for each of them to be true again:

| Statement | Refuted by | Holds where |
|---|---|---|
| `SuccessorsStartAfterExpiry` | `backdated_successor` | the runs of the lane are kept apart (`SuccessorsWaitForExpiry`), or its issue times never go back (`AdvancingSuccessorsWait`), however runs race |
| `NoOverlappingLiveGrant` | `overlapping_ledgers` | runs are kept apart and the issue times of the two lanes together never go back (`AdvancingLanesStayApart`) |
| `ExactRetryIsIdempotent` | `stale_temporary` | no run dies between the creation of a temporary file and its clean-up (`CompletedWritesLeaveRetriesFree`) |
| `NewRequestAfterPriorExpiryIsAllowed` | `bare_database` | no run ends between the creation of the database file and its tables, and one of the premises of the first row (`PriorExpiryAllowsNewRequest`) |
| `ExactRetryFindsItsFiles` | `torn_export` | no clean-up after a `replace` meets two other runs at the same export (`SuccessorsFindTheirFiles`), or there are never more than two runs (`TwoRunsExportSafely`), both in `ProductionRootExportProofs` |

That issue times advance helps because the issuer's transaction itself refuses an
overlap: of two grants that share no second the one that begins first ends first
(`EarlierEndsFirst`).  For the other lane, which that transaction does not read,
the preflight has to be trusted, hence `OneRunAtATime`.  The conditions on crashes
become invariants: a temporary file has a run that is writing it
(`TemporariesHaveWriters`), a bare database one that is about to initialize it
(`BareIsTransient`).

### ReceiptContractProofs

Proved for any number of rows: type correctness, `ReadsAreGenuine`,
`InspectionIsExact`, `InkGrowsOnGenuineHistory`, `InkReadsAreExact` and
`IntactRowsAreReturned` for any number of damages, `ReadsAreExact` for the two
that it speaks of.

None is inductive: what a row with a damaged column validates as depends on
where its other columns can have come from.  `IInv` says that of every record
and of every signature found in a row, wherever it was moved
(`RecordsAreCommitted`, `SignaturesAreCommitted`), and that unique columns are
unique.  A signature determines its document
(`SignatureDeterminesDocument`), so a receipt that verifies is a committed one.
The inspection sees as many receipts as were committed, no two alike because
receipt ids are unique, hence all of them: the pigeonhole principle for
sequences of one length.  `InkReadsAreExact` needs in addition that no two
committed Ink requests overlap (`InkApart`), so that one request cannot have
been granted under two ids.

`ReadsAreExact` is about ledgers that grant one request under two ids, where no
such argument helps.  It rests on `Differences`: a row differs from what was
committed in its place in at most as many columns as there were damages.  A row
that is returned for the id of another row has that id, its record and the digest
of it; one that is returned with another receipt under its own id has that
receipt, its receipt id, and the serial or else the record (`ReturnedRow`).
Either way three columns differ, and three are enough: the bound is tight.

### Only model-checked

Liveness: `CallsEnd` and `RunsEnd` are outside the prover's reach, which has
neither ENABLED nor fairness; of `RunsEnd` the safety half, `RunsShorten`, is
proved, and what is left to TLC is that a run in progress always has a step.
Every invariant and every other action property of the passing runs is proved.

## Not modelled

Text and byte formats: canonical JSON, the syntax of digests and identifiers, PEM
keys.  They have no state, and properties of them are about characters.
Declarations (`errors.py`, `__init__.py`).  The governance artifacts, their
tests, and the qualification rehearsals of another repository's runtime.  Schema
migration: the code knows one schema version.  The loss of a whole row or of the
database file.  The command line, the clock, key files and file modes of the
scripts.

## Plan

Done: `IssuancePolicy`, `GrantLedger`, `AuthorityIssuer`, `ProductionRoot` with
both lanes and the rebind, `ReceiptContract`, the composition of `AuthorityIssuer`
and `ProductionRoot` through `IssuedFrom`, and the proofs above.

Left: several issuers with damaged rows between them, if a consumer of
`list_committed` ever relies on what it returns.
