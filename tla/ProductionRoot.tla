--------------------------- MODULE ProductionRoot ---------------------------
(***************************************************************************)
(* The production root directory and the two lanes that issue Ink grants   *)
(* in it: issue_ink_v0f_epoch5_production_grant.py, which issues one grant *)
(* and is closed by a rebind, and issue_ink_v0f_epoch6_successor_grant.py, *)
(* which issues one grant after another.  Both run the production          *)
(* inspector as their preflight and issue through issue_ink_v0f_grant.     *)
(*                                                                         *)
(* An operator runs a script with an explicit issue time; a run reads its  *)
(* lane's history, reads every ledger of the root, opens the lane's        *)
(* database through an AuthorityIssuer, issues, and writes four files.     *)
(* Nothing is held between these steps: runs interleave, and a run may end *)
(* at any of them.  What the issuer does inside its write transaction is   *)
(* one step here, IssuedFrom, which AuthorityIssuer shows it to be worth   *)
(* (CallsAreAtomic).                                                       *)
(*                                                                         *)
(* The checkout in use is bound to one of the reviewed preparations;       *)
(* "binding" says which, and a rebind moves on to the next one for the     *)
(* runs that start afterwards.                                             *)
(***************************************************************************)
EXTENDS IssuancePolicy, Sequences

CONSTANTS
  Proc,             \* places a run of a script may take place in
  Preparations,     \* identities of V0, V1, ... of the grant preparation
  IssuedAt,         \* values of --issued-at-epoch-s
  DURATION_S,
  OlderEpoch,       \* epochs before 5 with a ledger, without Ink grants
  EPOCH5_IDENTITY,  \* the identity the epoch-5 script names
  HISTORICAL_EPOCH6_SERIAL1, \* the request of the epoch-6 lane's first grant
  EXPECTED_PUBLIC_KEY,
  LastExport,       \* a run exports the files 1 .. LastExport
  None,             \* no run, no row, no file, no metadata
  Torn              \* what a run has left of a file it did not finish writing

EPOCH5 == 5
EPOCH6 == 6
Lane == {EPOCH5, EPOCH6}

\* What issue_ink_v0f_grant builds for a checkout and an issue time.
InkRequest(identity, t) == BuildInkRequest(identity, t, DURATION_S)
RequestIdOf(t) == InkRequestId(t, DURATION_S)

LaneRequests == {InkRequest(i, t) : i \in Identity, t \in IssuedAt}

\* The authority configuration of a lane's ledger; the trust configuration
\* (key, minimum epoch, version) is pinned by the scripts.
MetadataOf(l) ==
  [root |-> INK_V0F_AUTHORITY_ROOT_ID, key |-> EXPECTED_PUBLIC_KEY, epoch |-> l,
   minimumEpoch |-> 1, configVersion |-> 1]

\* A row names its lane: its receipt repeats the epoch it was signed under.
Row == [rid : {RequestIdOf(t) : t \in IssuedAt}, request : LaneRequests,
        serial : Nat \ {0}, metadata : {MetadataOf(l) : l \in Lane}]

ASSUME RootAssumption ==
  /\ IssuedAt \subseteq Nat \ {0}
  /\ DURATION_S \in 1..INK_V0F_MAX_GRANT_DURATION_S
  /\ OlderEpoch \subseteq 1..4
  /\ EPOCH5_IDENTITY \in Identity
  /\ EXPECTED_PUBLIC_KEY \in STRING
  /\ HISTORICAL_EPOCH6_SERIAL1 \in LaneRequests
  /\ LastExport \in Nat
  /\ Preparations \in Seq(Identity) /\ Preparations # <<>>
  /\ \A m, n \in DOMAIN Preparations :
       Preparations[m] = Preparations[n] => m = n
  /\ None \notin Row /\ None \notin Lane
  /\ None \notin {MetadataOf(l) : l \in Lane}
  /\ Torn \notin Row /\ Torn # None
  /\ Proc \cap (Row \cup {None, Torn}) = {}

\* The files a run exports, in the order it writes them: the receipt, its
\* digest, the issuance record, its digest.  The scripts have these four; the
\* number is a parameter.
Exports == 1..LastExport

\* What a file is named after: the epoch-5 script has one fixed name for each
\* of the four, the epoch-6 script one for each request.
Stem(l, t) == IF l = EPOCH5 THEN 0 ELSE t

File == {<<l, Stem(l, t), k>> : l \in Lane, t \in IssuedAt, k \in Exports}

\* What a directory entry leads to: nothing, a file with the content made from
\* a grant, one that a run has open and has not written yet, or a torn one.
\* The open file is the run's under whatever name it goes by then.
Content == {None, Torn} \cup Row \cup Proc

VARIABLES
  binding,   \* the preparation the installed checkout is bound to
  database,  \* database[l]: the lane's file: absent, bare (no table) or ready
  issuances, \* issuances[l]: its committed rows
  run,       \* run[p]: the run in progress at p
  file,      \* file[f]: what is exported under the name
  tmp,       \* tmp[f]: what is under its temporary name
  reported   \* history: the grants that runs have reported

BoundIdentity == Preparations[binding]

root == <<database, issuances, file, tmp>>
vars == <<binding, database, issuances, run, file, tmp, reported>>

\* The steps of a run, in order; "survey" repeats for each ledger, "export"
\* and the steps after it for each file.
Steps == {"idle", "inspect", "list", "survey", "open", "initialize", "issue",
          "verify", "export", "create", "write", "replace", "chmod"}

Run == [pc : Steps, lane : Lane \cup {None}, issuedAt : IssuedAt \cup {None},
        identity : Identity \cup {None},
        before : Row \cup {None},  \* committed_before
        unread : SUBSET Lane,      \* ledgers listed and not read yet
        active : SUBSET Row,       \* active_ink_grants
        row : Row \cup {None},     \* the receipt issued or recovered
        next : 1..LastExport + 1]  \* the next file to export

Idle == [pc |-> "idle", lane |-> None, issuedAt |-> None, identity |-> None,
         before |-> None, unread |-> {}, active |-> {}, row |-> None, next |-> 1]

TypeOK ==
  /\ binding \in DOMAIN Preparations
  /\ database \in [Lane -> {"absent", "bare", "ready"}]
  /\ issuances \in [Lane -> SUBSET Row]
  /\ run \in [Proc -> Run]
  /\ file \in [File -> Content]
  /\ tmp \in [File -> Content]
  /\ reported \subseteq Row

Init ==
  /\ binding \in DOMAIN Preparations
  /\ database = [l \in Lane |-> "absent"]
  /\ issuances = [l \in Lane |-> {}]
  /\ run = [p \in Proc |-> Idle]
  /\ file = [f \in File |-> None]
  /\ tmp = [f \in File |-> None]
  /\ reported = {}

Goto(p, step) == run' = [run EXCEPT ![p].pc = step]

\* The script prints REFUSED and exits; the root keeps what it has.
Refuse(p) ==
  /\ run' = [run EXCEPT ![p] = Idle]
  /\ UNCHANGED <<binding, root, reported>>

-----------------------------------------------------------------------------
(* Checkouts and runs                                                      *)

\* A reviewed change of ink_v0f_binding.py is installed: the preparation in
\* force becomes a historical one, for good.
Rebind ==
  /\ binding + 1 \in DOMAIN Preparations
  /\ binding' = binding + 1
  /\ UNCHANGED <<root, run, reported>>

\* Mutant: the bound identity is not compared.
NotComparedWithBinding(l) == l \in Lane

\* _assert_epoch5_lane_not_superseded.  At this commit the binding is past the
\* identity the epoch-5 script names, so that script ends here, before it reads
\* anything; where the two agree, the checkout is one of those it issued under.
NotSuperseded(l) == l = EPOCH5 => BoundIdentity = EPOCH5_IDENTITY

Start(p, l, t) ==
  /\ run[p].pc = "idle"
  /\ NotSuperseded(l)
  /\ run' = [run EXCEPT ![p] =
       [Idle EXCEPT !.pc = "inspect", !.lane = l, !.issuedAt = t,
                    !.identity = BoundIdentity]]
  /\ UNCHANGED <<binding, root, reported>>

-----------------------------------------------------------------------------
(* _inspect_epoch5_history, _inspect_epoch6_history                        *)

\* _assert_exact_receipt, _assert_scope.
IsCurrent(g, identity) == g.request.scope = GrantPreparation(identity)

IsHistorical(g, t) ==
  \/ g.serial = 1 /\ g.request = HISTORICAL_EPOCH6_SERIAL1
  \/ g.request.notAfter <= t

\* The epoch-5 script compares receipts with the identity it names itself, the
\* epoch-6 script with the checkout's.
ReviewedIdentity(l, identity) == IF l = EPOCH5 THEN EPOCH5_IDENTITY ELSE identity

ExactRows(l, t) == {g \in issuances[l] : g.rid = RequestIdOf(t)}

\* Mutant: rows of other requests do not matter.
Epoch5AdmitsForeign(t) ==
  \A g \in ExactRows(EPOCH5, t) : g.request = InkRequest(EPOCH5_IDENTITY, t)

\* The epoch-5 lane is empty, or holds exactly the grant asked for.
Epoch5Admits(t) ==
  \A g \in issuances[EPOCH5] :
    /\ issuances[EPOCH5] = {g}
    /\ g.rid = RequestIdOf(t)
    /\ g.request = InkRequest(EPOCH5_IDENTITY, t)

\* No row begins before the row with the serial before it has expired.
HistoryInOrder ==
  \A g, h \in issuances[EPOCH6] :
    h.serial = g.serial + 1 => g.request.notAfter <= h.request.notBefore

\* Mutant: an issue time before the last expiry is let through.
Epoch6AdmitsBackdated(identity, t) ==
  /\ \A g \in issuances[EPOCH6] : IsCurrent(g, identity) \/ IsHistorical(g, t)
  /\ HistoryInOrder
  /\ \A g \in ExactRows(EPOCH6, t) : IsCurrent(g, identity)

\* The epoch-6 lane holds current or historical grants in order, and a new
\* one starts after the last of them.
Epoch6Admits(identity, t) ==
  /\ \A g \in issuances[EPOCH6] : IsCurrent(g, identity) \/ IsHistorical(g, t)
  /\ HistoryInOrder
  /\ \A g \in ExactRows(EPOCH6, t) : IsCurrent(g, identity)
  /\ ExactRows(EPOCH6, t) = {} =>
       \A g \in issuances[EPOCH6] : g.request.notAfter <= t

\* The history a run with this identity and issue time does not refuse.
HistoryAdmits(l, identity, t) ==
  \/ database[l] = "absent"
  \/ /\ database[l] = "ready"
     /\ l = EPOCH5 => Epoch5Admits(t)
     /\ l = EPOCH6 => Epoch6Admits(identity, t)

\* committed_before: the receipt already committed under the request id.
InspectHistory(p) ==
  LET l == run[p].lane
      t == run[p].issuedAt
  IN  /\ run[p].pc = "inspect"
      /\ HistoryAdmits(l, run[p].identity, t)
      /\ \E before \in IF ExactRows(l, t) = {} THEN {None} ELSE ExactRows(l, t) :
           run' = [run EXCEPT ![p].pc = "list", ![p].before = before]
      /\ UNCHANGED <<binding, root, reported>>

InspectHistoryRefuses(p) ==
  /\ run[p].pc = "inspect"
  /\ ~HistoryAdmits(run[p].lane, run[p].identity, run[p].issuedAt)
  /\ Refuse(p)

-----------------------------------------------------------------------------
(* inspect_production_root, as the preflight of a run                      *)

\* A ledger of the pinned configuration is found.  Where there is none of an
\* earlier epoch no run gets past its preflight, so there never is one.
CompatibleLedger == OlderEpoch # {}

\* The grants of a lane that are valid at an instant.
ActiveIn(l, now) == {g \in issuances[l] : ActiveAt(g.request, now)}

ActiveGrants(now) == UNION {ActiveIn(l, now) : l \in Lane}

\* The ledgers are listed once, before the first is read.
ListLedgers(p) ==
  /\ run[p].pc = "list"
  /\ run' = [run EXCEPT ![p].pc = "survey",
                        ![p].unread = {l \in Lane : database[l] # "absent"}]
  /\ UNCHANGED <<binding, root, reported>>

\* Mutant: the inspector reads the ledger of the lane only.
SurveyOwnLedger(p) ==
  /\ run[p].pc = "survey"
  /\ run[p].unread # {}
  /\ run' = [run EXCEPT
       ![p].unread = {},
       ![p].active = @ \cup ActiveIn(run[p].lane, run[p].issuedAt)]
  /\ UNCHANGED <<binding, root, reported>>

\* Each listed ledger is read in a connection of its own, in path order.
SurveyLedger(p) ==
  LET l == Min(run[p].unread)
  IN  /\ run[p].pc = "survey"
      /\ run[p].unread # {}
      /\ run' = [run EXCEPT
           ![p].unread = @ \ {l},
           ![p].active = @ \cup ActiveIn(l, run[p].issuedAt)]
      /\ UNCHANGED <<binding, root, reported>>

\* A grant that is active at the issue time is the very one this run is
\* about to recover from its lane's ledger.
ActiveIsOwn(l, t, before, active) ==
  active # {} =>
    /\ before # None
    /\ \E g \in active :
         active = {g} /\ g.rid = RequestIdOf(t) /\ g.metadata = MetadataOf(l)

\* "orphan epoch-5 export exists before issuance".
NoOrphanExport(l, before) ==
  l = EPOCH5 /\ before = None =>
    \A k \in Exports : file[<<EPOCH5, 0, k>>] = None

PreflightAdmits(p) ==
  /\ CompatibleLedger
  /\ ActiveIsOwn(run[p].lane, run[p].issuedAt, run[p].before, run[p].active)
  /\ NoOrphanExport(run[p].lane, run[p].before)

Preflight(p) ==
  /\ run[p].pc = "survey"
  /\ run[p].unread = {}
  /\ PreflightAdmits(p)
  /\ run' = [run EXCEPT ![p].pc = "open", ![p].active = {}]
  /\ UNCHANGED <<binding, root, reported>>

PreflightRefuses(p) ==
  /\ run[p].pc = "survey"
  /\ run[p].unread = {}
  /\ ~PreflightAdmits(p)
  /\ Refuse(p)

-----------------------------------------------------------------------------
(* issue_ink_v0f_grant                                                     *)

\* The issuer's connection creates the database file, without a table.
OpenDatabase(p) ==
  /\ run[p].pc = "open"
  /\ database' = [database EXCEPT ![run[p].lane] =
                    IF @ = "absent" THEN "bare" ELSE @]
  /\ Goto(p, "initialize")
  /\ UNCHANGED <<binding, issuances, file, tmp, reported>>

\* Tables, triggers and the metadata row, in one transaction.
InitializeDatabase(p) ==
  /\ run[p].pc = "initialize"
  /\ database' = [database EXCEPT ![run[p].lane] = "ready"]
  /\ Goto(p, "issue")
  /\ UNCHANGED <<binding, issuances, file, tmp, reported>>

\* Mutant: no historical_request_validator in either lane.
LaneIssuerWithoutHistory(l, identity, t) ==
  [policy |-> InkIssuerPolicy, identity |-> identity,
   metadata |-> MetadataOf(l), historical |-> {}]

\* The AuthorityIssuer a run makes.  In the epoch-6 lane,
\* _allow_expired_historical_epoch6_request vouches for requests of the exact
\* scope, whatever identity they were bound to, that have expired by the new
\* issue time.
LaneIssuer(l, identity, t) ==
  [policy |-> InkIssuerPolicy, identity |-> identity,
   metadata |-> MetadataOf(l),
   historical |-> {r \in LaneRequests : l = EPOCH6 /\ r.notAfter <= t}]

NewRow(l, identity, t) ==
  RowAfter(issuances[l], LaneIssuer(l, identity, t), RequestIdOf(t),
           InkRequest(identity, t))

\* Mutant: the prior rows are not looked at.
IssuesUnscanned(l, identity, t, g) ==
  LET i == LaneIssuer(l, identity, t)
      r == InkRequest(identity, t)
  IN  /\ Admissible(i.policy, i.identity, r)
      /\ IF ExactRows(l, t) = {}
           THEN g = NewRow(l, identity, t)
           ELSE g \in ExactRows(l, t) /\ g.request = r /\ Validates(i, g, FALSE)

\* Mutant: a retry issues a grant of its own.
IssuesAnew(l, identity, t, g) ==
  LET i == LaneIssuer(l, identity, t)
      r == InkRequest(identity, t)
  IN  /\ Admissible(i.policy, i.identity, r)
      /\ \A h \in issuances[l] \ ExactRows(l, t) : Permits(i, h, r)
      /\ g = NewRow(l, identity, t)

\* Mutant: a committed row is returned as it is found.
IssuesAsFound(l, identity, t, g) ==
  LET i == LaneIssuer(l, identity, t)
      r == InkRequest(identity, t)
  IN  /\ Admissible(i.policy, i.identity, r)
      /\ IF ExactRows(l, t) = {}
           THEN /\ \A h \in issuances[l] : Permits(i, h, r)
                /\ g = NewRow(l, identity, t)
           ELSE g \in ExactRows(l, t)

\* AuthorityIssuer.issue, at the instant of its commit, returns row g.
Issues(l, identity, t, g) ==
  IssuedFrom(issuances[l], LaneIssuer(l, identity, t), RequestIdOf(t),
             InkRequest(identity, t), g)

Candidates(l, identity, t) == ExactRows(l, t) \cup {NewRow(l, identity, t)}

Issue(p) ==
  LET l == run[p].lane
  IN  /\ run[p].pc = "issue"
      /\ \E g \in Candidates(l, run[p].identity, run[p].issuedAt) :
           /\ Issues(l, run[p].identity, run[p].issuedAt, g)
           /\ issuances' = [issuances EXCEPT ![l] = @ \cup {g}]
           /\ run' = [run EXCEPT ![p].pc = "verify", ![p].row = g]
      /\ UNCHANGED <<binding, database, file, tmp, reported>>

IssueRefuses(p) ==
  /\ run[p].pc = "issue"
  /\ ~\E g \in Candidates(run[p].lane, run[p].identity, run[p].issuedAt) :
        Issues(run[p].lane, run[p].identity, run[p].issuedAt, g)
  /\ Refuse(p)

\* The bundle's receipt has the epoch of the lane, the reviewed scope, the
\* issue time asked for, and is what the history inspection saw if it saw one.
Verifies(p) ==
  /\ run[p].row.metadata = MetadataOf(run[p].lane)
  /\ IsCurrent(run[p].row, ReviewedIdentity(run[p].lane, run[p].identity))
  /\ run[p].row.request.issuedAt = run[p].issuedAt
  /\ run[p].before \in {None, run[p].row}

Verify(p) ==
  /\ run[p].pc = "verify"
  /\ Verifies(p)
  /\ run' = [run EXCEPT ![p].pc = "export", ![p].before = None]
  /\ UNCHANGED <<binding, root, reported>>

-----------------------------------------------------------------------------
(* _atomic_write_new, once for each file                                   *)

NextFile(p) == <<run[p].lane, Stem(run[p].lane, run[p].issuedAt), run[p].next>>

\* The file is there already, with the content to be written.
ExportIsThere(p) ==
  /\ run[p].pc = "export"
  /\ run[p].next \in Exports
  /\ file[NextFile(p)] = run[p].row
  /\ run' = [run EXCEPT ![p].next = @ + 1]
  /\ UNCHANGED <<binding, root, reported>>

\* Mutant: a file that is there is always a conflict.
ExportExists(p) ==
  /\ run[p].pc = "export"
  /\ run[p].next \in Exports
  /\ file[NextFile(p)] # None
  /\ Refuse(p)

\* "existing export conflicts".
ExportConflicts(p) ==
  /\ run[p].pc = "export"
  /\ run[p].next \in Exports
  /\ file[NextFile(p)] \notin {None, run[p].row}
  /\ Refuse(p)

ExportIsMissing(p) ==
  /\ run[p].pc = "export"
  /\ run[p].next \in Exports
  /\ file[NextFile(p)] = None
  /\ Goto(p, "create")
  /\ UNCHANGED <<binding, root, reported>>

\* Mutant: without O_EXCL, the temporary file of another run is made anew.
CreateTemporaryShared(p) ==
  /\ run[p].pc = "create"
  /\ tmp' = [tmp EXCEPT ![NextFile(p)] = p]
  /\ Goto(p, "write")
  /\ UNCHANGED <<binding, database, issuances, file, reported>>

\* O_CREAT | O_EXCL.
CreateTemporary(p) ==
  /\ run[p].pc = "create"
  /\ tmp[NextFile(p)] = None
  /\ tmp' = [tmp EXCEPT ![NextFile(p)] = p]
  /\ Goto(p, "write")
  /\ UNCHANGED <<binding, database, issuances, file, reported>>

\* Mutant: a run waits for the temporary file to go away.
CreateTemporaryWaits(p) ==
  /\ run[p].pc = "create"
  /\ tmp[NextFile(p)] # None
  /\ UNCHANGED vars

\* Mutant: O_EXCL fails inside the try block, and the clean-up runs.
CreateTemporaryCleansUp(p) ==
  /\ run[p].pc = "create"
  /\ tmp[NextFile(p)] # None
  /\ tmp' = [tmp EXCEPT ![NextFile(p)] = None]
  /\ run' = [run EXCEPT ![p] = Idle]
  /\ UNCHANGED <<binding, database, issuances, file, reported>>

CreateTemporaryFails(p) ==
  /\ run[p].pc = "create"
  /\ tmp[NextFile(p)] # None
  /\ Refuse(p)

\* The entries that lead to the file p has open lead to this content now.
Settle(entries, p, content) ==
  [f \in File |-> IF entries[f] = p THEN content ELSE entries[f]]

\* write, flush, fsync and close.
WriteTemporary(p) ==
  /\ run[p].pc = "write"
  /\ tmp' = Settle(tmp, p, run[p].row)
  /\ file' = Settle(file, p, run[p].row)
  /\ Goto(p, "replace")
  /\ UNCHANGED <<binding, database, issuances, reported>>

\* Mutant: the files are published from the last to the first.
PublishOutOfOrder(p) ==
  /\ run[p].pc = "replace"
  /\ tmp[NextFile(p)] # None
  /\ tmp' = [tmp EXCEPT ![NextFile(p)] = None]
  /\ file' = [file EXCEPT
       ![[NextFile(p) EXCEPT ![3] = LastExport + 1 - @]] = tmp[NextFile(p)]]
  /\ Goto(p, "chmod")
  /\ UNCHANGED <<binding, database, issuances, reported>>

\* os.replace: whatever has the temporary name takes the place of the export.
Publish(p) ==
  /\ run[p].pc = "replace"
  /\ tmp[NextFile(p)] # None
  /\ tmp' = [tmp EXCEPT ![NextFile(p)] = None]
  /\ file' = [file EXCEPT ![NextFile(p)] = tmp[NextFile(p)]]
  /\ Goto(p, "chmod")
  /\ UNCHANGED <<binding, database, issuances, reported>>

\* os.chmod, and _atomic_write_new returns.
SetMode(p) ==
  /\ run[p].pc = "chmod"
  /\ run' = [run EXCEPT ![p].pc = "export", ![p].next = @ + 1]
  /\ UNCHANGED <<binding, root, reported>>

\* The clean-up: what p has open is left as it is, and whatever has the
\* temporary name is unlinked.
CleanUp(p) ==
  /\ run[p].pc \in {"write", "replace", "chmod"}
  /\ tmp' = [Settle(tmp, p, Torn) EXCEPT ![NextFile(p)] = None]
  /\ file' = Settle(file, p, Torn)
  /\ UNCHANGED <<binding, database, issuances, reported>>

\* Mutant: the exception is swallowed after the clean-up.
WriteFailsQuietly(p) ==
  /\ CleanUp(p)
  /\ run' = [run EXCEPT ![p].pc = "export", ![p].next = @ + 1]

\* Mutant: a failed write is tried again.
WriteFailsAndRetries(p) == CleanUp(p) /\ Goto(p, "create")

\* An exception in the try block: in the write, in the replace (there is
\* nothing under the temporary name any more, or the disk fails), or in the
\* chmod after the replace, when the name may be another run's already.
WriteFails(p) == CleanUp(p) /\ run' = [run EXCEPT ![p] = Idle]

\* issue_once returns and the record is printed.
Report(p) ==
  /\ run[p].pc = "export"
  /\ run[p].next = LastExport + 1
  /\ reported' = reported \cup {run[p].row}
  /\ run' = [run EXCEPT ![p] = Idle]
  /\ UNCHANGED <<binding, root>>

\* The run is killed, or stopped by an error outside _atomic_write_new (the
\* private key, the signer, the disk): it leaves the root as it is.
Crash(p) ==
  /\ run[p].pc # "idle"
  /\ tmp' = Settle(tmp, p, Torn)
  /\ file' = Settle(file, p, Torn)
  /\ run' = [run EXCEPT ![p] = Idle]
  /\ UNCHANGED <<binding, database, issuances, reported>>

-----------------------------------------------------------------------------
\* The steps at which a script decides to refuse.
Refuses(p) ==
  \/ InspectHistoryRefuses(p)
  \/ PreflightRefuses(p)
  \/ IssueRefuses(p)
  \/ ExportConflicts(p)
  \/ CreateTemporaryFails(p)

Step(p) ==
  \/ InspectHistory(p)
  \/ ListLedgers(p)
  \/ SurveyLedger(p)
  \/ Preflight(p)
  \/ OpenDatabase(p)
  \/ InitializeDatabase(p)
  \/ Issue(p)
  \/ Verify(p)
  \/ ExportIsThere(p)
  \/ ExportIsMissing(p)
  \/ CreateTemporary(p)
  \/ WriteTemporary(p)
  \/ Publish(p)
  \/ SetMode(p)
  \/ WriteFails(p)
  \/ Report(p)
  \/ Refuses(p)

Next ==
  \/ Rebind
  \/ \E p \in Proc :
       \/ \E l \in Lane, t \in IssuedAt : Start(p, l, t)
       \/ Step(p)
       \/ Crash(p)

Spec == Init /\ [][Next]_vars

\* A run that has begun is scheduled again until it ends; nothing obliges
\* anybody to start one, or a run to survive.
FairSpec == Spec /\ \A p \in Proc : WF_vars(Step(p))

-----------------------------------------------------------------------------
(* Safety, whatever runs interleave                                        *)

\* One lane never holds two grants valid at the same instant, nor two grants
\* of one issue time: the scan of the issuer, with rows of earlier identities
\* vouched for by the historical validator.
LaneGrantsNeverOverlap ==
  \A l \in Lane : \A g, h \in issuances[l] :
    g # h => ~Overlap(g.request, h.request)

FilesOf(g) ==
  {f \in File : f[1] = g.metadata.epoch /\ f[2] = Stem(f[1], g.request.issuedAt)}

ReportsOf(l) == {g \in reported : g.metadata.epoch = l}

\* Whatever the epoch-6 lane reported is committed, and all of its files are
\* in place with its content, however many runs, retries and crashes it took.
SuccessorReportsAreExported ==
  \A g \in ReportsOf(EPOCH6) :
    /\ g \in issuances[EPOCH6]
    /\ \A f \in FilesOf(g) : file[f] = g

\* A file is published only for a committed grant of its lane, and only after
\* the files before it: a record never appears without its receipt.  In the
\* epoch-6 lane those are the files of the same grant, under its own name.
ExportsFollowTheLedger ==
  \A f \in File : file[f] # None =>
    /\ file[f] \in issuances[f[1]]
    /\ \A k \in 1..f[3] : file[<<f[1], f[2], k>>] # None
    /\ f[1] = EPOCH6 =>
         /\ file[f].request.issuedAt = f[2]
         /\ \A k \in 1..f[3] : file[<<f[1], f[2], k>>] = file[f]

\* Once its grant is committed, no run fails its own checks of the receipt:
\* the row read before the issuer's transaction is the row the transaction
\* returns, and it has the scope, epoch and issue time the run stands for.
CommittedGrantsVerify ==
  \A p \in Proc : run[p].pc = "verify" =>
    run[p].row \in issuances[run[p].lane] /\ Verifies(p)

Writes(p) == run[p].pc \in {"write", "replace"}

\* Until an export is published, its temporary file is there with what the run
\* that made it has put into it, and no other run writes one for the same
\* export: O_EXCL, and no clean-up meets a file it did not create.  After that
\* a clean-up may: os.chmod fails when the temporary name is free again.
TemporaryIsOwnedUntilPublished ==
  \A p \in Proc : Writes(p) /\ file[NextFile(p)] = None =>
    /\ tmp[NextFile(p)] = IF run[p].pc = "write" THEN p ELSE run[p].row
    /\ \A q \in Proc \ {p} : Writes(q) => NextFile(q) # NextFile(p)

\* An export never appears before it is whole, and never disappears: a reader
\* that finds a name finds, at first, a committed grant of the lane.
ExportsAppearWhole ==
  [][\A f \in File : file'[f] # file[f] =>
       /\ file'[f] # None
       /\ file[f] = None => file'[f] \in issuances[f[1]]]_vars

\* The steps a run has before it at most: five for each file, one for each
\* ledger listed, and the others.
Remaining(p) ==
  IF run[p].pc = "idle" THEN 0
  ELSE 5 * (LastExport + 1 - run[p].next) + Cardinality(run[p].unread)
       + [inspect |-> 10, list |-> 9, survey |-> 6, open |-> 5, initialize |-> 4,
          issue |-> 3, verify |-> 2, export |-> 1, create |-> 0, write |-> -1,
          replace |-> -2, chmod |-> -3][run[p].pc]

\* Each step of a run brings it closer to its end, whatever the other runs do
\* to the root: there is no step it may repeat, nor one it may come back to.
RunsShorten ==
  [][\A p \in Proc : Step(p) => Remaining(p)' \in 0..Remaining(p) - 1]_vars

\* A preparation that the epoch-5 script names has been in force and is not.
Superseded == \E n \in 1..binding - 1 : Preparations[n] = EPOCH5_IDENTITY

Quiet(l) == \A p \in Proc : run[p].lane # l

\* "epoch-5 production issuance is historical-only after AuthorityRoot rebind":
\* once the runs begun before the rebind have ended, the lane's ledger, its
\* files and its temporary files stay as they are for good, whatever rebinds
\* and runs of the other lane follow.
SupersededLaneIsHistorical ==
  [][Superseded /\ Quiet(EPOCH5) =>
       /\ Superseded' /\ Quiet(EPOCH5)'
       /\ database'[EPOCH5] = database[EPOCH5]
       /\ issuances'[EPOCH5] = issuances[EPOCH5]
       /\ \A f \in File : f[1] = EPOCH5 =>
            file'[f] = file[f] /\ tmp'[f] = tmp[f]]_vars

(* Safety, one run at a time                                               *)

\* A new request starts at or after the expiry of every grant before it
\* (governance: new_request_before_prior_expiry is FORBIDDEN).
SuccessorsStartAfterExpiry ==
  \A g, h \in issuances[EPOCH6] :
    g.serial < h.serial => g.request.notAfter <= h.request.notBefore

\* The epoch-5 lane commits to one request, for good (governance: the issue
\* time is EXPLICIT_ONCE), and to one of the identity it was opened for.
EpochFiveHoldsOneRequest ==
  \A g, h \in issuances[EPOCH5] : g = h /\ IsCurrent(g, EPOCH5_IDENTITY)

\* What either lane reported is committed and all of its files are in place.
ReportsAreExported ==
  \A l \in Lane : \A g \in ReportsOf(l) :
    /\ g \in issuances[l]
    /\ \A f \in FilesOf(g) : file[f] = g

\* No lane opens a grant at an instant at which a grant of the other lane is
\* valid: the preflight at the issue time sees it.
NoGrantBeginsInsideAnothers ==
  [][\A l, m \in Lane : l # m =>
       \A g \in issuances'[l] \ issuances[l], h \in issuances[m] :
         ~ActiveAt(h.request, g.request.notBefore)]_vars

\* The run asks again for a committed grant of its own identity, nothing else
\* was valid when that grant began, and no temporary file is in its way.
IsExactRetry(p) ==
  \E g \in ExactRows(run[p].lane, run[p].issuedAt) :
    /\ IsCurrent(g, run[p].identity)
    /\ ActiveGrants(run[p].issuedAt) = {g}
    /\ run[p].next \in Exports => tmp[NextFile(p)] = None

\* An exact retry is refused nowhere on its way to the committed receipt and
\* its files, wherever the runs before it stopped: not by the history, not by
\* its own active grant, not by the issuer, not by files already in place.
ExactRetryIsNotRefused ==
  [][\A p \in Proc :
       run[p].pc # "idle" /\ IsExactRetry(p) => ~Refuses(p)]_vars

\* The run asks the epoch-6 lane for a grant after everything has expired.
IsSuccessor(p) ==
  /\ run[p].lane = EPOCH6
  /\ database[EPOCH6] # "bare"
  /\ \A g \in issuances[EPOCH6] : g.request.notAfter <= run[p].issuedAt
  /\ ActiveGrants(run[p].issuedAt) = {}

\* Whatever identities its grants were bound to, a lane whose grants have all
\* expired gives the installed checkout a new one: neither the inspection nor
\* the preflight nor the scan of the issuer trips over a superseded identity.
SuccessorIsNotRefused ==
  [][\A p \in Proc : run[p].pc # "idle" /\ IsSuccessor(p) => ~Refuses(p)]_vars

(* Liveness                                                                *)

\* A run that has begun ends, so that again and again none is in progress at p:
\* none waits for another, nor for what a dead run left behind.
RunsEnd == \A p \in Proc : []<>(run[p].pc = "idle")

(* Refinement                                                              *)

MetadataIn(l) == IF database[l] = "ready" THEN MetadataOf(l) ELSE None

AnswersOf(l) ==
  {[rid |-> g.rid, request |-> g.request, grant |-> g] : g \in ReportsOf(l)}

RequestIds == {RequestIdOf(t) : t \in IssuedAt}

EpochFive == INSTANCE GrantLedger WITH
  RequestId <- RequestIds, Requests <- LaneRequests,
  Metadata <- {MetadataOf(EPOCH5)}, metadata <- MetadataIn(EPOCH5),
  issuances <- issuances[EPOCH5], answers <- AnswersOf(EPOCH5)

EpochSix == INSTANCE GrantLedger WITH
  RequestId <- RequestIds, Requests <- LaneRequests,
  Metadata <- {MetadataOf(EPOCH6)}, metadata <- MetadataIn(EPOCH6),
  issuances <- issuances[EPOCH6], answers <- AnswersOf(EPOCH6)

\* The databases of both lanes, as the runs of the scripts use them, are
\* issuance ledgers: unique request ids, consecutive serials, no overlap,
\* append-only, and a run reports what its own lane's ledger holds.
LanesImplementGrantLedger == EpochFive!Spec /\ EpochSix!Spec

-----------------------------------------------------------------------------
(* What the documents say of the lanes and the code does not do            *)

\* "new_request_after_prior_expiry": "ALLOWED".  SuccessorIsNotRefused without
\* an exception for the file a crashed first run leaves behind.
NewRequestAfterPriorExpiryIsAllowed ==
  \A t \in IssuedAt :
    (/\ \A p \in Proc : run[p] = Idle
     /\ \A g \in issuances[EPOCH5] \cup issuances[EPOCH6] : g.request.notAfter <= t)
    => HistoryAdmits(EPOCH6, BoundIdentity, t)

\* "exact_retry_same_request_id": "IDEMPOTENT".  An exact retry finds nothing
\* that stops it from writing its files.
ExactRetryIsIdempotent ==
  \A g \in issuances[EPOCH6] :
    (IsCurrent(g, BoundIdentity) /\ \A p \in Proc : run[p] = Idle)
    => \A f \in FilesOf(g) : tmp[f] = None

\* The same: nor is it refused for a file that is there.  Two runs at a time keep
\* to it; with a third, the clean-up after a failing chmod can break it.
ExactRetryFindsItsFiles ==
  \A g \in issuances[EPOCH6] :
    (\A p \in Proc : run[p] = Idle)
    => \A f \in FilesOf(g) : file[f] \in {None, g}

\* "prove no overlapping live Ink V0F grant": over all ledgers of the root.
NoOverlappingLiveGrant ==
  \A g \in issuances[EPOCH5], h \in issuances[EPOCH6] :
    ~Overlap(g.request, h.request)
=============================================================================
