--------------------------- MODULE AuthorityIssuer ---------------------------
(***************************************************************************)
(* AuthorityIssuer (issuer.py): any number of issuers, each in a process   *)
(* of its own or sharing one, over one SQLite issuance database.           *)
(*                                                                         *)
(* Every call works on a connection of its own and does its work between   *)
(* BEGIN IMMEDIATE and COMMIT, so a process is modelled by the step its    *)
(* call has reached.  The database is what survives a crash: WAL with      *)
(* synchronous = FULL.  Stored bytes are modelled by the values they       *)
(* encode; that they parse, are canonical and carry a good signature is    *)
(* what the issuer wrote and the append-only triggers keep.                *)
(***************************************************************************)
EXTENDS IssuancePolicy

CONSTANTS
  Proc,        \* processes or threads that open issuers and call them
  RequestId,   \* request ids callers may use
  Requests,    \* the contents they may ask for
  Issuers,     \* the issuer objects that may be constructed
  None         \* no process, no issuer, no call, no metadata, no row

\* The row AuthorityIssuer keeps in issuer_metadata: schema, repository and
\* the trust configuration are determined by these.
MetadataRow == [root : Root, key : STRING, epoch : Nat \ {0},
                minimumEpoch : Nat \ {0}, configVersion : Nat \ {0}]

\* What a constructed AuthorityIssuer holds.  "identity" is the identity of
\* the checkout it runs, "historical" the requests its
\* historical_request_validator accepts.
IssuerObject ==
  [policy : IssuerPolicy, identity : Identity, metadata : MetadataRow,
   historical : SUBSET Requests]

\* AuthorityIssuer.__init__ refuses anything else before touching the database.
ASSUME IssuerAssumption ==
  /\ Requests \subseteq Request
  /\ \A i \in Issuers :
       /\ i \in IssuerObject
       /\ i.metadata.root = i.policy.root
       /\ i.metadata.minimumEpoch <= i.metadata.epoch
  /\ None \notin Proc
  /\ None \notin IssuerObject
  /\ None \notin MetadataRow
  /\ None \notin [rid : RequestId, request : Requests]
  /\ None \notin [rid : RequestId, request : Requests, serial : Nat \ {0},
                  metadata : MetadataRow]

VARIABLES
  metadata,    \* table issuer_metadata: its only row, or None
  issuances,   \* table issuances: the set of committed rows
  writer,      \* the process whose connection holds the write lock, or None
  pc,          \* pc[p]: the step process p has reached
  issuer,      \* issuer[p]: the issuer p has constructed, or None
  call,        \* call[p]: the arguments of p's call in progress, or None
  row,         \* row[p]: the row p's open transaction commits and p returns
  answers      \* history: every receipt returned, with what was asked for

vars == <<metadata, issuances, writer, pc, issuer, call, row, answers>>

Call == [rid : RequestId, request : Requests]

\* A row of the table with the receipt it holds: the receipt repeats the
\* serial and names the root, key and epoch it was signed under.
Row == [rid : RequestId, request : Requests, serial : Nat \ {0},
        metadata : MetadataRow]

\* Inside a transaction that holds the write lock.
InTransaction == {"initialize", "lookup", "scan", "insert", "commit"}

\* A call of a constructed issuer.
InIssue == {"begin", "lookup", "scan", "insert", "commit", "return"}

TypeOK ==
  /\ metadata \in MetadataRow \cup {None}
  /\ issuances \subseteq Row
  /\ writer \in Proc \cup {None}
  /\ pc \in [Proc -> {"idle", "connect", "initialize", "open"} \cup InIssue]
  /\ issuer \in [Proc -> Issuers \cup {None}]
  /\ call \in [Proc -> Call \cup {None}]
  /\ row \in [Proc -> Row \cup {None}]
  /\ answers \subseteq [rid : RequestId, request : Requests, grant : Row]

Init ==
  /\ metadata = None
  /\ issuances = {}
  /\ writer = None
  /\ pc = [p \in Proc |-> "idle"]
  /\ issuer = [p \in Proc |-> None]
  /\ call = [p \in Proc |-> None]
  /\ row = [p \in Proc |-> None]
  /\ answers = {}

-----------------------------------------------------------------------------
(* SQLite connections                                                      *)

\* Mutant: BEGIN (DEFERRED), which takes no lock.
BeginDeferred(p, from, to) ==
  /\ pc[p] = from
  /\ writer' = p
  /\ pc' = [pc EXCEPT ![p] = to]
  /\ UNCHANGED <<metadata, issuances, issuer, call, row, answers>>

\* BEGIN IMMEDIATE takes the write lock before anything is read.
BeginImmediate(p, from, to) ==
  /\ pc[p] = from
  /\ writer = None
  /\ writer' = p
  /\ pc' = [pc EXCEPT ![p] = to]
  /\ UNCHANGED <<metadata, issuances, issuer, call, row, answers>>

\* Mutant: a busy database is tried again, without end.
BusyRetry(p, from, to) ==
  /\ pc[p] = from
  /\ writer # None
  /\ to \in {"idle", "open"}
  /\ UNCHANGED vars

\* The busy timeout runs out: BEGIN IMMEDIATE raises, nothing was done.
BusyTimeout(p, from, to) ==
  /\ pc[p] = from
  /\ writer # None
  /\ pc' = [pc EXCEPT ![p] = to]
  /\ call' = [call EXCEPT ![p] = None]
  /\ issuer' = IF to = "idle" THEN [issuer EXCEPT ![p] = None] ELSE issuer
  /\ UNCHANGED <<metadata, issuances, writer, row, answers>>

\* issue() raises inside its transaction: rollback, close, and the caller
\* gets the exception.  The issuer object stays usable.
Rollback(p) ==
  /\ writer' = None
  /\ pc' = [pc EXCEPT ![p] = "open"]
  /\ call' = [call EXCEPT ![p] = None]
  /\ row' = [row EXCEPT ![p] = None]
  /\ UNCHANGED <<metadata, issuances, issuer, answers>>

-----------------------------------------------------------------------------
(* AuthorityIssuer.__init__ and _initialize_database                       *)

Construct(p, i) ==
  /\ pc[p] = "idle"
  /\ issuer' = [issuer EXCEPT ![p] = i]
  /\ pc' = [pc EXCEPT ![p] = "connect"]
  /\ UNCHANGED <<metadata, issuances, writer, call, row, answers>>

BeginInitialize(p) == BeginImmediate(p, "connect", "initialize")

InitializeTimesOut(p) == BusyTimeout(p, "connect", "idle")

\* Mutant: INSERT OR REPLACE of the metadata row.
InitializeReplacing(p) ==
  /\ pc[p] = "initialize"
  /\ metadata' = issuer[p].metadata
  /\ writer' = None
  /\ pc' = [pc EXCEPT ![p] = "open"]
  /\ UNCHANGED <<issuances, issuer, call, row, answers>>

\* Mutant: INSERT OR IGNORE of the metadata row.
InitializeIgnoring(p) ==
  /\ pc[p] = "initialize"
  /\ metadata' = IF metadata = None THEN issuer[p].metadata ELSE metadata
  /\ writer' = None
  /\ pc' = [pc EXCEPT ![p] = "open"]
  /\ UNCHANGED <<issuances, issuer, call, row, answers>>

\* The first issuer to get here makes the database its own; a later one must
\* hold the very same configuration.  The issuer policy is no part of it.
InitializeDatabase(p) ==
  /\ pc[p] = "initialize"
  /\ metadata \in {None, issuer[p].metadata}
  /\ metadata' = issuer[p].metadata
  /\ writer' = None
  /\ pc' = [pc EXCEPT ![p] = "open"]
  /\ UNCHANGED <<issuances, issuer, call, row, answers>>

\* The database belongs to a different authority configuration, or SQLite
\* reports an error: rollback, and no issuer object is made.
InitializeFails(p) ==
  /\ pc[p] = "initialize"
  /\ writer' = None
  /\ pc' = [pc EXCEPT ![p] = "idle"]
  /\ issuer' = [issuer EXCEPT ![p] = None]
  /\ UNCHANGED <<metadata, issuances, call, row, answers>>

-----------------------------------------------------------------------------
(* AuthorityIssuer.issue                                                   *)

\* A request outside the policy is refused here, before any connection.
Issue(p, rid, r) ==
  /\ pc[p] = "open"
  /\ Admissible(issuer[p].policy, issuer[p].identity, r)
  /\ call' = [call EXCEPT ![p] = [rid |-> rid, request |-> r]]
  /\ pc' = [pc EXCEPT ![p] = "begin"]
  /\ UNCHANGED <<metadata, issuances, writer, issuer, row, answers>>

BeginIssue(p) == BeginImmediate(p, "begin", "lookup")

IssueTimesOut(p) == BusyTimeout(p, "begin", "open")

SameRequestId(rid) == {g \in issuances : g.rid = rid}

\* The request id is committed already, with this content and to this
\* issuer's satisfaction: its receipt is the answer.
LookupFindsCommitted(p) ==
  /\ pc[p] = "lookup"
  /\ \E g \in SameRequestId(call[p].rid) :
       /\ g.request = call[p].request
       /\ Validates(issuer[p], g, FALSE)
       /\ row' = [row EXCEPT ![p] = g]
  /\ pc' = [pc EXCEPT ![p] = "commit"]
  /\ UNCHANGED <<metadata, issuances, writer, issuer, call, answers>>

\* It is committed to other content, or to a receipt that fails validation.
LookupRefuses(p) ==
  /\ pc[p] = "lookup"
  /\ \E g \in SameRequestId(call[p].rid) :
       \/ g.request # call[p].request
       \/ ~Validates(issuer[p], g, FALSE)
  /\ Rollback(p)

\* Mutant: looked up by content, not by request id.
LookupFindsNothingByDigest(p) ==
  /\ pc[p] = "lookup"
  /\ \A g \in SameRequestId(call[p].rid) : g.request # call[p].request
  /\ pc' = [pc EXCEPT ![p] = IF IsInk(call[p].request) THEN "scan" ELSE "insert"]
  /\ UNCHANGED <<metadata, issuances, writer, issuer, call, row, answers>>

\* It is new.  Only an Ink request goes through the prior rows.
LookupFindsNothing(p) ==
  /\ pc[p] = "lookup"
  /\ SameRequestId(call[p].rid) = {}
  /\ pc' = [pc EXCEPT ![p] = IF IsInk(call[p].request) THEN "scan" ELSE "insert"]
  /\ UNCHANGED <<metadata, issuances, writer, issuer, call, row, answers>>

ScanPasses(p) ==
  /\ pc[p] = "scan"
  /\ \A g \in issuances : Permits(issuer[p], g, call[p].request)
  /\ pc' = [pc EXCEPT ![p] = "insert"]
  /\ UNCHANGED <<metadata, issuances, writer, issuer, call, row, answers>>

ScanRefuses(p) ==
  /\ pc[p] = "scan"
  /\ \E g \in issuances : ~Permits(issuer[p], g, call[p].request)
  /\ Rollback(p)

NewRow(p) == RowAfter(issuances, issuer[p], call[p].rid, call[p].request)

\* Allocate the serial, sign, verify the signature, INSERT.
Insert(p) ==
  /\ pc[p] = "insert"
  /\ row' = [row EXCEPT ![p] = NewRow(p)]
  /\ pc' = [pc EXCEPT ![p] = "commit"]
  /\ UNCHANGED <<metadata, issuances, writer, issuer, call, answers>>

\* The signer raises or returns something that is no signature of this key.
SignerFails(p) ==
  /\ pc[p] = "insert"
  /\ Rollback(p)

\* The row is durable and the lock is free; nothing was returned yet.
Commit(p) ==
  /\ pc[p] = "commit"
  /\ issuances' = issuances \cup {row[p]}
  /\ writer' = None
  /\ pc' = [pc EXCEPT ![p] = "return"]
  /\ UNCHANGED <<metadata, issuer, call, row, answers>>

\* Mutant: a failed COMMIT is taken for a good one.
CommitFailsQuietly(p) ==
  /\ pc[p] = "commit"
  /\ writer' = None
  /\ pc' = [pc EXCEPT ![p] = "return"]
  /\ UNCHANGED <<metadata, issuances, issuer, call, row, answers>>

CommitFails(p) ==
  /\ pc[p] = "commit"
  /\ Rollback(p)

Return(p) ==
  /\ pc[p] = "return"
  /\ answers' = answers \cup
       {[rid |-> call[p].rid, request |-> call[p].request, grant |-> row[p]]}
  /\ pc' = [pc EXCEPT ![p] = "open"]
  /\ call' = [call EXCEPT ![p] = None]
  /\ row' = [row EXCEPT ![p] = None]
  /\ UNCHANGED <<metadata, issuances, writer, issuer>>

-----------------------------------------------------------------------------
(* Reading, and losing a process                                           *)

\* get_committed: one SELECT outside any transaction, strict validation.
GetCommitted(p, rid) ==
  /\ pc[p] = "open"
  /\ \E g \in SameRequestId(rid) :
       /\ Validates(issuer[p], g, FALSE)
       /\ answers' = answers \cup
            {[rid |-> rid, request |-> g.request, grant |-> g]}
  /\ UNCHANGED <<metadata, issuances, writer, pc, issuer, call, row>>

\* The process ends, in the middle of anything: SQLite drops its lock and
\* whatever its transaction had not committed.  Also how an issuer is let go.
Crash(p) ==
  /\ pc[p] # "idle"
  /\ writer' = IF writer = p THEN None ELSE writer
  /\ pc' = [pc EXCEPT ![p] = "idle"]
  /\ issuer' = [issuer EXCEPT ![p] = None]
  /\ call' = [call EXCEPT ![p] = None]
  /\ row' = [row EXCEPT ![p] = None]
  /\ UNCHANGED <<metadata, issuances, answers>>

-----------------------------------------------------------------------------
\* What p does by itself once a constructor or a call has begun.
Step(p) ==
  \/ BeginInitialize(p)
  \/ InitializeTimesOut(p)
  \/ InitializeDatabase(p)
  \/ InitializeFails(p)
  \/ BeginIssue(p)
  \/ IssueTimesOut(p)
  \/ LookupFindsCommitted(p)
  \/ LookupRefuses(p)
  \/ LookupFindsNothing(p)
  \/ ScanPasses(p)
  \/ ScanRefuses(p)
  \/ Insert(p)
  \/ SignerFails(p)
  \/ Commit(p)
  \/ CommitFails(p)
  \/ Return(p)

Next ==
  \E p \in Proc :
    \/ \E i \in Issuers : Construct(p, i)
    \/ \E rid \in RequestId, r \in Requests : Issue(p, rid, r)
    \/ \E rid \in RequestId : GetCommitted(p, rid)
    \/ Step(p)
    \/ Crash(p)

Spec == Init /\ [][Next]_vars

\* A process that has begun a call is scheduled again, and the busy timeout
\* of 30 seconds is finite; nobody is obliged to call, and nothing obliges a
\* process to survive.
FairSpec == Spec /\ \A p \in Proc : WF_vars(Step(p))

-----------------------------------------------------------------------------
(* Safety                                                                  *)

\* Serials are handed out without gap or repetition, whatever is rolled back,
\* crashes or contends for the lock (COALESCE(MAX(serial), 0) + 1 read inside
\* the transaction that uses it).
SerialsAreContiguous ==
  /\ {g.serial : g \in issuances} = 1..Cardinality(issuances)
  /\ \A g, h \in issuances : g.serial = h.serial => g = h

\* At no instant are two Ink grants of one database valid: the overlap scan
\* and the insert it licenses are in one critical section.
NoOverlappingInkGrants ==
  \A g, h \in issuances :
    g # h /\ IsInk(g.request) /\ IsInk(h.request) => ~Overlap(g.request, h.request)

\* A receipt is returned only once it is durable, only to a caller who asked
\* for that content, and every caller who asks under one request id is
\* returned the same receipt, across retries, restarts and competing issuers.
AnswersAreCommitted ==
  /\ \A a \in answers :
       /\ a.grant \in issuances
       /\ a.grant.rid = a.rid
       /\ a.grant.request = a.request
  /\ \A a, b \in answers : a.rid = b.rid => a.grant = b.grant

\* Every committed row was signed under the configuration the database
\* belongs to, although issuers of several configurations race to make it
\* theirs (the singleton row of issuer_metadata and its check).
RowsBelongToDatabase ==
  \A g \in issuances : g.metadata = metadata

\* An open issuer can hand out again every committed receipt whose request
\* it still admits: validation fails for a change of policy or identity, and
\* for no other reason (existing-row branch of issue, get_committed).
AdmissibleHistoryIsRecoverable ==
  \A p \in Proc : pc[p] \in {"open"} \cup InIssue =>
    \A g \in issuances :
      Admissible(issuer[p].policy, issuer[p].identity, g.request)
        => Validates(issuer[p], g, FALSE)

\* Every committed Ink grant carries the exact reviewed scope of some
\* checkout, lasts no longer than the dust envelope allows and was issued
\* inside its own interval, whichever policy its issuer was built with.
InkGrantsAreInsideEnvelope ==
  \A g \in issuances : IsInk(g.request) =>
    /\ \E identity \in Identity : g.request.scope = GrantPreparation(identity)
    /\ g.request.notAfter <= g.request.issuedAt + INK_V0F_MAX_GRANT_DURATION_S
    /\ ActiveAt(g.request, g.request.issuedAt)

\* The steps of a call are worth one: the receipt it returns is what
\* issue() makes of the rows there are at its commit, and a call refused by
\* what it read in the ledger is one that issue() has no receipt for, however
\* many other calls, failures and crashes came between its steps.
CallsAreAtomic ==
  [][\A p \in Proc :
       LET Decides(g) == IssuedFrom(issuances, issuer[p], call[p].rid,
                                    call[p].request, g)
       IN  /\ pc[p] = "commit" /\ pc'[p] = "return" => Decides(row[p])
           /\ pc[p] \in {"lookup", "scan"} /\ pc'[p] = "open" =>
                ~\E g \in issuances \cup {NewRow(p)} : Decides(g)]_vars

(* Liveness                                                                *)

\* A constructor or a call that has begun ends, with a result or with an
\* exception, so that again and again none is in progress: no process waits
\* forever for the write lock.
CallsEnd == \A p \in Proc : []<>(pc[p] \in {"idle", "open"})

(* Refinement                                                              *)

Ledger == INSTANCE GrantLedger WITH
            Metadata <- {i.metadata : i \in Issuers}

\* The locks, transactions, crashes and retries of the issuer implement the
\* abstract issuance ledger.
ImplementsGrantLedger == Ledger!Spec
=============================================================================
