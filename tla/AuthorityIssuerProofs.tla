------------------------ MODULE AuthorityIssuerProofs ------------------------
(***************************************************************************)
(* Theorems about AuthorityIssuer, for every set of processes, issuers,    *)
(* request ids and requests, and their proofs.                             *)
(*                                                                         *)
(* None of the safety properties is inductive: that two Ink grants never   *)
(* overlap rests on what a call knows between its scan and its commit, and *)
(* that knowledge survives only because the call holds the write lock all  *)
(* along.  Invariant says so: Control is who holds the lock and what an    *)
(* open issuer may rely on, Knowledge is what each step of a call has      *)
(* established, History is what the committed rows have in common and      *)
(* Answered what ties the answers given to them.                           *)
(***************************************************************************)
EXTENDS AuthorityIssuer, IssuancePolicyProofs

\* The write lock is held by exactly the process inside a transaction; a
\* process that has an issuer has one whose configuration is the database's.
ControlOf(p) ==
  /\ writer = p <=> pc[p] \in InTransaction
  /\ pc[p] # "idle" => issuer[p] \in Issuers
  /\ pc[p] \in {"open"} \cup InIssue => metadata = issuer[p].metadata
  /\ pc[p] \in InIssue =>
       /\ call[p] \in Call
       /\ Admissible(issuer[p].policy, issuer[p].identity, call[p].request)

Control == \A p \in Proc : ControlOf(p)

NoInkOverlap(r) ==
  IsInk(r) => \A h \in issuances : IsInk(h.request) => ~Overlap(h.request, r)

\* What the scan of p's call has found.
NothingStandsInTheWay(p) ==
  IsInk(call[p].request) =>
    \A h \in issuances : Permits(issuer[p], h, call[p].request)

\* Row g may join the committed rows.
Addable(g) ==
  /\ SameRequestId(g.rid) = {}
  /\ g.serial = Cardinality(issuances) + 1
  /\ g.metadata = metadata
  /\ NoInkOverlap(g.request)

\* What the call of p has established by the step it has reached.
Knows(p) ==
  /\ pc[p] \in {"scan", "insert"} => SameRequestId(call[p].rid) = {}
  /\ pc[p] = "scan" => IsInk(call[p].request)
  /\ pc[p] = "insert" => NothingStandsInTheWay(p)
  /\ pc[p] \in {"commit", "return"} =>
       /\ row[p] \in Row
       /\ row[p].rid = call[p].rid
       /\ row[p].request = call[p].request
  /\ pc[p] = "commit" =>
       /\ row[p] \in issuances \/ Addable(row[p])
       /\ IssuedFrom(issuances, issuer[p], call[p].rid, call[p].request, row[p])
  /\ pc[p] = "return" => row[p] \in issuances

Knowledge == \A p \in Proc : Knows(p)

\* What the committed rows have in common.
History ==
  /\ IsFiniteSet(issuances)
  /\ SerialsAreContiguous
  /\ \A g, h \in issuances : g.rid = h.rid => g = h
  /\ NoOverlappingInkGrants
  /\ RowsBelongToDatabase
  /\ \A g \in issuances : \E i \in Issuers :
       Admissible(i.policy, i.identity, g.request)

Answered ==
  \A a \in answers :
    /\ a.grant \in issuances
    /\ a.grant.rid = a.rid
    /\ a.grant.request = a.request

Invariant == TypeOK /\ Control /\ Knowledge /\ History /\ Answered

\* The step is p's own: what it does to p's connection and call is out of
\* every other process's sight, lock included.
OthersUntouched(p) ==
  \A q \in Proc \ {p} :
    /\ pc'[q] = pc[q]
    /\ issuer'[q] = issuer[q]
    /\ call'[q] = call[q]
    /\ row'[q] = row[q]
    /\ writer' = q <=> writer = q

-----------------------------------------------------------------------------
(* Lemmas                                                                  *)

\* COALESCE(MAX(serial), 0) + 1 is one more than the number of rows.
LEMMA NextSerialIsNext ==
  ASSUME IsFiniteSet(issuances), SerialsAreContiguous
  PROVE  /\ Cardinality(issuances) \in Nat
         /\ SerialAfter(issuances) = Cardinality(issuances) + 1
  BY NextOfContiguous DEF SerialAfter, SerialsAreContiguous

\* A step of one process that leaves both tables alone preserves Invariant
\* when it preserves its own share of it.
LEMMA OwnStep ==
  ASSUME Invariant, NEW p \in Proc,
         OthersUntouched(p), metadata' = metadata, issuances' = issuances,
         TypeOK', ControlOf(p)', Knows(p)', Answered'
  PROVE  Invariant'
<1>1. ASSUME NEW q \in Proc, q # p
      PROVE  ControlOf(q)' /\ Knows(q)'
  <2>1. ControlOf(q) /\ Knows(q)
    BY DEF Invariant, Control, Knowledge
  <2>2. ControlOf(q)'
    BY <1>1, <2>1 DEF ControlOf, OthersUntouched
  <2>3. Knows(q)'
    BY <1>1, <2>1 DEF Knows, OthersUntouched, Addable, NoInkOverlap, SameRequestId,
                        NothingStandsInTheWay
  <2> QED
    BY <2>2, <2>3
<1>2. Control' /\ Knowledge'
  BY <1>1 DEF Control, Knowledge
<1>3. History'
  BY DEF Invariant, History, SerialsAreContiguous, NoOverlappingInkGrants,
         RowsBelongToDatabase
<1> QED
  BY <1>2, <1>3 DEF Invariant
-----------------------------------------------------------------------------
(* One lemma per action (or group of actions with the same effect)         *)

\* Constructing an issuer object touches neither table nor lock.
LEMMA ConstructKeeps ==
  ASSUME Invariant, NEW p \in Proc, NEW i \in Issuers, Construct(p, i)
  PROVE  Invariant'
<1>0. TypeOK /\ ControlOf(p) /\ Knows(p) /\ Answered
  BY DEF Invariant, Control, Knowledge
<1>1. OthersUntouched(p) /\ metadata' = metadata /\ issuances' = issuances
  BY <1>0, IssuerAssumption DEF TypeOK, OthersUntouched, Construct
<1>2. TypeOK'
  BY <1>0 DEF TypeOK, InIssue, Construct
<1>3. ControlOf(p)'
  BY <1>0, IssuerAssumption DEF TypeOK, ControlOf, InIssue, InTransaction, Construct
<1>4. Knows(p)'
  BY <1>0 DEF TypeOK, Knows, ControlOf, InIssue, SameRequestId, NoInkOverlap, NothingStandsInTheWay, Construct
<1>5. Answered'
  BY <1>0 DEF Answered, Construct
<1> QED
  BY <1>1, <1>2, <1>3, <1>4, <1>5, OwnStep

\* The lock is free when BEGIN IMMEDIATE takes it, so its holder stays unique.
LEMMA BeginKeeps ==
  ASSUME Invariant, NEW p \in Proc, BeginInitialize(p) \/ BeginIssue(p)
  PROVE  Invariant'
<1>0. TypeOK /\ ControlOf(p) /\ Knows(p) /\ Answered
  BY DEF Invariant, Control, Knowledge
<1>1. OthersUntouched(p) /\ metadata' = metadata /\ issuances' = issuances
  BY <1>0, IssuerAssumption DEF TypeOK, OthersUntouched, BeginInitialize, BeginIssue, BeginImmediate, ControlOf, InTransaction
<1>2. TypeOK'
  BY <1>0 DEF TypeOK, InIssue, BeginInitialize, BeginIssue, BeginImmediate
<1>3. ControlOf(p)'
  BY <1>0, IssuerAssumption DEF TypeOK, ControlOf, InIssue, InTransaction, BeginInitialize, BeginIssue, BeginImmediate
<1>4. Knows(p)'
  BY <1>0 DEF TypeOK, Knows, ControlOf, InIssue, SameRequestId, NoInkOverlap, NothingStandsInTheWay, BeginInitialize, BeginIssue, BeginImmediate
<1>5. Answered'
  BY <1>0 DEF Answered, BeginInitialize, BeginIssue, BeginImmediate
<1> QED
  BY <1>1, <1>2, <1>3, <1>4, <1>5, OwnStep

\* A busy timeout leaves everything but the call as it was.
LEMMA TimeoutKeeps ==
  ASSUME Invariant, NEW p \in Proc, InitializeTimesOut(p) \/ IssueTimesOut(p)
  PROVE  Invariant'
<1>0. TypeOK /\ ControlOf(p) /\ Knows(p) /\ Answered
  BY DEF Invariant, Control, Knowledge
<1>1. OthersUntouched(p) /\ metadata' = metadata /\ issuances' = issuances
  BY <1>0, IssuerAssumption DEF TypeOK, OthersUntouched, InitializeTimesOut, IssueTimesOut, BusyTimeout
<1>2. TypeOK'
  BY <1>0 DEF TypeOK, InIssue, InitializeTimesOut, IssueTimesOut, BusyTimeout
<1>3. ControlOf(p)'
  BY <1>0, IssuerAssumption DEF TypeOK, ControlOf, InIssue, InTransaction, InitializeTimesOut, IssueTimesOut, BusyTimeout
<1>4. Knows(p)'
  BY <1>0 DEF TypeOK, Knows, ControlOf, InIssue, SameRequestId, NoInkOverlap, NothingStandsInTheWay, InitializeTimesOut, IssueTimesOut, BusyTimeout
<1>5. Answered'
  BY <1>0 DEF Answered, InitializeTimesOut, IssueTimesOut, BusyTimeout
<1> QED
  BY <1>1, <1>2, <1>3, <1>4, <1>5, OwnStep

\* A refused or failed initialization gives the lock back and no issuer.
LEMMA InitializeFailsKeeps ==
  ASSUME Invariant, NEW p \in Proc, InitializeFails(p)
  PROVE  Invariant'
<1>0. TypeOK /\ ControlOf(p) /\ Knows(p) /\ Answered
  BY DEF Invariant, Control, Knowledge
<1>1. OthersUntouched(p) /\ metadata' = metadata /\ issuances' = issuances
  BY <1>0, IssuerAssumption DEF TypeOK, OthersUntouched, InitializeFails, ControlOf, InTransaction
<1>2. TypeOK'
  BY <1>0 DEF TypeOK, InIssue, InitializeFails
<1>3. ControlOf(p)'
  BY <1>0, IssuerAssumption DEF TypeOK, ControlOf, InIssue, InTransaction, InitializeFails
<1>4. Knows(p)'
  BY <1>0 DEF TypeOK, Knows, ControlOf, InIssue, SameRequestId, NoInkOverlap, NothingStandsInTheWay, InitializeFails
<1>5. Answered'
  BY <1>0 DEF Answered, InitializeFails
<1> QED
  BY <1>1, <1>2, <1>3, <1>4, <1>5, OwnStep

\* The policy check before BEGIN admits the request for the whole call.
LEMMA IssueKeeps ==
  ASSUME Invariant, NEW p \in Proc, NEW rid \in RequestId,
         NEW r \in Requests, Issue(p, rid, r)
  PROVE  Invariant'
<1>0. TypeOK /\ ControlOf(p) /\ Knows(p) /\ Answered
  BY DEF Invariant, Control, Knowledge
<1>1. OthersUntouched(p) /\ metadata' = metadata /\ issuances' = issuances
  BY <1>0, IssuerAssumption DEF TypeOK, OthersUntouched, Issue
<1>2. TypeOK'
  BY <1>0 DEF TypeOK, InIssue, Issue, Call
<1>3. ControlOf(p)'
  BY <1>0, IssuerAssumption DEF TypeOK, ControlOf, InIssue, InTransaction, Issue, Call
<1>4. Knows(p)'
  BY <1>0 DEF TypeOK, Knows, ControlOf, InIssue, SameRequestId, NoInkOverlap, NothingStandsInTheWay, Issue
<1>5. Answered'
  BY <1>0 DEF Answered, Issue
<1> QED
  BY <1>1, <1>2, <1>3, <1>4, <1>5, OwnStep

\* The row found for the request id is committed and of the same content.
LEMMA LookupFindsCommittedKeeps ==
  ASSUME Invariant, NEW p \in Proc, LookupFindsCommitted(p)
  PROVE  Invariant'
<1>0. TypeOK /\ ControlOf(p) /\ Knows(p) /\ Answered
  BY DEF Invariant, Control, Knowledge
<1>1. OthersUntouched(p) /\ metadata' = metadata /\ issuances' = issuances
  BY <1>0, IssuerAssumption DEF TypeOK, OthersUntouched, LookupFindsCommitted
<1>2. TypeOK'
  BY <1>0 DEF TypeOK, InIssue, LookupFindsCommitted, SameRequestId
<1>3. ControlOf(p)'
  BY <1>0, IssuerAssumption DEF TypeOK, ControlOf, InIssue, InTransaction, LookupFindsCommitted
<1>4. Knows(p)'
  <2>1. PICK g \in SameRequestId(call[p].rid) :
          /\ g.request = call[p].request
          /\ Validates(issuer[p], g, FALSE)
          /\ row' = [row EXCEPT ![p] = g]
    BY DEF LookupFindsCommitted
  <2>2. g \in issuances /\ g \in Row /\ g.rid = call[p].rid
    BY <1>0, <2>1 DEF TypeOK, SameRequestId
  <2>3. Admissible(issuer[p].policy, issuer[p].identity, call[p].request)
    BY <1>0 DEF LookupFindsCommitted, ControlOf, InIssue
  <2>4. IssuedFrom(issuances, issuer[p], call[p].rid, call[p].request, g)
    BY <2>1, <2>2, <2>3 DEF IssuedFrom
  <2> QED
    BY <1>0, <2>1, <2>2, <2>4 DEF TypeOK, Knows, LookupFindsCommitted
<1>5. Answered'
  BY <1>0 DEF Answered, LookupFindsCommitted
<1> QED
  BY <1>1, <1>2, <1>3, <1>4, <1>5, OwnStep

\* The request id is unused, and stays so while the lock is held.
LEMMA LookupFindsNothingKeeps ==
  ASSUME Invariant, NEW p \in Proc, LookupFindsNothing(p)
  PROVE  Invariant'
<1>0. TypeOK /\ ControlOf(p) /\ Knows(p) /\ Answered
  BY DEF Invariant, Control, Knowledge
<1>1. OthersUntouched(p) /\ metadata' = metadata /\ issuances' = issuances
  BY <1>0, IssuerAssumption DEF TypeOK, OthersUntouched, LookupFindsNothing
<1>2. TypeOK'
  BY <1>0 DEF TypeOK, InIssue, LookupFindsNothing
<1>3. ControlOf(p)'
  BY <1>0, IssuerAssumption DEF TypeOK, ControlOf, InIssue, InTransaction, LookupFindsNothing
<1>4. Knows(p)'
  BY <1>0 DEF TypeOK, Knows, ControlOf, InIssue, SameRequestId, NoInkOverlap, NothingStandsInTheWay, LookupFindsNothing
<1>5. Answered'
  BY <1>0 DEF Answered, LookupFindsNothing
<1> QED
  BY <1>1, <1>2, <1>3, <1>4, <1>5, OwnStep

\* The scan establishes that no committed Ink grant overlaps.
LEMMA ScanPassesKeeps ==
  ASSUME Invariant, NEW p \in Proc, ScanPasses(p)
  PROVE  Invariant'
<1>0. TypeOK /\ ControlOf(p) /\ Knows(p) /\ Answered
  BY DEF Invariant, Control, Knowledge
<1>1. OthersUntouched(p) /\ metadata' = metadata /\ issuances' = issuances
  BY <1>0, IssuerAssumption DEF TypeOK, OthersUntouched, ScanPasses, Permits
<1>2. TypeOK'
  BY <1>0 DEF TypeOK, InIssue, ScanPasses, Permits
<1>3. ControlOf(p)'
  BY <1>0, IssuerAssumption DEF TypeOK, ControlOf, InIssue, InTransaction, ScanPasses, Permits
<1>4. Knows(p)'
  BY <1>0 DEF TypeOK, Knows, ControlOf, InIssue, SameRequestId, NoInkOverlap, NothingStandsInTheWay, ScanPasses, Permits
<1>5. Answered'
  BY <1>0 DEF Answered, ScanPasses, Permits
<1> QED
  BY <1>1, <1>2, <1>3, <1>4, <1>5, OwnStep

\* The four ways a call fails inside its transaction all roll back.
LEMMA FailureKeeps ==
  ASSUME Invariant, NEW p \in Proc,
         \/ LookupRefuses(p) \/ ScanRefuses(p)
         \/ SignerFails(p) \/ CommitFails(p)
  PROVE  Invariant'
<1>0. TypeOK /\ ControlOf(p) /\ Knows(p) /\ Answered
  BY DEF Invariant, Control, Knowledge
<1>a. Rollback(p) /\ pc[p] \in {"lookup", "scan", "insert", "commit"}
  BY DEF LookupRefuses, ScanRefuses, SignerFails, CommitFails
<1>b. writer = p /\ issuer[p] \in Issuers /\ metadata = issuer[p].metadata
  BY <1>0, <1>a DEF ControlOf, InTransaction, InIssue
<1>1. OthersUntouched(p) /\ metadata' = metadata /\ issuances' = issuances
  BY <1>0, <1>a, <1>b, IssuerAssumption DEF TypeOK, OthersUntouched, Rollback
<1>2. TypeOK'
  BY <1>0, <1>a DEF TypeOK, Rollback
<1>3. ControlOf(p)'
  BY <1>0, <1>a, <1>b, IssuerAssumption
     DEF TypeOK, ControlOf, InIssue, InTransaction, Rollback
<1>4. Knows(p)'
  BY <1>0, <1>a DEF TypeOK, Knows, Rollback
<1>5. Answered'
  BY <1>0, <1>a DEF Answered, Rollback
<1> QED
  BY <1>1, <1>2, <1>3, <1>4, <1>5, OwnStep

\* The row about to be committed carries the next serial and the overlap scan
\* still holds: nobody else could write since.
LEMMA InsertKeeps ==
  ASSUME Invariant, NEW p \in Proc, Insert(p)
  PROVE  Invariant'
<1>0. TypeOK /\ ControlOf(p) /\ Knows(p) /\ Answered
  BY DEF Invariant, Control, Knowledge
<1>a. /\ Cardinality(issuances) \in Nat
      /\ SerialAfter(issuances) = Cardinality(issuances) + 1
  BY NextSerialIsNext DEF Invariant, History
<1>b. /\ issuer[p].metadata \in MetadataRow
      /\ metadata = issuer[p].metadata
      /\ call[p] \in Call
  BY <1>0, IssuerAssumption DEF Insert, ControlOf, InIssue, IssuerObject
<1>c. NewRow(p) \in Row
  BY <1>a, <1>b DEF NewRow, RowAfter, Row, Call
<1>1. OthersUntouched(p) /\ metadata' = metadata /\ issuances' = issuances
  BY <1>0, IssuerAssumption DEF TypeOK, OthersUntouched, Insert
<1>2. TypeOK'
  BY <1>0, <1>c DEF TypeOK, InIssue, Insert
<1>3. ControlOf(p)'
  BY <1>0, IssuerAssumption DEF TypeOK, ControlOf, InIssue, InTransaction, Insert
<1>4. Knows(p)'
  <2>1. /\ SameRequestId(call[p].rid) = {}
        /\ NothingStandsInTheWay(p)
        /\ Admissible(issuer[p].policy, issuer[p].identity, call[p].request)
    BY <1>0 DEF Insert, Knows, ControlOf, InIssue
  <2>2. NoInkOverlap(call[p].request)
    BY <2>1 DEF NothingStandsInTheWay, NoInkOverlap, Permits
  <2>3. Addable(NewRow(p))
    BY <1>a, <1>b, <2>1, <2>2 DEF Addable, NewRow, RowAfter
  <2>4. IssuedFrom(issuances, issuer[p], call[p].rid, call[p].request, NewRow(p))
    BY <2>1 DEF IssuedFrom, NothingStandsInTheWay, SameRequestId, NewRow
  <2>5. NewRow(p).rid = call[p].rid /\ NewRow(p).request = call[p].request
    BY DEF NewRow, RowAfter
  <2>6. row'[p] = NewRow(p) /\ pc'[p] = "commit"
    BY <1>0 DEF TypeOK, Insert
  <2> QED
    BY <1>c, <2>3, <2>4, <2>5, <2>6
       DEF Knows, Insert, Addable, NoInkOverlap, SameRequestId
<1>5. Answered'
  BY <1>0 DEF Answered, Insert
<1> QED
  BY <1>1, <1>2, <1>3, <1>4, <1>5, OwnStep

\* The answer is the committed row the call has carried since its commit.
LEMMA ReturnKeeps ==
  ASSUME Invariant, NEW p \in Proc, Return(p)
  PROVE  Invariant'
<1>0. TypeOK /\ ControlOf(p) /\ Knows(p) /\ Answered
  BY DEF Invariant, Control, Knowledge
<1>1. OthersUntouched(p) /\ metadata' = metadata /\ issuances' = issuances
  BY <1>0, IssuerAssumption DEF TypeOK, OthersUntouched, Return
<1>2. TypeOK'
  BY <1>0 DEF TypeOK, InIssue, Return, ControlOf, Knows, Call
<1>3. ControlOf(p)'
  BY <1>0, IssuerAssumption DEF TypeOK, ControlOf, InIssue, InTransaction, Return
<1>4. Knows(p)'
  BY <1>0 DEF TypeOK, Knows, ControlOf, InIssue, SameRequestId, NoInkOverlap, NothingStandsInTheWay, Return
<1>5. Answered'
  BY <1>0 DEF Answered, Return, Knows
<1> QED
  BY <1>1, <1>2, <1>3, <1>4, <1>5, OwnStep

\* get_committed answers with a committed row.
LEMMA GetCommittedKeeps ==
  ASSUME Invariant, NEW p \in Proc, NEW rid \in RequestId, GetCommitted(p, rid)
  PROVE  Invariant'
<1>0. TypeOK /\ ControlOf(p) /\ Knows(p) /\ Answered
  BY DEF Invariant, Control, Knowledge
<1>1. OthersUntouched(p) /\ metadata' = metadata /\ issuances' = issuances
  BY <1>0, IssuerAssumption DEF TypeOK, OthersUntouched, GetCommitted
<1>2. TypeOK'
  BY <1>0 DEF TypeOK, InIssue, GetCommitted, SameRequestId, Row
<1>3. ControlOf(p)'
  BY <1>0, IssuerAssumption DEF TypeOK, ControlOf, InIssue, InTransaction, GetCommitted
<1>4. Knows(p)'
  BY <1>0 DEF TypeOK, Knows, ControlOf, InIssue, SameRequestId, NoInkOverlap, NothingStandsInTheWay, GetCommitted
<1>5. Answered'
  BY <1>0 DEF Answered, GetCommitted, SameRequestId
<1> QED
  BY <1>1, <1>2, <1>3, <1>4, <1>5, OwnStep

\* A crash frees the lock only when the crashed process held it.
LEMMA CrashKeeps ==
  ASSUME Invariant, NEW p \in Proc, Crash(p)
  PROVE  Invariant'
<1>0. TypeOK /\ ControlOf(p) /\ Knows(p) /\ Answered
  BY DEF Invariant, Control, Knowledge
<1>1. OthersUntouched(p) /\ metadata' = metadata /\ issuances' = issuances
  BY <1>0, IssuerAssumption DEF TypeOK, OthersUntouched, Crash, ControlOf, InTransaction
<1>2. TypeOK'
  BY <1>0 DEF TypeOK, InIssue, Crash
<1>3. ControlOf(p)'
  BY <1>0, IssuerAssumption DEF TypeOK, ControlOf, InIssue, InTransaction, Crash
<1>4. Knows(p)'
  BY <1>0 DEF TypeOK, Knows, ControlOf, InIssue, SameRequestId, NoInkOverlap, NothingStandsInTheWay, Crash
<1>5. Answered'
  BY <1>0 DEF Answered, Crash
<1> QED
  BY <1>1, <1>2, <1>3, <1>4, <1>5, OwnStep

\* The database comes to belong to p's configuration, or already does; where
\* it did not, there is no row and nobody has an open issuer.
LEMMA InitializeDatabaseKeeps ==
  ASSUME Invariant, NEW p \in Proc, InitializeDatabase(p)
  PROVE  Invariant'
<1>0. TypeOK /\ ControlOf(p) /\ Knows(p) /\ Answered /\ History
  BY DEF Invariant, Control, Knowledge
<1>1. /\ issuer[p] \in Issuers
      /\ issuer[p].metadata \in MetadataRow
      /\ writer = p
  BY <1>0, IssuerAssumption
     DEF InitializeDatabase, ControlOf, InTransaction, IssuerObject
<1>2. ASSUME NEW q \in Proc, q # p
      PROVE  ControlOf(q)' /\ Knows(q)'
  <2>1. ControlOf(q) /\ Knows(q)
    BY DEF Invariant, Control, Knowledge
  <2>2. /\ pc'[q] = pc[q] /\ pc[q] \notin InTransaction
        /\ UNCHANGED <<issuances, issuer, call, row>>
        /\ writer' = None
    BY <1>0, <1>1, <1>2, <2>1 DEF TypeOK, InitializeDatabase, ControlOf
  <2>3. pc[q] \in {"open"} \cup InIssue => metadata' = metadata
    <3>1. SUFFICES ASSUME pc[q] \in {"open"} \cup InIssue
                   PROVE  metadata' = metadata
      OBVIOUS
    <3>2. issuer[q] \in Issuers /\ metadata = issuer[q].metadata
      BY <2>1, <3>1 DEF ControlOf, InIssue
    <3>3. metadata # None
      BY <3>2, IssuerAssumption DEF IssuerObject
    <3> QED
      BY <3>3 DEF InitializeDatabase
  <2>4. ControlOf(q)'
    BY <2>1, <2>2, <2>3, IssuerAssumption DEF ControlOf
  <2>5. Knows(q)'
    BY <2>1, <2>2 DEF Knows, InTransaction
  <2> QED
    BY <2>4, <2>5
<1>3. TypeOK'
  BY <1>0, <1>1 DEF TypeOK, InitializeDatabase
<1>4. ControlOf(p)'
  BY <1>0, <1>1, IssuerAssumption
     DEF TypeOK, ControlOf, InIssue, InTransaction, InitializeDatabase
<1>5. Knows(p)'
  BY <1>0 DEF TypeOK, Knows, InitializeDatabase
<1>6. RowsBelongToDatabase'
  <2>1. ASSUME metadata = None
        PROVE  issuances = {}
    BY <1>0, <2>1, IssuerAssumption DEF TypeOK, History, RowsBelongToDatabase, Row
  <2> QED
    BY <1>0, <2>1 DEF History, RowsBelongToDatabase, InitializeDatabase
<1>7. History'
  BY <1>0, <1>6 DEF History, SerialsAreContiguous, NoOverlappingInkGrants,
                    InitializeDatabase
<1>8. Answered'
  BY <1>0 DEF Answered, InitializeDatabase
<1>9. Control' /\ Knowledge'
  BY <1>2, <1>4, <1>5 DEF Control, Knowledge
<1> QED
  BY <1>3, <1>7, <1>8, <1>9 DEF Invariant

\* Adding a row that is Addable keeps what committed rows have in common.
LEMMA AddingKeepsHistory ==
  ASSUME TypeOK, History, NEW g \in Row, Addable(g),
         \E i \in Issuers : Admissible(i.policy, i.identity, g.request),
         issuances' = issuances \cup {g}, metadata' = metadata
  PROVE  History'
<1> DEFINE n == Cardinality(issuances)
<1>1. g \notin issuances
  BY DEF Addable, SameRequestId
<1>2. /\ n \in Nat
      /\ IsFiniteSet(issuances')
      /\ Cardinality(issuances') = n + 1
  BY <1>1, FS_CardinalityType, FS_AddElement DEF History
<1>3. {h.serial : h \in issuances'} = 1..(n + 1)
  <2>1. {h.serial : h \in issuances'} = {h.serial : h \in issuances} \cup {n + 1}
    BY DEF Addable
  <2> QED
    BY <1>2, <2>1 DEF History, SerialsAreContiguous
<1>4. \A h, k \in issuances' : h.serial = k.serial => h = k
  <2>1. \A h \in issuances : h.serial \in 1..n
    BY DEF History, SerialsAreContiguous
  <2>2. \A h \in issuances : h.serial # g.serial
    BY <1>2, <2>1 DEF Addable
  <2> QED
    BY <2>2 DEF History, SerialsAreContiguous
<1>5. SerialsAreContiguous'
  BY <1>2, <1>3, <1>4 DEF SerialsAreContiguous
<1>6. \A h, k \in issuances' : h.rid = k.rid => h = k
  BY DEF History, Addable, SameRequestId
<1>7. NoOverlappingInkGrants'
  BY OverlapSymmetric DEF History, NoOverlappingInkGrants, Addable, NoInkOverlap
<1>8. RowsBelongToDatabase'
  BY DEF History, RowsBelongToDatabase, Addable
<1> QED
  BY <1>2, <1>5, <1>6, <1>7, <1>8 DEF History

\* The row that commits is in the table already or joins it as an Addable one.
LEMMA CommitKeeps ==
  ASSUME Invariant, NEW p \in Proc, Commit(p)
  PROVE  Invariant'
<1>0. TypeOK /\ ControlOf(p) /\ Knows(p) /\ Answered /\ History
  BY DEF Invariant, Control, Knowledge
<1>1. /\ writer = p
      /\ row[p] \in Row
      /\ row[p] \in issuances \/ Addable(row[p])
      /\ issuer[p] \in Issuers
      /\ Admissible(issuer[p].policy, issuer[p].identity, row[p].request)
  BY <1>0 DEF Commit, ControlOf, Knows, InTransaction, InIssue
<1>2. TypeOK'
  BY <1>0, <1>1 DEF TypeOK, Commit, InIssue
<1>3. ASSUME NEW q \in Proc
      PROVE  ControlOf(q)'
  <2>1. ControlOf(q)
    BY DEF Invariant, Control
  <2> QED
    BY <1>0, <1>1, <2>1, IssuerAssumption
       DEF TypeOK, Commit, ControlOf, InTransaction, InIssue
<1>4. ASSUME NEW q \in Proc
      PROVE  Knows(q)'
  <2>1. ControlOf(q) /\ Knows(q)
    BY DEF Invariant, Control, Knowledge
  <2>2. CASE q = p
    BY <1>0, <1>1, <2>1, <2>2 DEF TypeOK, Commit, Knows
  <2>3. CASE q # p
    <3>1. pc'[q] = pc[q] /\ pc[q] \notin InTransaction
      BY <1>0, <1>1, <2>1, <2>3 DEF TypeOK, Commit, ControlOf
    <3> QED
      BY <2>1, <3>1 DEF Commit, Knows, InTransaction
  <2> QED
    BY <2>2, <2>3
<1>5. History'
  <2>1. CASE row[p] \in issuances
    <3>1. issuances' = issuances /\ metadata' = metadata
      BY <2>1 DEF Commit
    <3> QED
      BY <1>0, <3>1 DEF History, SerialsAreContiguous, NoOverlappingInkGrants,
                        RowsBelongToDatabase
  <2>2. CASE Addable(row[p])
    BY <1>0, <1>1, <2>2, AddingKeepsHistory DEF Commit
  <2> QED
    BY <1>1, <2>1, <2>2
<1>6. Answered'
  BY <1>0 DEF Answered, Commit
<1> QED
  BY <1>2, <1>3, <1>4, <1>5, <1>6 DEF Invariant, Control, Knowledge
-----------------------------------------------------------------------------
(* The invariant                                                           *)

\* The empty database satisfies the invariant.
LEMMA InitInvariant == Init => Invariant
<1> SUFFICES ASSUME Init
             PROVE  Invariant
  OBVIOUS
<1>1. TypeOK
  BY DEF Init, TypeOK
<1>2. Control /\ Knowledge
  BY IssuerAssumption
     DEF Init, Control, ControlOf, Knowledge, Knows, InIssue, InTransaction
<1>3. History
  <2>1. IsFiniteSet(issuances) /\ Cardinality(issuances) = 0
    BY FS_EmptySet DEF Init
  <2>2. SerialsAreContiguous
    BY <2>1 DEF Init, SerialsAreContiguous
  <2> QED
    BY <2>1, <2>2 DEF Init, History, NoOverlappingInkGrants, RowsBelongToDatabase
<1>4. Answered
  BY DEF Init, Answered
<1> QED
  BY <1>1, <1>2, <1>3, <1>4 DEF Invariant

\* Every step keeps it: one case per action.
LEMMA NextInvariant == Invariant /\ [Next]_vars => Invariant'
<1> SUFFICES ASSUME Invariant, [Next]_vars
             PROVE  Invariant'
  OBVIOUS
<1>1. CASE UNCHANGED vars
  BY <1>1 DEF vars, Invariant, TypeOK, Control, ControlOf, Knowledge, Knows,
              History, Answered, SerialsAreContiguous, NoOverlappingInkGrants,
              RowsBelongToDatabase, Addable, NoInkOverlap, SameRequestId,
              NothingStandsInTheWay
<1>2. CASE Next
  <2>1. PICK p \in Proc :
          \/ \E i \in Issuers : Construct(p, i)
          \/ \E rid \in RequestId, r \in Requests : Issue(p, rid, r)
          \/ \E rid \in RequestId : GetCommitted(p, rid)
          \/ Step(p)
          \/ Crash(p)
    BY <1>2 DEF Next
  <2>2. CASE \E i \in Issuers : Construct(p, i)
    BY <2>2, ConstructKeeps
  <2>3. CASE \E rid \in RequestId, r \in Requests : Issue(p, rid, r)
    BY <2>3, IssueKeeps
  <2>4. CASE \E rid \in RequestId : GetCommitted(p, rid)
    BY <2>4, GetCommittedKeeps
  <2>5. CASE Step(p)
    BY <2>5, BeginKeeps, TimeoutKeeps, InitializeDatabaseKeeps,
       InitializeFailsKeeps, LookupFindsCommittedKeeps, LookupFindsNothingKeeps,
       ScanPassesKeeps, FailureKeeps, InsertKeeps, CommitKeeps, ReturnKeeps
       DEF Step
  <2>6. CASE Crash(p)
    BY <2>6, CrashKeeps
  <2> QED
    BY <2>1, <2>2, <2>3, <2>4, <2>5, <2>6
<1> QED
  BY <1>1, <1>2

\* The inductive invariant holds in every reachable state; the safety theorems
\* below are its consequences.
THEOREM InvariantHolds == Spec => []Invariant
<1>1. Init => Invariant
  BY InitInvariant
<1>2. Invariant /\ [Next]_vars => Invariant'
  BY NextInvariant
<1> QED
  BY <1>1, <1>2, PTL DEF Spec

\* Every variable keeps its type through every interleaving of constructors,
\* calls, failures and crashes.
THEOREM TypeCorrect == Spec => []TypeOK
<1>1. Invariant => TypeOK
  BY DEF Invariant
<1> QED
  BY <1>1, InvariantHolds, PTL

\* However many issuers contend for one database, and wherever they crash or
\* fail, committed serials are 1, 2, 3, ... without gap or repetition.
THEOREM SerialsStayContiguous == Spec => []SerialsAreContiguous
<1>1. Invariant => SerialsAreContiguous
  BY DEF Invariant, History
<1> QED
  BY <1>1, InvariantHolds, PTL

\* No two Ink grants of one database are valid at the same instant, whatever
\* checkouts and policies their issuers had.
THEOREM InkGrantsNeverOverlap == Spec => []NoOverlappingInkGrants
<1>1. Invariant => NoOverlappingInkGrants
  BY DEF Invariant, History
<1> QED
  BY <1>1, InvariantHolds, PTL

\* A receipt is returned only once committed, for what was asked, and it is
\* the same one for everybody who ever asks under that request id.
THEOREM AnswersStayCommitted == Spec => []AnswersAreCommitted
<1>1. Invariant => AnswersAreCommitted
  BY DEF Invariant, History, Answered, AnswersAreCommitted
<1> QED
  BY <1>1, InvariantHolds, PTL

\* All rows of a database were signed under the one configuration it belongs
\* to: the race of several configurations for a new database has one winner.
THEOREM RowsStayInTheirDatabase == Spec => []RowsBelongToDatabase
<1>1. Invariant => RowsBelongToDatabase
  BY DEF Invariant, History
<1> QED
  BY <1>1, InvariantHolds, PTL

\* An open issuer recovers every committed receipt whose request it admits.
THEOREM HistoryStaysRecoverable == Spec => []AdmissibleHistoryIsRecoverable
<1>1. Invariant => AdmissibleHistoryIsRecoverable
  <2> SUFFICES ASSUME Invariant, NEW p \in Proc, pc[p] \in {"open"} \cup InIssue,
                      NEW g \in issuances,
                      Admissible(issuer[p].policy, issuer[p].identity, g.request)
               PROVE  Validates(issuer[p], g, FALSE)
    BY DEF AdmissibleHistoryIsRecoverable
  <2>1. issuer[p] \in Issuers /\ metadata = issuer[p].metadata
    BY DEF Invariant, Control, ControlOf, InIssue
  <2>2. g.metadata = metadata
    BY DEF Invariant, History, RowsBelongToDatabase
  <2>3. g.metadata.root = issuer[p].policy.root
    BY <2>1, <2>2, IssuerAssumption
  <2> QED
    BY <2>1, <2>2, <2>3 DEF Validates
<1> QED
  BY <1>1, InvariantHolds, PTL

\* Every committed Ink grant has the exact reviewed scope of some checkout
\* and ends no later than the dust envelope allows after its issue.
THEOREM InkGrantsStayInsideEnvelope == Spec => []InkGrantsAreInsideEnvelope
<1>1. Invariant => InkGrantsAreInsideEnvelope
  <2> SUFFICES ASSUME Invariant, NEW g \in issuances, IsInk(g.request)
               PROVE
                 /\ \E identity \in Identity :
                      g.request.scope = GrantPreparation(identity)
                 /\ g.request.notAfter
                      <= g.request.issuedAt + INK_V0F_MAX_GRANT_DURATION_S
                 /\ ActiveAt(g.request, g.request.issuedAt)
    BY DEF InkGrantsAreInsideEnvelope
  <2>1. PICK i \in Issuers : Admissible(i.policy, i.identity, g.request)
    BY DEF Invariant, History
  <2>2. i.identity \in Identity
    BY IssuerAssumption DEF IssuerObject
  <2>3. /\ g.request.scope = GrantPreparation(i.identity)
        /\ Duration(g.request) <= INK_V0F_MAX_GRANT_DURATION_S
        /\ ActiveAt(g.request, g.request.issuedAt)
    BY <2>1 DEF Admissible, ExactBinding
  <2>4. g.request \in Request
    BY IssuerAssumption DEF Invariant, TypeOK, Row
  <2>5. /\ g.request.notBefore \in Nat
        /\ g.request.notAfter \in Nat
        /\ g.request.issuedAt \in Nat
    BY <2>4 DEF Request
  <2>6. INK_V0F_MAX_GRANT_DURATION_S \in Nat
    BY PolicyConstantsAssumption
  <2>7. g.request.notAfter <= g.request.issuedAt + INK_V0F_MAX_GRANT_DURATION_S
    BY <2>3, <2>5, <2>6 DEF Duration, ActiveAt
  <2> QED
    BY <2>2, <2>3, <2>7
<1> QED
  BY <1>1, InvariantHolds, PTL
-----------------------------------------------------------------------------
(* A call is one step                                                      *)

\* A call that is refused in its transaction is one that issue() has no
\* receipt for: one request id has one row, and one obstacle is enough.
LEMMA RefusedCallsHaveNoReceipt ==
  ASSUME Invariant, NEW p \in Proc, LookupRefuses(p) \/ ScanRefuses(p), NEW g
  PROVE  ~IssuedFrom(issuances, issuer[p], call[p].rid, call[p].request, g)
<1> SUFFICES ASSUME IssuedFrom(issuances, issuer[p], call[p].rid, call[p].request, g)
             PROVE  FALSE
  OBVIOUS
<1>1. CASE LookupRefuses(p)
  <2>1. PICK h \in issuances :
          /\ h.rid = call[p].rid
          /\ h.request # call[p].request \/ ~Validates(issuer[p], h, FALSE)
    BY <1>1 DEF LookupRefuses, SameRequestId
  <2>2. /\ g \in issuances /\ g.rid = call[p].rid
        /\ g.request = call[p].request /\ Validates(issuer[p], g, FALSE)
    BY <2>1 DEF IssuedFrom
  <2>3. g = h
    BY <2>1, <2>2 DEF Invariant, History
  <2> QED
    BY <2>1, <2>2, <2>3
<1>2. CASE ScanRefuses(p)
  <2>1. SameRequestId(call[p].rid) = {} /\ IsInk(call[p].request)
    BY <1>2 DEF ScanRefuses, Invariant, Knowledge, Knows
  <2>2. \A h \in issuances : Permits(issuer[p], h, call[p].request)
    BY <2>1 DEF IssuedFrom, SameRequestId
  <2> QED
    BY <1>2, <2>2 DEF ScanRefuses
<1> QED
  BY <1>1, <1>2

\* Which action a step of p's call out of these places is.
LEMMA StepOutOfTransaction ==
  ASSUME Invariant, [Next]_vars, NEW p \in Proc,
         pc[p] \in {"lookup", "scan"}, pc'[p] = "open"
  PROVE  LookupRefuses(p) \/ ScanRefuses(p)
<1>1. Next
  BY DEF vars
<1>2. PICK q \in Proc :
        \/ \E i \in Issuers : Construct(q, i)
        \/ \E rid \in RequestId, r \in Requests : Issue(q, rid, r)
        \/ \E rid \in RequestId : GetCommitted(q, rid)
        \/ Step(q)
        \/ Crash(q)
  BY <1>1 DEF Next
<1>3. pc \in [Proc -> {"idle", "connect", "initialize", "open"} \cup InIssue]
  BY DEF Invariant, TypeOK
<1>4. q = p
  BY <1>2, <1>3 DEF Construct, Issue, GetCommitted, Crash, Step,
     BeginInitialize, BeginIssue, BeginImmediate, InitializeTimesOut,
     IssueTimesOut, BusyTimeout, InitializeDatabase, InitializeFails,
     LookupFindsCommitted, LookupRefuses, LookupFindsNothing, ScanPasses,
     ScanRefuses, Insert, SignerFails, Commit, CommitFails, Rollback, Return
<1> QED
  BY <1>2, <1>3, <1>4 DEF Construct, Issue, GetCommitted, Crash, Step,
     BeginInitialize, BeginIssue, BeginImmediate, InitializeTimesOut,
     IssueTimesOut, BusyTimeout, InitializeDatabase, InitializeFails,
     LookupFindsCommitted, LookupFindsNothing, ScanPasses, Insert,
     SignerFails, Commit, CommitFails, Return

\* A call is atomic: whatever other issuers do between its steps, what it
\* returns is what issue() makes of the rows at its commit, and it is refused
\* only where issue() has no receipt for it.
THEOREM CallsStayAtomic == Spec => CallsAreAtomic
<1> DEFINE Atomic ==
      \A p \in Proc :
        LET Decides(g) == IssuedFrom(issuances, issuer[p], call[p].rid,
                                     call[p].request, g)
        IN  /\ pc[p] = "commit" /\ pc'[p] = "return" => Decides(row[p])
            /\ pc[p] \in {"lookup", "scan"} /\ pc'[p] = "open" =>
                 ~\E g \in issuances \cup {NewRow(p)} : Decides(g)
<1>1. Invariant /\ [Next]_vars => Atomic
  <2> SUFFICES ASSUME Invariant, [Next]_vars, NEW p \in Proc
               PROVE
                 /\ pc[p] = "commit" /\ pc'[p] = "return" =>
                      IssuedFrom(issuances, issuer[p], call[p].rid,
                                 call[p].request, row[p])
                 /\ pc[p] \in {"lookup", "scan"} /\ pc'[p] = "open" =>
                      ~\E g \in issuances \cup {NewRow(p)} :
                         IssuedFrom(issuances, issuer[p], call[p].rid,
                                    call[p].request, g)
    OBVIOUS
  <2>1. pc[p] = "commit" =>
          IssuedFrom(issuances, issuer[p], call[p].rid, call[p].request, row[p])
    BY DEF Invariant, Knowledge, Knows
  <2>2. pc[p] \in {"lookup", "scan"} /\ pc'[p] = "open" =>
          ~\E g \in issuances \cup {NewRow(p)} :
             IssuedFrom(issuances, issuer[p], call[p].rid, call[p].request, g)
    BY StepOutOfTransaction, RefusedCallsHaveNoReceipt
  <2> QED
    BY <2>1, <2>2
<1> QED
  BY <1>1, InvariantHolds, PTL DEF Spec, CallsAreAtomic

-----------------------------------------------------------------------------
(* The issuer implements the abstract ledger                               *)

\* Both modules mean the same by an overlap and by the next serial.
LEMMA LedgerOperators ==
  /\ Ledger!NextSerial = SerialAfter(issuances)
  /\ \A r : Ledger!IsInk(r) <=> IsInk(r)
  /\ \A r, s : Ledger!Overlap(r, s) <=> Overlap(r, s)
<1>1. Ledger!NextSerial = SerialAfter(issuances)
  BY DEF Ledger!NextSerial, SerialAfter, Ledger!Max, Max
<1>2. \A r : Ledger!IsInk(r) <=> IsInk(r)
  BY DEF Ledger!IsInk, IsInk
<1>3. \A r, s : Ledger!Overlap(r, s) <=> Overlap(r, s)
  BY Zenon DEF Ledger!Overlap, Overlap, Ledger!Max, Max, Ledger!Min, Min
<1> QED
  BY <1>1, <1>2, <1>3

\* The empty database is the empty ledger.
LEMMA InitRefines == Init => Ledger!Init
  BY DEF Init, Ledger!Init

\* A commit is a Grant of the ledger, or a stutter when the row was there.
LEMMA CommitRefines ==
  ASSUME Invariant, NEW p \in Proc, Commit(p)
  PROVE  [Ledger!Next]_(Ledger!vars)
<1> DEFINE g == row[p]
<1>1. /\ g \in Row
      /\ g \in issuances \/ Addable(g)
      /\ metadata = issuer[p].metadata
      /\ issuer[p] \in Issuers
  BY DEF Invariant, Control, ControlOf, Knowledge, Knows, Commit, InIssue
<1>2. /\ issuances' = issuances \cup {g}
      /\ UNCHANGED <<metadata, answers>>
  BY DEF Commit
<1>3. CASE g \in issuances
  BY <1>2, <1>3 DEF Ledger!vars
<1>4. CASE Addable(g)
  <2>1. g.serial = Ledger!NextSerial
    BY <1>4, NextSerialIsNext, LedgerOperators DEF Addable, Invariant, History
  <2>2. g = [rid |-> g.rid, request |-> g.request,
             serial |-> Ledger!NextSerial, metadata |-> metadata]
    BY <1>1, <1>4, <2>1 DEF Addable, Row
  <2>3. metadata # None
    BY <1>1, IssuerAssumption DEF IssuerObject
  <2>4. Ledger!Grant(g.rid, g.request)
    BY <1>2, <1>4, <2>2, <2>3, LedgerOperators
       DEF Ledger!Grant, Addable, NoInkOverlap, SameRequestId
  <2>5. g.rid \in RequestId /\ g.request \in Requests
    BY <1>1 DEF Row
  <2> QED
    BY <2>4, <2>5 DEF Ledger!Next
<1> QED
  BY <1>1, <1>3, <1>4

\* A return is an Answer of the ledger.
LEMMA ReturnRefines ==
  ASSUME Invariant, NEW p \in Proc, Return(p)
  PROVE  [Ledger!Next]_(Ledger!vars)
<1>1. /\ row[p] \in issuances
      /\ row[p].rid = call[p].rid
      /\ row[p].request = call[p].request
  BY DEF Invariant, Knowledge, Knows, Return
<1>2. Ledger!Answer(row[p])
  BY <1>1 DEF Return, Ledger!Answer
<1> QED
  BY <1>1, <1>2 DEF Ledger!Next

\* So is a get_committed.
LEMMA GetCommittedRefines ==
  ASSUME NEW p \in Proc, NEW rid \in RequestId, GetCommitted(p, rid)
  PROVE  [Ledger!Next]_(Ledger!vars)
<1>1. PICK g \in issuances :
        /\ g.rid = rid
        /\ answers' = answers \cup
             {[rid |-> rid, request |-> g.request, grant |-> g]}
  BY DEF GetCommitted, SameRequestId
<1>2. Ledger!Answer(g)
  BY <1>1 DEF GetCommitted, Ledger!Answer
<1> QED
  BY <1>2 DEF Ledger!Next

\* The first initialization is a Configure, a later one a stutter.
LEMMA InitializeDatabaseRefines ==
  ASSUME Invariant, NEW p \in Proc, InitializeDatabase(p)
  PROVE  [Ledger!Next]_(Ledger!vars)
<1>1. issuer[p] \in Issuers
  BY DEF Invariant, Control, ControlOf, InitializeDatabase
<1>2. CASE metadata = None
  <2>1. Ledger!Configure(issuer[p].metadata)
    BY <1>2 DEF InitializeDatabase, Ledger!Configure
  <2> QED
    BY <1>1, <2>1 DEF Ledger!Next
<1>3. CASE metadata = issuer[p].metadata
  BY <1>3 DEF InitializeDatabase, Ledger!vars
<1> QED
  BY <1>2, <1>3 DEF InitializeDatabase

\* What the remaining actions do is out of the abstract ledger's sight.
LEMMA OtherStepsStutter ==
  ASSUME NEW p \in Proc,
         \/ \E i \in Issuers : Construct(p, i)
         \/ \E rid \in RequestId, r \in Requests : Issue(p, rid, r)
         \/ Crash(p)
         \/ Step(p) /\ ~Commit(p) /\ ~Return(p) /\ ~InitializeDatabase(p)
  PROVE  UNCHANGED <<metadata, issuances, answers>>
<1>1. CASE \E i \in Issuers : Construct(p, i)
  BY <1>1 DEF Construct
<1>2. CASE \E rid \in RequestId, r \in Requests : Issue(p, rid, r)
  BY <1>2 DEF Issue
<1>3. CASE Crash(p)
  BY <1>3 DEF Crash
<1>4. CASE Step(p) /\ ~Commit(p) /\ ~Return(p) /\ ~InitializeDatabase(p)
  BY <1>4 DEF Step, BeginInitialize, BeginIssue, BeginImmediate,
     InitializeTimesOut, IssueTimesOut, BusyTimeout, InitializeFails,
     LookupFindsCommitted, LookupRefuses, LookupFindsNothing, ScanPasses,
     ScanRefuses, Insert, SignerFails, CommitFails, Rollback
<1> QED
  BY <1>1, <1>2, <1>3, <1>4

\* Every step of the issuer is a step of the ledger or a stutter.
LEMMA NextRefines ==
  ASSUME Invariant, [Next]_vars
  PROVE  [Ledger!Next]_(Ledger!vars)
<1>1. CASE UNCHANGED vars
  BY <1>1 DEF vars, Ledger!vars
<1>2. CASE Next
  <2>1. PICK p \in Proc :
          \/ \E i \in Issuers : Construct(p, i)
          \/ \E rid \in RequestId, r \in Requests : Issue(p, rid, r)
          \/ \E rid \in RequestId : GetCommitted(p, rid)
          \/ Step(p)
          \/ Crash(p)
    BY <1>2 DEF Next
  <2>2. CASE \E rid \in RequestId : GetCommitted(p, rid)
    BY <2>2, GetCommittedRefines
  <2>3. CASE Commit(p) \/ Return(p) \/ InitializeDatabase(p)
    BY <2>3, CommitRefines, ReturnRefines, InitializeDatabaseRefines
  <2>4. CASE \/ \E i \in Issuers : Construct(p, i)
             \/ \E rid \in RequestId, r \in Requests : Issue(p, rid, r)
             \/ Crash(p)
             \/ Step(p) /\ ~Commit(p) /\ ~Return(p) /\ ~InitializeDatabase(p)
    BY <2>4, OtherStepsStutter DEF Ledger!vars
  <2> QED
    BY <2>1, <2>2, <2>3, <2>4
<1> QED
  BY <1>1, <1>2

\* The issuer, with its locks, transactions, failures, crashes and retries,
\* implements the abstract issuance ledger.
THEOREM IssuerImplementsGrantLedger == Spec => ImplementsGrantLedger
<1>1. Init => Ledger!Init
  BY InitRefines
<1>2. Invariant /\ [Next]_vars => [Ledger!Next]_(Ledger!vars)
  BY NextRefines
<1> QED
  BY <1>1, <1>2, InvariantHolds, PTL DEF Spec, Ledger!Spec, ImplementsGrantLedger
=============================================================================
