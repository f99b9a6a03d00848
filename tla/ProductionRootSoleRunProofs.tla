---------------------- MODULE ProductionRootSoleRunProofs ----------------------
(***************************************************************************)
(* Theorems about ProductionRoot for an operator who keeps runs apart: the *)
(* runs of one lane, or all of them.  The scripts' own checks before the   *)
(* issuer's transaction rest on that: what a run has read of the ledgers   *)
(* is still what they hold when it commits.  Crashes, retries and rebinds  *)
(* are as in ProductionRoot, and where only the runs of one lane are kept  *)
(* apart those of the other interleave with them as they like.             *)
(***************************************************************************)
EXTENDS ProductionRootExportProofs

\* No run of a lane begins before the one before it has ended, or died.
RunsAlone(l) ==
  \A p, q \in Proc :
    /\ InProgress(p) /\ run[p].lane = l
    /\ InProgress(q) /\ run[q].lane = l
    => p = q

\* No run begins before the one before it has ended, or died.
OneRunAtATime == \A p, q \in Proc : InProgress(p) /\ InProgress(q) => p = q

\* The steps between the inspection of the history and the commit.
Deciding == {"list", "survey", "open", "initialize", "issue"}

\* The history the run at p did not refuse is the lane's history.
HistoryStands(p) ==
  LET t == run[p].issuedAt
  IN  run[p].pc \in Deciding =>
        /\ run[p].lane = EPOCH5 =>
             \A g \in issuances[EPOCH5] : g.rid = RequestIdOf(t)
        /\ run[p].lane = EPOCH6 /\ ExactRows(EPOCH6, t) = {} =>
             \A g \in issuances[EPOCH6] : g.request.notAfter <= t

\* Every grant active in a ledger that has been read, or did not exist when
\* they were listed, has been seen; past the preflight there is none in the
\* other lane.
SurveyStands(p) ==
  LET t == run[p].issuedAt
  IN  /\ run[p].pc = "survey" =>
           \A m \in Lane \ run[p].unread : ActiveIn(m, t) \subseteq run[p].active
      /\ run[p].pc \in {"open", "initialize", "issue"} =>
           \A m \in Lane \ {run[p].lane} : ActiveIn(m, t) = {}

\* What a lane whose runs are kept apart holds.
InOrder(l) ==
  /\ l = EPOCH5 => EpochFiveHoldsOneRequest
  /\ l = EPOCH6 => SuccessorsStartAfterExpiry

LaneInvariant(l) ==
  InOrder(l) /\ \A p \in Proc : run[p].lane = l => HistoryStands(p)

SoleInvariant ==
  /\ Invariant
  /\ \A l \in Lane : LaneInvariant(l)
  /\ \A p \in Proc : SurveyStands(p)

-----------------------------------------------------------------------------
(* Steps that commit nothing                                               *)

\* A ledger whose file does not exist holds no grant.
LEMMA AbsentIsEmpty ==
  ASSUME Invariant, NEW l \in Lane, database[l] # "ready"
  PROVE  issuances[l] = {}
  BY DEF Invariant, History, HistoryOf

\* Until it commits, a run's steps leave the history as it found it.
LEMMA HistoryStillStands ==
  ASSUME NEW p \in Proc, HistoryStands(p), run[p].pc \in Deciding,
         issuances' = issuances, run'[p].lane = run[p].lane,
         run'[p].issuedAt = run[p].issuedAt
  PROVE  HistoryStands(p)'
  BY DEF HistoryStands, ExactRows

\* A run's own steps: the inspection lets a history pass that the request may
\* extend, and what it let pass stays so.
LEMMA OwnHistoryStands ==
  ASSUME Invariant, NEW p \in Proc, HistoryStands(p), Step(p), issuances' = issuances
  PROVE  HistoryStands(p)'
<1> DEFINE l == run[p].lane
           t == run[p].issuedAt
<1>1. run \in [Proc -> Run] /\ (run[p].pc # "idle" => l \in Lane)
  BY DEF Invariant, TypeOK, Knowledge, Knows
<1>2. CASE run'[p].pc \notin Deciding
  BY <1>2 DEF HistoryStands
<1>3. CASE InspectHistory(p)
  <2>1. l \in Lane /\ HistoryAdmits(l, run[p].identity, t)
    BY <1>1, <1>3 DEF InspectHistory
  <2>2. run'[p].lane = l /\ run'[p].issuedAt = t
    BY <1>1, <1>3 DEF InspectHistory, Run
  <2>3. CASE database[l] # "ready"
    <3>1. issuances[l] = {}
      BY <2>1, <2>3, AbsentIsEmpty
    <3> QED
      BY <2>2, <3>1 DEF HistoryStands
  <2>4. CASE database[l] = "ready"
    <3>1. l = EPOCH5 => \A g \in issuances[EPOCH5] : g.rid = RequestIdOf(t)
      BY <2>1, <2>4 DEF HistoryAdmits, Epoch5Admits
    <3>2. l = EPOCH6 /\ ExactRows(EPOCH6, t) = {} =>
            \A g \in issuances[EPOCH6] : g.request.notAfter <= t
      BY <2>1, <2>4 DEF HistoryAdmits, Epoch6Admits
    <3> QED
      BY <2>2, <3>1, <3>2 DEF HistoryStands, ExactRows
  <2> QED
    BY <2>3, <2>4
<1>4. CASE ListLedgers(p) \/ SurveyLedger(p) \/ Preflight(p)
           \/ OpenDatabase(p) \/ InitializeDatabase(p)
  <2>1. /\ run[p].pc \in Deciding /\ run'[p].lane = l /\ run'[p].issuedAt = t
    BY <1>1, <1>4 DEF ListLedgers, SurveyLedger, Preflight, OpenDatabase,
                      InitializeDatabase, Goto, Run, Deciding
  <2> QED
    BY <2>1, HistoryStillStands
<1>5. CASE \/ Issue(p) \/ Verify(p) \/ ExportIsThere(p) \/ ExportIsMissing(p)
           \/ CreateTemporary(p) \/ WriteTemporary(p) \/ Publish(p) \/ SetMode(p)
  <2>1. run'[p].pc \notin Deciding
    BY <1>1, <1>5 DEF Issue, Verify, ExportIsThere, ExportIsMissing, CreateTemporary,
                      WriteTemporary, Publish, SetMode, Goto, Run, Deciding
  <2> QED
    BY <1>2, <2>1
<1>6. CASE WriteFails(p) \/ Report(p) \/ Refuses(p)
  <2>1. run'[p] = Idle
    BY <1>1, <1>6 DEF WriteFails, Report, Refuses, Refuse, InspectHistoryRefuses,
       PreflightRefuses, IssueRefuses, ExportConflicts, CreateTemporaryFails
  <2> QED
    BY <1>2, <2>1 DEF Idle, Deciding
<1> QED
  BY <1>3, <1>4, <1>5, <1>6 DEF Step

\* What is not listed is not there, reading a ledger adds its active grants to
\* those seen, and the preflight lets none of the other lane pass: a grant it
\* takes for its own carries the epoch of its own lane.
LEMMA OwnSurveyStands ==
  ASSUME Invariant, NEW p \in Proc, SurveyStands(p), Step(p), issuances' = issuances
  PROVE  SurveyStands(p)'
<1> DEFINE l == run[p].lane
           t == run[p].issuedAt
<1>1. run \in [Proc -> Run]
  BY DEF Invariant, TypeOK
<1>2. CASE run'[p].pc \notin {"survey", "open", "initialize", "issue"}
  BY <1>2 DEF SurveyStands
<1>3. CASE ListLedgers(p)
  <2>1. /\ run'[p].pc = "survey" /\ run'[p].issuedAt = t
        /\ run'[p].unread = {m \in Lane : database[m] # "absent"}
    BY <1>1, <1>3 DEF ListLedgers, Run
  <2>2. \A m \in Lane \ run'[p].unread : issuances[m] = {}
    BY <2>1, AbsentIsEmpty
  <2> QED
    BY <2>1, <2>2 DEF SurveyStands, ActiveIn
<1>4. CASE SurveyLedger(p)
  <2> DEFINE m == Min(run[p].unread)
  <2>1. /\ run[p].pc = "survey" /\ run'[p].pc = "survey" /\ run'[p].issuedAt = t
        /\ run'[p].unread = run[p].unread \ {m}
        /\ run'[p].active = run[p].active \cup ActiveIn(m, t)
    BY <1>1, <1>4 DEF SurveyLedger, Run
  <2> QED
    BY <2>1 DEF SurveyStands, ActiveIn
<1>5. CASE Preflight(p)
  <2>1. /\ run[p].pc = "survey" /\ run[p].unread = {}
        /\ ActiveIsOwn(l, t, run[p].before, run[p].active)
    BY <1>5 DEF Preflight, PreflightAdmits
  <2>2. run'[p].pc = "open" /\ run'[p].lane = l /\ run'[p].issuedAt = t
    BY <1>1, <1>5 DEF Preflight, Run
  <2>3. ASSUME NEW m \in Lane \ {l}, NEW h \in ActiveIn(m, t)
        PROVE  FALSE
    <3>1. h \in run[p].active /\ h \in issuances[m]
      BY <2>1 DEF SurveyStands, ActiveIn
    <3>2. h.metadata = MetadataOf(l)
      BY <2>1, <3>1 DEF ActiveIsOwn
    <3>3. h.metadata = MetadataOf(m)
      BY <3>1 DEF Invariant, History, HistoryOf
    <3>4. MetadataOf(l).epoch = l /\ MetadataOf(m).epoch = m
      BY DEF MetadataOf
    <3> QED
      BY <3>2, <3>3, <3>4
  <2>4. \A m \in Lane \ {l} : ActiveIn(m, t) = {}
    BY <2>3
  <2> QED
    BY <2>2, <2>4 DEF SurveyStands, ActiveIn
<1>6. CASE OpenDatabase(p) \/ InitializeDatabase(p)
  <2>1. /\ run[p].pc \in {"open", "initialize"}
        /\ run'[p].pc \in {"initialize", "issue"}
        /\ run'[p].lane = l /\ run'[p].issuedAt = t
    BY <1>1, <1>6 DEF OpenDatabase, InitializeDatabase, Goto, Run
  <2> QED
    BY <2>1 DEF SurveyStands, ActiveIn
<1>7. CASE \/ InspectHistory(p) \/ Issue(p) \/ Verify(p) \/ ExportIsThere(p)
           \/ ExportIsMissing(p) \/ CreateTemporary(p) \/ WriteTemporary(p)
           \/ Publish(p) \/ SetMode(p)
  <2>1. run'[p].pc \in {"list", "verify"} \cup Exporting
    BY <1>1, <1>7 DEF InspectHistory, Issue, Verify, ExportIsThere, ExportIsMissing,
       CreateTemporary, WriteTemporary, Publish, SetMode, Goto, Run, Exporting, Writing
  <2> QED
    BY <1>2, <2>1 DEF Exporting, Writing
<1>8. CASE WriteFails(p) \/ Report(p) \/ Refuses(p)
  <2>1. run'[p] = Idle
    BY <1>1, <1>8 DEF WriteFails, Report, Refuses, Refuse, InspectHistoryRefuses,
       PreflightRefuses, IssueRefuses, ExportConflicts, CreateTemporaryFails
  <2> QED
    BY <1>2, <2>1 DEF Idle
<1> QED
  BY <1>3, <1>4, <1>5, <1>6, <1>7, <1>8 DEF Step

\* What stands, stands until a row is committed, however many runs there are.
LEMMA QuietNext ==
  ASSUME Invariant, [Next]_vars, issuances' = issuances, NEW q \in Proc
  PROVE  /\ HistoryStands(q) => HistoryStands(q)'
         /\ SurveyStands(q) => SurveyStands(q)'
<1>0. TypeOK
  BY DEF Invariant
<1>1. CASE run'[q] = run[q]
  BY <1>1 DEF HistoryStands, SurveyStands, ExactRows, ActiveIn
<1>2. CASE run'[q].pc \in {"idle", "inspect"}
  BY <1>2 DEF HistoryStands, SurveyStands, Deciding
<1>3. ASSUME NEW p \in Proc, Step(p)
      PROVE  /\ HistoryStands(q) => HistoryStands(q)'
             /\ SurveyStands(q) => SurveyStands(q)'
  <2>1. CASE q = p
    BY <1>3, <2>1, OwnHistoryStands, OwnSurveyStands
  <2>2. CASE q # p
    BY <1>0, <1>1, <1>3, <2>2, StepFacts DEF OthersUntouched
  <2> QED
    BY <2>1, <2>2
<1> QED
  BY <1>0, <1>1, <1>2, <1>3, OtherFacts DEF OthersUntouched

-----------------------------------------------------------------------------
(* The commit                                                              *)

\* A commit adds at most one row, to the lane of the run, with the next serial.
LEMMA CommittedRow ==
  ASSUME Invariant, NEW p \in Proc, Issue(p)
  PROVE  LET l == run[p].lane
             t == run[p].issuedAt
         IN  /\ l \in Lane /\ t \in IssuedAt
             /\ run'[p].pc = "verify" /\ \A q \in Proc \ {p} : run'[q] = run[q]
             /\ \A m \in Lane \ {l} : issuances'[m] = issuances[m]
             /\ \/ issuances' = issuances
                \/ \E g \in Row :
                     /\ issuances'[l] = issuances[l] \cup {g}
                     /\ g \notin issuances[l] /\ ExactRows(l, t) = {}
                     /\ g.rid = RequestIdOf(t)
                     /\ g.request.notBefore = t
                     /\ IsCurrent(g, run[p].identity)
                     /\ \A h \in issuances[l] : h.serial < g.serial
<1> DEFINE l == run[p].lane
           t == run[p].issuedAt
           i == run[p].identity
<1>1. /\ run \in [Proc -> Run] /\ issuances \in [Lane -> SUBSET Row]
      /\ run[p].pc = "issue" /\ l \in Lane /\ t \in IssuedAt /\ i \in Identity
  BY DEF Invariant, TypeOK, Knowledge, Knows, Issue
<1>2. PICK g \in Row :
        /\ g.rid = RequestIdOf(t) /\ g.request = InkRequest(i, t)
        /\ \/ g \in issuances[l]
           \/ /\ ExactRows(l, t) = {}
              /\ g = NewRow(l, i, t)
              /\ Issues(l, i, t, NewRow(l, i, t))
        /\ issuances' = [issuances EXCEPT ![l] = @ \cup {g}]
        /\ run' = [run EXCEPT ![p].pc = "verify", ![p].row = g]
  BY IssueFacts
<1>3. /\ issuances'[l] = issuances[l] \cup {g}
      /\ \A m \in Lane \ {l} : issuances'[m] = issuances[m]
      /\ run'[p].pc = "verify" /\ \A q \in Proc \ {p} : run'[q] = run[q]
  BY <1>1, <1>2 DEF Run
<1>4. CASE g \in issuances[l]
  <2>1. issuances' = issuances
    BY <1>1, <1>2, <1>4
  <2> QED
    BY <1>1, <1>3, <2>1
<1>5. CASE g \notin issuances[l]
  <2>1. ExactRows(l, t) = {} /\ Issues(l, i, t, NewRow(l, i, t)) /\ g = NewRow(l, i, t)
    BY <1>2, <1>5
  <2>2. /\ g.serial = Cardinality(issuances[l]) + 1
        /\ Cardinality(issuances[l]) \in Nat
    BY <1>1, <2>1, NewRowFits
  <2>3. g.request.notBefore = t /\ IsCurrent(g, i)
    BY <1>1, <1>2, LaneRequestFacts DEF IsCurrent
  <2>4. \A h \in issuances[l] : h.serial \in 1..Cardinality(issuances[l])
    BY <1>1 DEF Invariant, History, HistoryOf
  <2>5. \A h \in issuances[l] : h.serial < g.serial
    BY <2>2, <2>4
  <2> QED
    BY <1>1, <1>2, <1>3, <1>5, <2>1, <2>3, <2>5
<1> QED
  BY <1>4, <1>5

\* A run whose history stands keeps its lane in order: a successor begins where
\* the last grant has ended, and an epoch-5 grant is the only one.
LEMMA CommitExtends ==
  ASSUME Invariant, NEW p \in Proc, Issue(p), HistoryStands(p)
  PROVE  /\ run[p].lane = EPOCH6 /\ SuccessorsStartAfterExpiry
              => SuccessorsStartAfterExpiry'
         /\ run[p].lane = EPOCH5 /\ EpochFiveHoldsOneRequest
              => EpochFiveHoldsOneRequest'
<1> DEFINE l == run[p].lane
           t == run[p].issuedAt
<1>1. /\ run[p].pc \in Deciding
      /\ l = EPOCH5 => run[p].identity = EPOCH5_IDENTITY
  BY DEF Invariant, Knowledge, Knows, Issue, Deciding
<1>2. CASE issuances' = issuances
  BY <1>2 DEF SuccessorsStartAfterExpiry, EpochFiveHoldsOneRequest, IsCurrent
<1>3. ASSUME NEW g \in Row,
             issuances'[l] = issuances[l] \cup {g}, ExactRows(l, t) = {},
             g.request.notBefore = t, IsCurrent(g, run[p].identity),
             \A h \in issuances[l] : h.serial < g.serial
      PROVE  /\ l = EPOCH6 /\ SuccessorsStartAfterExpiry
                  => SuccessorsStartAfterExpiry'
             /\ l = EPOCH5 /\ EpochFiveHoldsOneRequest
                  => EpochFiveHoldsOneRequest'
  <2>1. ASSUME l = EPOCH6, SuccessorsStartAfterExpiry
        PROVE  SuccessorsStartAfterExpiry'
    <3>1. \A h \in issuances[EPOCH6] : h.request.notAfter <= t
      BY <1>1, <1>3, <2>1 DEF HistoryStands
    <3>2. /\ ~(g.serial < g.serial)
          /\ \A h \in issuances[EPOCH6] : ~(g.serial < h.serial)
      <4>1. g.serial \in Nat /\ \A h \in issuances[EPOCH6] : h.serial \in Nat
        BY <2>1, RowFacts DEF Invariant, TypeOK, Lane
      <4> QED
        BY <1>3, <2>1, <4>1
    <3> QED
      BY <1>3, <2>1, <3>1, <3>2 DEF SuccessorsStartAfterExpiry
  <2>2. ASSUME l = EPOCH5
        PROVE  EpochFiveHoldsOneRequest'
    <3>1. issuances[EPOCH5] = {}
      BY <1>1, <1>3, <2>2 DEF HistoryStands, ExactRows
    <3>2. issuances'[EPOCH5] = {g}
      BY <1>3, <2>2, <3>1
    <3> QED
      BY <1>1, <1>3, <2>2, <3>2 DEF EpochFiveHoldsOneRequest, IsCurrent
  <2> QED
    BY <2>1, <2>2
<1> QED
  BY <1>2, <1>3, CommittedRow

\* Every step keeps the order of a lane whose runs are kept apart, whatever the
\* runs of the other do.
LEMMA LaneNext ==
  ASSUME Invariant, NEW l \in Lane, RunsAlone(l), LaneInvariant(l), [Next]_vars
  PROVE  LaneInvariant(l)'
<1>0. TypeOK
  BY DEF Invariant
<1>1. CASE issuances' = issuances
  <2>1. InOrder(l)'
    BY <1>1 DEF LaneInvariant, InOrder, SuccessorsStartAfterExpiry,
                EpochFiveHoldsOneRequest, IsCurrent
  <2>2. ASSUME NEW q \in Proc, run'[q].lane = l
        PROVE  HistoryStands(q)'
    <3>1. CASE run[q].lane = l
      BY <1>1, <3>1, QuietNext DEF LaneInvariant
    <3>2. CASE run[q].lane # l
      <4>1. run'[q].pc \in {"idle", "inspect"}
        BY <1>0, <2>2, <3>2, OtherFacts, StepFacts DEF OthersUntouched, Idle
      <4> QED
        BY <4>1 DEF HistoryStands, Deciding
    <3> QED
      BY <3>1, <3>2
  <2> QED
    BY <2>1, <2>2 DEF LaneInvariant
<1>2. ASSUME NEW p \in Proc, Issue(p)
      PROVE  LaneInvariant(l)'
  <2>1. /\ run[p].lane \in Lane /\ run'[p].pc = "verify"
        /\ \A q \in Proc \ {p} : run'[q] = run[q]
        /\ \A m \in Lane \ {run[p].lane} : issuances'[m] = issuances[m]
    BY <1>2, CommittedRow
  <2>2. CASE run[p].lane = l
    <3>1. InOrder(l)'
      BY <1>2, <2>2, CommitExtends DEF LaneInvariant, InOrder
    <3>2. \A q \in Proc \ {p} : run[q].lane = l => run[q].pc = "idle"
      BY <1>2, <2>2 DEF RunsAlone, InProgress, Issue
    <3>3. \A q \in Proc : run'[q].lane = l => run'[q].pc \notin Deciding
      BY <2>1, <3>2 DEF Deciding
    <3> QED
      BY <3>1, <3>3 DEF LaneInvariant, HistoryStands
  <2>3. CASE run[p].lane # l
    <3>1. issuances'[l] = issuances[l]
      BY <2>1, <2>3
    <3>2. InOrder(l)'
      BY <3>1 DEF LaneInvariant, InOrder, SuccessorsStartAfterExpiry,
                  EpochFiveHoldsOneRequest, IsCurrent
    <3>3. ASSUME NEW q \in Proc \ {p}, run[q].lane = l
          PROVE  HistoryStands(q)'
      BY <2>1, <3>1, <3>3 DEF LaneInvariant, HistoryStands, ExactRows
    <3>4. HistoryStands(p)'
      BY <2>1 DEF HistoryStands, Deciding
    <3> QED
      BY <2>1, <3>2, <3>3, <3>4 DEF LaneInvariant
  <2> QED
    BY <2>2, <2>3
<1> QED
  BY <1>0, <1>1, <1>2, OtherFacts, OnlyIssueCommits

\* Both lanes are kept apart where one run is in progress at a time.
LEMMA SoleIsAlone ==
  ASSUME OneRunAtATime, NEW l \in Lane
  PROVE  RunsAlone(l)
  BY DEF OneRunAtATime, RunsAlone

\* One run makes no crowd.
LEMMA SoleIsNoCrowd ==
  ASSUME OneRunAtATime
  PROVE  ~CrowdedCleanUp
<1> SUFFICES ASSUME CrowdedCleanUp
             PROVE  FALSE
  OBVIOUS
<1>1. PICK p, r \in Proc : run[p].pc = "chmod" /\ run[r].pc = "create"
  BY DEF CrowdedCleanUp
<1>2. p = r
  BY <1>1 DEF OneRunAtATime, InProgress
<1> QED
  BY <1>1, <1>2

\* With one run in progress, nothing is valid in the other lane when a grant
\* begins.
LEMMA SoleNext ==
  ASSUME OneRunAtATime, SoleInvariant, [Next]_vars
  PROVE  /\ SoleInvariant'
         /\ \A l, m \in Lane : l # m =>
              \A g \in issuances'[l] \ issuances[l], h \in issuances[m] :
                ~ActiveAt(h.request, g.request.notBefore)
<1> DEFINE Apart == \A l, m \in Lane : l # m =>
                      \A g \in issuances'[l] \ issuances[l], h \in issuances[m] :
                        ~ActiveAt(h.request, g.request.notBefore)
<1>0. /\ Invariant /\ Invariant' /\ TypeOK
      /\ \A l \in Lane : LaneInvariant(l)'
  BY NextInvariant, LaneNext, SoleIsAlone DEF SoleInvariant, Invariant
<1>1. CASE issuances' = issuances
  BY <1>0, <1>1, QuietNext DEF SoleInvariant
<1>2. ASSUME NEW p \in Proc, Issue(p)
      PROVE  (\A q \in Proc : SurveyStands(q)') /\ Apart
  <2> DEFINE l == run[p].lane
             t == run[p].issuedAt
  <2>1. /\ l \in Lane /\ run'[p].pc = "verify"
        /\ \A q \in Proc \ {p} : run'[q] = run[q]
        /\ \A m \in Lane \ {l} : issuances'[m] = issuances[m]
        /\ \A g \in issuances'[l] \ issuances[l] : g.request.notBefore = t
    BY <1>0, <1>2, CommittedRow
  <2>2. run[p].pc = "issue" /\ \A q \in Proc \ {p} : run[q].pc = "idle"
    BY <1>2 DEF OneRunAtATime, InProgress, Issue
  <2>3. \A q \in Proc : SurveyStands(q)'
    BY <2>1, <2>2 DEF SurveyStands
  <2>4. \A m \in Lane \ {l} : \A h \in issuances[m] : ~ActiveAt(h.request, t)
    BY <2>2 DEF SoleInvariant, SurveyStands, ActiveIn
  <2> QED
    BY <2>1, <2>3, <2>4
<1> QED
  BY <1>0, <1>1, <1>2, OtherFacts, OnlyIssueCommits DEF SoleInvariant

-----------------------------------------------------------------------------
(* The theorems                                                            *)

\* Nothing has been read or issued at the beginning.
LEMMA SoleInit == Init => SoleInvariant
<1> SUFFICES ASSUME Init
             PROVE  SoleInvariant
  OBVIOUS
<1>1. Invariant
  BY InitInvariant
<1>2. /\ \A l \in Lane : issuances[l] = {}
      /\ \A p \in Proc : run[p].pc = "idle"
  BY DEF Init, Idle
<1>3. \A l \in Lane : InOrder(l)
  BY <1>2 DEF InOrder, SuccessorsStartAfterExpiry, EpochFiveHoldsOneRequest, Lane
<1> QED
  BY <1>1, <1>2, <1>3 DEF SoleInvariant, LaneInvariant, HistoryStands,
                          SurveyStands, Deciding

\* While one run is in progress at a time, what it has read of either lane
\* stays what the ledgers hold until it commits.
THEOREM SoleInvariantHolds == Spec /\ []OneRunAtATime => []SoleInvariant
<1>1. Init => SoleInvariant
  BY SoleInit
<1>2. OneRunAtATime /\ SoleInvariant /\ [Next]_vars => SoleInvariant'
  BY SoleNext
<1> QED
  BY <1>1, <1>2, PTL DEF Spec

\* While the runs of the epoch-6 lane are kept apart, no successor begins before
\* its predecessors have expired, whatever issue times the operator types,
\* wherever runs die, and however many epoch-5 runs there are.
THEOREM SuccessorsWaitForExpiry ==
  Spec /\ []RunsAlone(EPOCH6) => []SuccessorsStartAfterExpiry
<1>0. EPOCH6 \in Lane
  BY DEF Lane
<1>1. Init => LaneInvariant(EPOCH6)
  BY <1>0, SoleInit DEF SoleInvariant
<1>2. Invariant /\ RunsAlone(EPOCH6) /\ LaneInvariant(EPOCH6) /\ [Next]_vars
        => LaneInvariant(EPOCH6)'
  BY <1>0, LaneNext
<1>3. LaneInvariant(EPOCH6) => SuccessorsStartAfterExpiry
  BY DEF LaneInvariant, InOrder
<1> QED
  BY <1>1, <1>2, <1>3, InvariantHolds, PTL DEF Spec

\* While the runs of the epoch-5 lane are kept apart, it never holds a second
\* request.
THEOREM EpochFiveKeepsItsRequest ==
  Spec /\ []RunsAlone(EPOCH5) => []EpochFiveHoldsOneRequest
<1>0. EPOCH5 \in Lane
  BY DEF Lane
<1>1. Init => LaneInvariant(EPOCH5)
  BY <1>0, SoleInit DEF SoleInvariant
<1>2. Invariant /\ RunsAlone(EPOCH5) /\ LaneInvariant(EPOCH5) /\ [Next]_vars
        => LaneInvariant(EPOCH5)'
  BY <1>0, LaneNext
<1>3. LaneInvariant(EPOCH5) => EpochFiveHoldsOneRequest
  BY DEF LaneInvariant, InOrder
<1> QED
  BY <1>1, <1>2, <1>3, InvariantHolds, PTL DEF Spec

\* While the runs of the epoch-5 lane are kept apart, what either script printed
\* stays committed and exported, unless three runs of the other meet at one
\* file: the epoch-5 files are all of the lane's one grant, and the successors'
\* are told apart by their names.
THEOREM ReportsStayExported ==
  Spec /\ []RunsAlone(EPOCH5) /\ [][~CrowdedCleanUp]_vars => []ReportsAreExported
<1>1. Invariant /\ Whole /\ EpochFiveHoldsOneRequest => ReportsAreExported
  <2> SUFFICES ASSUME Invariant, Whole, EpochFiveHoldsOneRequest,
                      NEW l \in Lane, NEW g \in ReportsOf(l)
               PROVE  /\ g \in issuances[l]
                      /\ \A f \in FilesOf(g) : file[f] = g
    BY DEF ReportsAreExported
  <2>1. /\ g.metadata.epoch = l /\ g \in issuances[l]
        /\ \A f \in FilesOf(g) : file[f] # None
    BY DEF Invariant, Reports, ReportsOf
  <2>2. ASSUME NEW f \in FilesOf(g)
        PROVE  file[f] = g
    <3>1. f \in File /\ f[1] = l /\ f[2] = Stem(l, g.request.issuedAt)
      BY <2>1 DEF FilesOf
    <3>2. CASE l = EPOCH6
      BY <2>1, <3>1, <3>2, SuccessorFileIsItsRows DEF Stem, EPOCH5, EPOCH6
    <3>3. CASE l = EPOCH5
      BY <2>1, <3>1, <3>3 DEF Invariant, Entries, Holds, Whole, EpochFiveHoldsOneRequest
    <3> QED
      BY <3>2, <3>3 DEF Lane
  <2> QED
    BY <2>1, <2>2
<1> QED
  BY <1>1, InvariantHolds, ExportsStayWhole, EpochFiveKeepsItsRequest, PTL

\* While one run is in progress at a time, a grant never begins while a grant of
\* the other lane is valid: what the inspector saw is what there is.
THEOREM GrantsBeginApart ==
  Spec /\ []OneRunAtATime => NoGrantBeginsInsideAnothers
<1> DEFINE Apart == \A l, m \in Lane : l # m =>
                      \A g \in issuances'[l] \ issuances[l], h \in issuances[m] :
                        ~ActiveAt(h.request, g.request.notBefore)
<1>1. OneRunAtATime /\ SoleInvariant /\ [Next]_vars => [Apart]_vars
  BY SoleNext
<1>2. [][Apart]_vars => NoGrantBeginsInsideAnothers
  BY DEF NoGrantBeginsInsideAnothers
<1> QED
  BY <1>1, <1>2, SoleInvariantHolds, PTL DEF Spec
=============================================================================
