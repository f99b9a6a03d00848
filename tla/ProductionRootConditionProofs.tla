--------------------- MODULE ProductionRootConditionProofs ---------------------
(***************************************************************************)
(* What the operator has to keep for the statements of the documents that  *)
(* the scripts do not keep by themselves: issue times that advance, or     *)
(* runs of a lane kept apart, and no run that dies between the creation of *)
(* a database and its tables, or while it holds a temporary file.          *)
(***************************************************************************)
EXTENDS ProductionRootRefusalProofs

\* Nobody asks the lanes in S for a grant that begins before one they hold.
IssueTimesAdvance(S) ==
  \A l, m \in S : \A g \in issuances'[l] \ issuances[l], h \in issuances[m] :
    h.request.notBefore <= g.request.notBefore

\* No run dies, or fails, between the creation of a database and its tables.
InitializationsComplete ==
  \A p \in Proc : run[p].pc = "initialize" => ~Crash(p)

\* No run is killed between the creation of a temporary file and its clean-up.
WritesComplete == \A p \in Proc : Writes(p) => ~Crash(p)

\* A database without a table is about to be initialized.
BareIsTransient ==
  \A l \in Lane : database[l] = "bare" =>
    \E p \in Proc : run[p].pc = "initialize" /\ run[p].lane = l

\* A temporary file has a run that is writing it.
TemporariesHaveWriters ==
  \A f \in File : tmp[f] # None => \E p \in Proc : Writes(p) /\ NextFile(p) = f

-----------------------------------------------------------------------------
(* Issue times that advance                                                *)

\* Of two grants that share no instant, the one that begins first ends before
\* the other begins.
LEMMA EarlierEndsFirst ==
  ASSUME NEW g \in Row, NEW h \in Row, ~Overlap(h.request, g.request),
         h.request.notBefore <= g.request.notBefore
  PROVE  h.request.notAfter <= g.request.notBefore
<1> DEFINE now == g.request.notBefore
<1>1. /\ now \in Nat /\ g.request.notAfter \in Nat /\ now < g.request.notAfter
      /\ h.request.notBefore \in Nat /\ h.request.notAfter \in Nat
      /\ h.request.notBefore < h.request.notAfter
  BY RowFacts
<1>2. ~(ActiveAt(h.request, now) /\ ActiveAt(g.request, now))
  BY <1>1, OverlapIsSharedInstant
<1> QED
  BY <1>1, <1>2 DEF ActiveAt

\* A grant that ends before another begins shares no instant with it.
LEMMA EndedIsApart ==
  ASSUME NEW g \in Row, NEW h \in Row, h.request.notAfter <= g.request.notBefore
  PROVE  ~Overlap(h.request, g.request) /\ ~Overlap(g.request, h.request)
<1>1. /\ g.request.notBefore \in Nat /\ g.request.notAfter \in Nat
      /\ h.request.notBefore \in Nat /\ h.request.notAfter \in Nat
      /\ g.request.notBefore < g.request.notAfter
      /\ h.request.notBefore < h.request.notAfter
  BY RowFacts
<1>2. \A now \in Nat : ~(ActiveAt(h.request, now) /\ ActiveAt(g.request, now))
  BY <1>1 DEF ActiveAt
<1> QED
  BY <1>1, <1>2, OverlapIsSharedInstant

\* The rows of a step that commits: one more, of the lane of a run.
LEMMA CommitFacts ==
  ASSUME Invariant, [Next]_vars
  PROVE  \/ issuances' = issuances
         \/ \E l \in Lane : \E g \in Row :
              /\ issuances'[l] = issuances[l] \cup {g} /\ g \notin issuances[l]
              /\ \A m \in Lane \ {l} : issuances'[m] = issuances[m]
              /\ \A h \in issuances[l] : h.serial < g.serial
              /\ \A h \in issuances[l] : ~Overlap(h.request, g.request)
<1>0. TypeOK /\ Invariant'
  BY NextInvariant DEF Invariant
<1>1. ASSUME NEW p \in Proc, Issue(p), issuances' # issuances
      PROVE  \E l \in Lane : \E g \in Row :
               /\ issuances'[l] = issuances[l] \cup {g} /\ g \notin issuances[l]
               /\ \A m \in Lane \ {l} : issuances'[m] = issuances[m]
               /\ \A h \in issuances[l] : h.serial < g.serial
               /\ \A h \in issuances[l] : ~Overlap(h.request, g.request)
  <2> DEFINE l == run[p].lane
  <2>1. /\ l \in Lane
        /\ \A m \in Lane \ {l} : issuances'[m] = issuances[m]
    BY <1>1, CommittedRow
  <2>2. PICK g \in Row :
          /\ issuances'[l] = issuances[l] \cup {g} /\ g \notin issuances[l]
          /\ \A h \in issuances[l] : h.serial < g.serial
    BY <1>1, CommittedRow
  <2>3. \A h \in issuances[l] : ~Overlap(h.request, g.request)
    BY <1>0, <2>1, <2>2 DEF Invariant, History, HistoryOf
  <2> QED
    BY <2>1, <2>2, <2>3
<1> QED
  BY <1>0, <1>1, OtherFacts, OnlyIssueCommits

\* A successor that does not begin before its predecessors follows them.
LEMMA AdvanceKeepsOrder ==
  ASSUME Invariant, SuccessorsStartAfterExpiry, [Next]_vars,
         [IssueTimesAdvance({EPOCH6})]_vars
  PROVE  SuccessorsStartAfterExpiry'
<1>1. CASE issuances'[EPOCH6] = issuances[EPOCH6]
  BY <1>1 DEF SuccessorsStartAfterExpiry
<1>2. CASE issuances'[EPOCH6] # issuances[EPOCH6]
  <2>1. EPOCH6 \in Lane /\ IssueTimesAdvance({EPOCH6})
    BY <1>2 DEF Lane, vars
  <2>2. PICK g \in Row :
          /\ issuances'[EPOCH6] = issuances[EPOCH6] \cup {g} /\ g \notin issuances[EPOCH6]
          /\ \A h \in issuances[EPOCH6] : h.serial < g.serial
          /\ \A h \in issuances[EPOCH6] : ~Overlap(h.request, g.request)
    BY <1>2, <2>1, CommitFacts
  <2>3. \A h \in issuances[EPOCH6] : h \in Row /\ h.serial \in Nat
    BY <2>1, RowFacts DEF Invariant, TypeOK
  <2>4. \A h \in issuances[EPOCH6] : h.request.notBefore <= g.request.notBefore
    BY <2>1, <2>2 DEF IssueTimesAdvance
  <2>5. \A h \in issuances[EPOCH6] : h.request.notAfter <= g.request.notBefore
    BY <2>2, <2>3, <2>4, EarlierEndsFirst
  <2>6. g.serial \in Nat
    BY RowFacts
  <2>7. /\ ~(g.serial < g.serial)
        /\ \A h \in issuances[EPOCH6] : ~(g.serial < h.serial)
    BY <2>2, <2>3, <2>6
  <2> QED
    BY <2>2, <2>5, <2>7 DEF SuccessorsStartAfterExpiry
<1> QED
  BY <1>1, <1>2

\* Where the issue times asked of the epoch-6 lane advance, a successor begins
\* after its predecessors have expired, even if the runs of the lane race.
THEOREM AdvancingSuccessorsWait ==
  Spec /\ [][IssueTimesAdvance({EPOCH6})]_vars => []SuccessorsStartAfterExpiry
<1>1. Init => SuccessorsStartAfterExpiry
  BY DEF Init, SuccessorsStartAfterExpiry, Lane
<1>2. /\ Invariant /\ SuccessorsStartAfterExpiry /\ [Next]_vars
      /\ [IssueTimesAdvance({EPOCH6})]_vars
      => SuccessorsStartAfterExpiry'
  BY AdvanceKeepsOrder
<1> QED
  BY <1>1, <1>2, InvariantHolds, PTL DEF Spec

\* What a step of a root may do to the two lanes.
BeginsApart ==
  \A l, m \in Lane : l # m =>
    \A g \in issuances'[l] \ issuances[l], h \in issuances[m] :
      ~ActiveAt(h.request, g.request.notBefore)

\* A grant that begins outside, and not before, those of the other lane begins
\* after them.
LEMMA AdvanceKeepsLanesApart ==
  ASSUME Invariant, NoOverlappingLiveGrant, [Next]_vars, [BeginsApart]_vars,
         [IssueTimesAdvance(Lane)]_vars
  PROVE  NoOverlappingLiveGrant'
<1>1. CASE issuances' = issuances
  BY <1>1 DEF NoOverlappingLiveGrant
<1>2. ASSUME issuances' # issuances,
             NEW l \in Lane, NEW g \in Row,
             issuances'[l] = issuances[l] \cup {g}, g \notin issuances[l],
             \A m \in Lane \ {l} : issuances'[m] = issuances[m]
      PROVE  NoOverlappingLiveGrant'
  <2>1. BeginsApart /\ IssueTimesAdvance(Lane)
    BY <1>2 DEF vars
  <2>2. ASSUME NEW m \in Lane \ {l}, NEW h \in issuances[m]
        PROVE  ~Overlap(h.request, g.request) /\ ~Overlap(g.request, h.request)
    <3>1. h \in Row
      BY DEF Invariant, TypeOK
    <3>2. /\ h.request.notBefore <= g.request.notBefore
          /\ ~ActiveAt(h.request, g.request.notBefore)
      BY <1>2, <2>1 DEF IssueTimesAdvance, BeginsApart
    <3>3. /\ g.request.notBefore \in Nat
          /\ h.request.notBefore \in Nat /\ h.request.notAfter \in Nat
      BY <3>1, RowFacts
    <3>4. h.request.notAfter <= g.request.notBefore
      BY <3>2, <3>3 DEF ActiveAt
    <3> QED
      BY <3>1, <3>4, EndedIsApart
  <2>3. EPOCH5 \in Lane /\ EPOCH6 \in Lane /\ EPOCH5 # EPOCH6 /\ l \in {EPOCH5, EPOCH6}
    BY DEF Lane, EPOCH5, EPOCH6
  <2> QED
    BY <1>2, <2>2, <2>3 DEF NoOverlappingLiveGrant
<1> QED
  BY <1>1, <1>2, CommitFacts

\* Where the issue times asked of the root advance and one run is in progress
\* at a time, no two grants of its ledgers overlap.
THEOREM AdvancingLanesStayApart ==
  Spec /\ []OneRunAtATime /\ [][IssueTimesAdvance(Lane)]_vars
    => []NoOverlappingLiveGrant
<1>1. Init => NoOverlappingLiveGrant
  BY DEF Init, NoOverlappingLiveGrant, Lane
<1>2. OneRunAtATime /\ SoleInvariant /\ [Next]_vars => [BeginsApart]_vars
  BY SoleNext DEF BeginsApart
<1>3. /\ Invariant /\ NoOverlappingLiveGrant /\ [Next]_vars /\ [BeginsApart]_vars
      /\ [IssueTimesAdvance(Lane)]_vars
      => NoOverlappingLiveGrant'
  BY AdvanceKeepsLanesApart
<1> QED
  BY <1>1, <1>2, <1>3, InvariantHolds, SoleInvariantHolds, PTL DEF Spec

-----------------------------------------------------------------------------
(* Writes that complete                                                    *)

\* Where no run is killed while it writes, a temporary file goes with its run.
LEMMA WritersCleanUp ==
  ASSUME Invariant, TemporariesHaveWriters, [Next]_vars, [WritesComplete]_vars
  PROVE  TemporariesHaveWriters'
<1>1. CASE UNCHANGED <<file, tmp>> /\ \A p \in Proc : run'[p] = run[p]
  BY <1>1 DEF TemporariesHaveWriters, Writes, NextFile
<1>2. ASSUME NEW p \in Proc, OthersUntouched(p),
             \A f \in File : tmp'[f] # None =>
                /\ tmp[f] # None
                /\ Writes(p) /\ NextFile(p) = f => Writes(p)' /\ NextFile(p)' = f
      PROVE  TemporariesHaveWriters'
  BY <1>2 DEF TemporariesHaveWriters, OthersUntouched, Writes, NextFile
<1>3. ASSUME NEW p \in Proc, OthersUntouched(p), CreateTemporary(p)
      PROVE  TemporariesHaveWriters'
  <2>1. /\ \A f \in File : tmp'[f] # tmp[f] => f = NextFile(p)
        /\ run[p].pc = "create" /\ Writes(p)' /\ NextFile(p)' = NextFile(p)
    BY <1>3 DEF CreateTemporary, Goto, Invariant, TypeOK, Run, NextFile, Writes
  <2> QED
    BY <1>3, <2>1 DEF TemporariesHaveWriters, OthersUntouched, Writes, NextFile
<1>4. ASSUME NEW p \in Proc, OthersUntouched(p), WriteTemporary(p)
      PROVE  TemporariesHaveWriters'
  <2>1. Writes(p)' /\ NextFile(p)' = NextFile(p)
    BY <1>4 DEF WriteTemporary, Goto, Invariant, TypeOK, Run, NextFile, Writes
  <2>2. \A f \in File : tmp'[f] # None => tmp[f] # None
    BY <1>4, ClosingFacts, ProcFacts DEF WriteTemporary, WriteFails
  <2> QED
    BY <1>2, <1>4, <2>1, <2>2
<1>5. ASSUME NEW p \in Proc, OthersUntouched(p), Publish(p)
      PROVE  TemporariesHaveWriters'
  <2>1. NextFile(p) \in File
    BY <1>5, WritingFacts DEF Publish, Writing
  <2>2. /\ tmp'[NextFile(p)] = None
        /\ \A f \in File \ {NextFile(p)} : tmp'[f] = tmp[f]
    BY <1>5, <2>1 DEF Publish, Invariant, TypeOK
  <2> QED
    BY <1>2, <1>5, <2>1, <2>2
<1>6. ASSUME NEW p \in Proc, OthersUntouched(p), WriteFails(p)
      PROVE  TemporariesHaveWriters'
  <2>1. NextFile(p) \in File
    BY <1>6, WritingFacts DEF WriteFails, CleanUp, Writing
  <2>2. /\ tmp'[NextFile(p)] = None
        /\ \A f \in File : tmp'[f] # None => tmp[f] # None
    <3>1. /\ Torn \in Content /\ Torn # None
          /\ tmp' = [Settle(tmp, p, Torn) EXCEPT ![NextFile(p)] = None]
      BY <1>6, RootAssumption DEF WriteFails, CleanUp, Content
    <3> QED
      BY <2>1, <3>1, SettleFacts
  <2> QED
    BY <1>2, <1>6, <2>1, <2>2
<1>7. ASSUME NEW p \in Proc, OthersUntouched(p), Crash(p)
      PROVE  TemporariesHaveWriters'
  <2>1. run' # run
    BY <1>7 DEF Crash, Idle, Invariant, TypeOK
  <2>2. WritesComplete
    BY <2>1 DEF vars
  <2>3. ~Writes(p) /\ tmp' = Settle(tmp, p, Torn) /\ Torn \in Content /\ Torn # None
    BY <1>7, <2>2, RootAssumption DEF WritesComplete, Crash, Content
  <2>4. \A f \in File : tmp'[f] # None => tmp[f] # None
    BY <2>3, SettleFacts
  <2> QED
    BY <1>2, <1>7, <2>3, <2>4
<1>8. ASSUME NEW p \in Proc, OthersUntouched(p), UNCHANGED <<file, tmp>>, ~Writes(p)
      PROVE  TemporariesHaveWriters'
  BY <1>2, <1>8
<1> QED
  BY <1>1, <1>3, <1>4, <1>5, <1>6, <1>7, <1>8, FileActions

\* Where no run is killed while it writes, an exact retry finds no temporary
\* file in the way of its own, whatever else died or failed.
THEOREM CompletedWritesLeaveRetriesFree ==
  Spec /\ [][WritesComplete]_vars => []ExactRetryIsIdempotent
<1>1. Init => TemporariesHaveWriters
  BY DEF Init, TemporariesHaveWriters
<1>2. Invariant /\ TemporariesHaveWriters /\ [Next]_vars /\ [WritesComplete]_vars
        => TemporariesHaveWriters'
  BY WritersCleanUp
<1>3. TemporariesHaveWriters => ExactRetryIsIdempotent
  BY DEF TemporariesHaveWriters, ExactRetryIsIdempotent, Idle, Writes, FilesOf
<1> QED
  BY <1>1, <1>2, <1>3, InvariantHolds, PTL DEF Spec

-----------------------------------------------------------------------------
(* Initializations that complete                                           *)

\* Where no run is killed before the tables are there, a bare database has a
\* run that is about to add them.
LEMMA InitializersFinish ==
  ASSUME Invariant, BareIsTransient, [Next]_vars, [InitializationsComplete]_vars
  PROVE  BareIsTransient'
<1> DEFINE Initializes(p) == run[p].pc = "initialize"
<1>0. /\ TypeOK /\ run \in [Proc -> Run]
      /\ database \in [Lane -> {"absent", "bare", "ready"}]
  BY DEF Invariant, TypeOK
<1>1. CASE database' = database /\ run' = run
  BY <1>1 DEF BareIsTransient
<1>2. ASSUME NEW p \in Proc, ~Initializes(p), OthersUntouched(p), database' = database
      PROVE  BareIsTransient'
  BY <1>2 DEF BareIsTransient, OthersUntouched
<1>3. ASSUME NEW p \in Proc, OpenDatabase(p)
      PROVE  BareIsTransient'
  <2>1. /\ \A l \in Lane \ {run[p].lane} : database'[l] = database[l]
        /\ run[p].pc = "open" /\ run'[p].pc = "initialize"
        /\ run'[p].lane = run[p].lane /\ OthersUntouched(p)
    BY <1>0, <1>3 DEF OpenDatabase, Goto, Run, OthersUntouched
  <2> QED
    BY <2>1 DEF BareIsTransient, OthersUntouched
<1>4. ASSUME NEW p \in Proc, InitializeDatabase(p)
      PROVE  BareIsTransient'
  <2>1. /\ run[p].lane \in Lane /\ database'[run[p].lane] = "ready"
        /\ \A l \in Lane \ {run[p].lane} : database'[l] = database[l]
        /\ OthersUntouched(p)
    BY <1>0, <1>4 DEF InitializeDatabase, Goto, OthersUntouched, Invariant,
                      Knowledge, Knows
  <2> QED
    BY <2>1 DEF BareIsTransient, OthersUntouched
<1>5. ASSUME NEW p \in Proc, Step(p)
      PROVE  BareIsTransient'
  <2>1. OthersUntouched(p)
    BY <1>0, <1>5, StepFacts
  <2>2. \/ OpenDatabase(p) \/ InitializeDatabase(p)
        \/ ~Initializes(p) /\ database' = database
    BY <1>5 DEF Step, Refuses, Refuse, root, InspectHistory, ListLedgers, SurveyLedger,
         Preflight, Issue, Verify, ExportIsThere, ExportIsMissing, CreateTemporary,
         WriteTemporary, Publish, SetMode, WriteFails, CleanUp, Report,
         InspectHistoryRefuses, PreflightRefuses, IssueRefuses, ExportConflicts,
         CreateTemporaryFails
  <2> QED
    BY <1>2, <1>3, <1>4, <2>1, <2>2
<1>6. ASSUME NEW p \in Proc, Crash(p)
      PROVE  BareIsTransient'
  <2>1. run'[p].pc = "idle" /\ run[p].pc # "idle"
    BY <1>0, <1>6 DEF Crash, Idle
  <2>2. InitializationsComplete
    BY <2>1 DEF vars
  <2>3. ~Initializes(p) /\ database' = database /\ OthersUntouched(p)
    BY <1>0, <1>6, <2>2 DEF InitializationsComplete, Crash, OthersUntouched
  <2> QED
    BY <1>2, <2>3
<1>7. ASSUME NEW p \in Proc, NEW l \in Lane, NEW t \in IssuedAt, Start(p, l, t)
      PROVE  BareIsTransient'
  <2>1. ~Initializes(p) /\ database' = database /\ OthersUntouched(p)
    BY <1>0, <1>7 DEF Start, root, OthersUntouched
  <2> QED
    BY <1>2, <2>1
<1>8. CASE UNCHANGED vars \/ Rebind
  BY <1>1, <1>8 DEF vars, Rebind, root
<1> QED
  BY <1>5, <1>6, <1>7, <1>8 DEF Next

\* A quiet root whose successors follow one another and whose database is not
\* bare takes a new request once everything has expired.
LEMMA OrderedHistoryAdmits ==
  ASSUME Invariant, SuccessorsStartAfterExpiry, BareIsTransient
  PROVE  NewRequestAfterPriorExpiryIsAllowed
<1> SUFFICES ASSUME NEW t \in IssuedAt, \A p \in Proc : run[p] = Idle,
                    \A g \in issuances[EPOCH6] : g.request.notAfter <= t
             PROVE  HistoryAdmits(EPOCH6, BoundIdentity, t)
  BY DEF NewRequestAfterPriorExpiryIsAllowed
<1>1. database[EPOCH6] \in {"absent", "ready"} /\ EPOCH6 # EPOCH5
  BY DEF Invariant, TypeOK, BareIsTransient, Idle, Lane, EPOCH5, EPOCH6
<1>2. ExactRows(EPOCH6, t) = {}
  BY ExpiredIsAnother
<1>3. \A g \in issuances[EPOCH6] : g.serial \in Nat
  BY RowFacts DEF Invariant, TypeOK, Lane
<1>4. HistoryInOrder
  BY <1>3 DEF SuccessorsStartAfterExpiry, HistoryInOrder
<1> QED
  BY <1>1, <1>2, <1>4 DEF HistoryAdmits, Epoch6Admits, IsHistorical

\* Where no run is killed while it initializes a database, an epoch-6 lane whose
\* grants follow one another takes a new request once all have expired.
THEOREM CompletedInitializationsTakeRequests ==
  Spec /\ []SuccessorsStartAfterExpiry /\ [][InitializationsComplete]_vars
    => []NewRequestAfterPriorExpiryIsAllowed
<1>1. Init => BareIsTransient
  BY DEF Init, BareIsTransient
<1>2. Invariant /\ BareIsTransient /\ [Next]_vars /\ [InitializationsComplete]_vars
        => BareIsTransient'
  BY InitializersFinish
<1>3. Invariant /\ SuccessorsStartAfterExpiry /\ BareIsTransient
        => NewRequestAfterPriorExpiryIsAllowed
  BY OrderedHistoryAdmits
<1> QED
  BY <1>1, <1>2, <1>3, InvariantHolds, PTL DEF Spec

\* The grants do follow one another where the runs of the lane are kept apart or
\* its issue times advance.
THEOREM PriorExpiryAllowsNewRequest ==
  /\ Spec
  /\ []RunsAlone(EPOCH6) \/ [][IssueTimesAdvance({EPOCH6})]_vars
  /\ [][InitializationsComplete]_vars
  => []NewRequestAfterPriorExpiryIsAllowed
  BY CompletedInitializationsTakeRequests, SuccessorsWaitForExpiry,
     AdvancingSuccessorsWait, PTL
=============================================================================
