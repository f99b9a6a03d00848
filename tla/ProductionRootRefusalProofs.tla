---------------------- MODULE ProductionRootRefusalProofs ----------------------
(***************************************************************************)
(* Theorems about what the scripts must not refuse: a successor once       *)
(* everything has expired, and the exact retry of a committed grant.  Each *)
(* refusal of the code is shown to be out of reach, from what the run has  *)
(* read (Seen, Remembered) and from the order in which the checkouts have  *)
(* been bound (BoundInOrder).  For a successor it is enough that the runs  *)
(* of its lane are kept apart; a retry needs one run at a time, since the  *)
(* two lanes share the checkout.                                           *)
(***************************************************************************)
EXTENDS ProductionRootSoleRunProofs

\* What the run has seen active is active at its issue time.
SeenBy(p) == run[p].active \subseteq ActiveGrants(run[p].issuedAt)

\* The run has a receipt from its history if there is one.
RememberedBy(p) ==
  run[p].pc \in Deciding /\ run[p].before = None =>
    ExactRows(run[p].lane, run[p].issuedAt) = {}

Seen == \A p \in Proc : SeenBy(p)
Remembered == \A p \in Proc : RememberedBy(p)

\* The grant was bound to the n-th preparation.
BoundTo(g, n) == IsCurrent(g, Preparations[n])

\* Grants are bound to the preparations in the order of these; none is bound
\* to a later one than the run in progress, nor that to a later one than the
\* checkout.
BoundInOrder ==
  /\ \A g \in issuances[EPOCH6] : \E n \in 1..binding : BoundTo(g, n)
  /\ \A g, h \in issuances[EPOCH6], m, n \in DOMAIN Preparations :
       g.serial < h.serial /\ BoundTo(g, m) /\ BoundTo(h, n) => m <= n
  /\ \A p \in Proc : run[p].pc # "idle" =>
       \E n \in 1..binding :
         /\ run[p].identity = Preparations[n]
         /\ \A g \in issuances[EPOCH6], m \in DOMAIN Preparations :
              BoundTo(g, m) => m <= n

Informed == SoleInvariant /\ Seen /\ Remembered /\ BoundInOrder

-----------------------------------------------------------------------------
(* What the run recalls                                                    *)

\* Rows are only added.
LEMMA RowsStay ==
  ASSUME Invariant, [Next]_vars
  PROVE  \A l \in Lane : issuances[l] \subseteq issuances'[l]
<1>1. ASSUME NEW p \in Proc, Issue(p)
      PROVE  \A l \in Lane : issuances[l] \subseteq issuances'[l]
  BY <1>1 DEF Issue, Invariant, TypeOK
<1> QED
  BY <1>1, OnlyIssueCommits DEF Next, vars, Rebind, Start, Crash, root

\* Every step of the run: what it adds to what it has seen is so.
LEMMA StepSees ==
  ASSUME Invariant, NEW p \in Proc, SeenBy(p), Step(p),
         \A l \in Lane : issuances[l] \subseteq issuances'[l]
  PROVE  SeenBy(p)'
<1> DEFINE t == run[p].issuedAt
<1>1. TypeOK /\ run \in [Proc -> Run]
  BY DEF Invariant, TypeOK
<1>2. ASSUME run'[p].issuedAt = t
      PROVE  ActiveGrants(run[p].issuedAt) \subseteq ActiveGrants(run[p].issuedAt)'
  BY <1>2 DEF ActiveGrants, ActiveIn
<1>3. CASE run'[p] = Idle
  BY <1>3 DEF SeenBy, Idle
<1>4. CASE run'[p].issuedAt = t
  <2>1. ASSUME run'[p].active \subseteq ActiveGrants(t)
        PROVE  SeenBy(p)'
    <3>1. run'[p].active \subseteq ActiveGrants(run[p].issuedAt)'
      BY <1>2, <1>4, <2>1
    <3> QED
      BY <1>4, <3>1 DEF SeenBy
  <2>2. CASE SurveyLedger(p)
    <3> DEFINE m == Min(run[p].unread)
    <3>1. run[p].unread \in SUBSET Lane /\ run[p].unread # {}
      BY <1>1, <2>2 DEF SurveyLedger, Run
    <3>2. m \in Lane
      BY <3>1, MinOfLanes
    <3>3. run'[p].active = run[p].active \cup ActiveIn(m, t)
      BY <1>1, <2>2 DEF SurveyLedger, Run
    <3> QED
      BY <2>1, <3>2, <3>3 DEF SeenBy, ActiveGrants
  <2>3. CASE ~SurveyLedger(p)
    <3>1. run'[p].active \in {run[p].active, {}}
      <4>1. CASE \/ InspectHistory(p) \/ ListLedgers(p) \/ Preflight(p)
                 \/ OpenDatabase(p) \/ InitializeDatabase(p) \/ Issue(p) \/ Verify(p)
        BY <1>1, <4>1 DEF InspectHistory, ListLedgers, Preflight, OpenDatabase,
                          InitializeDatabase, Issue, Verify, Goto, Run
      <4>2. CASE \/ ExportIsThere(p) \/ ExportIsMissing(p) \/ CreateTemporary(p)
                 \/ WriteTemporary(p) \/ Publish(p) \/ SetMode(p)
        BY <1>1, <4>2 DEF ExportIsThere, ExportIsMissing, CreateTemporary,
                          WriteTemporary, Publish, SetMode, Goto, Run
      <4>3. CASE WriteFails(p) \/ Report(p) \/ Refuses(p)
        BY <1>1, <4>3 DEF Idle, WriteFails, CleanUp, Report, Refuses, Refuse,
           InspectHistoryRefuses, PreflightRefuses, IssueRefuses, ExportConflicts,
           CreateTemporaryFails
      <4> QED
        BY <2>3, <4>1, <4>2, <4>3 DEF Step
    <3> QED
      BY <2>1, <3>1 DEF SeenBy
  <2> QED
    BY <2>2, <2>3
<1> QED
  BY <1>1, <1>3, <1>4, StepFacts

\* What has been seen active stays active at its instant, whatever other runs
\* commit meanwhile.
LEMMA SeenNext ==
  ASSUME Invariant, Seen, [Next]_vars
  PROVE  Seen'
<1>0. TypeOK
  BY DEF Invariant
<1>1. \A l \in Lane : issuances[l] \subseteq issuances'[l]
  BY RowsStay
<1>2. ASSUME NEW q \in Proc, run'[q] = run[q]
      PROVE  SeenBy(q)'
  <2>1. ActiveGrants(run[q].issuedAt) \subseteq ActiveGrants(run[q].issuedAt)'
    BY <1>1, <1>2 DEF ActiveGrants, ActiveIn
  <2> QED
    BY <1>2, <2>1 DEF Seen, SeenBy
<1>3. ASSUME NEW q \in Proc, run'[q].active = {}
      PROVE  SeenBy(q)'
  BY <1>3 DEF SeenBy
<1>4. ASSUME NEW p \in Proc, Step(p), NEW q \in Proc
      PROVE  SeenBy(q)'
  <2>1. CASE q = p
    BY <1>1, <1>4, <2>1, StepSees DEF Seen
  <2>2. CASE q # p
    BY <1>0, <1>2, <1>4, <2>2, StepFacts DEF OthersUntouched
  <2> QED
    BY <2>1, <2>2
<1> QED
  BY <1>0, <1>2, <1>3, <1>4, OtherFacts DEF Seen, OthersUntouched

\* The history inspection remembers the receipt it finds.
LEMMA StepRemembers ==
  ASSUME Invariant, NEW p \in Proc, RememberedBy(p), Step(p), issuances' = issuances
  PROVE  RememberedBy(p)'
<1> DEFINE l == run[p].lane
           t == run[p].issuedAt
<1>1. run \in [Proc -> Run] /\ issuances \in [Lane -> SUBSET Row]
  BY DEF Invariant, TypeOK
<1>2. CASE run'[p].pc \notin Deciding
  BY <1>2 DEF RememberedBy
<1>3. CASE InspectHistory(p)
  <2>1. PICK before \in IF ExactRows(l, t) = {} THEN {None} ELSE ExactRows(l, t) :
          run' = [run EXCEPT ![p].pc = "list", ![p].before = before]
    BY <1>3 DEF InspectHistory
  <2>2. l \in Lane
    BY <1>3 DEF Invariant, Knowledge, Knows, InspectHistory
  <2>3. None \notin ExactRows(l, t)
    BY <1>1, <2>2, RootAssumption DEF ExactRows
  <2>4. /\ run'[p].lane = l /\ run'[p].issuedAt = t
        /\ run'[p].before = None => ExactRows(l, t) = {}
    BY <1>1, <2>1, <2>3 DEF Run
  <2> QED
    BY <2>4 DEF RememberedBy, ExactRows
<1>4. CASE ListLedgers(p) \/ SurveyLedger(p) \/ Preflight(p)
           \/ OpenDatabase(p) \/ InitializeDatabase(p)
  <2>1. /\ run[p].pc \in Deciding
        /\ run'[p].lane = l /\ run'[p].issuedAt = t
        /\ run'[p].before = run[p].before
    BY <1>1, <1>4 DEF ListLedgers, SurveyLedger, Preflight, OpenDatabase,
                      InitializeDatabase, Goto, Run, Deciding
  <2> QED
    BY <2>1 DEF RememberedBy, ExactRows
<1>5. CASE \/ Issue(p) \/ Verify(p) \/ ExportIsThere(p) \/ ExportIsMissing(p)
           \/ CreateTemporary(p) \/ WriteTemporary(p) \/ Publish(p) \/ SetMode(p)
  <2>1. run'[p].pc \in {"verify", "export", "create", "write", "replace", "chmod"}
    BY <1>1, <1>5 DEF Issue, Verify, ExportIsThere, ExportIsMissing,
                      CreateTemporary, WriteTemporary, Publish, SetMode, Goto, Run
  <2> QED
    BY <1>2, <2>1 DEF Deciding
<1>6. CASE WriteFails(p) \/ Report(p) \/ Refuses(p)
  <2>1. run'[p] = Idle
    BY <1>1, <1>6 DEF WriteFails, CleanUp, Report, Refuses, Refuse, InspectHistoryRefuses,
       PreflightRefuses, IssueRefuses, ExportConflicts, CreateTemporaryFails
  <2> QED
    BY <1>2, <2>1 DEF Idle, Deciding
<1> QED
  BY <1>3, <1>4, <1>5, <1>6 DEF Step

\* With one run in progress nobody else adds the receipt it did not find.
LEMMA RememberedNext ==
  ASSUME OneRunAtATime, Invariant, Remembered, [Next]_vars
  PROVE  Remembered'
<1>0. TypeOK
  BY DEF Invariant
<1>1. ASSUME NEW q \in Proc, run'[q] = run[q], issuances' = issuances
      PROVE  RememberedBy(q)'
  BY <1>1 DEF Remembered, RememberedBy, ExactRows
<1>2. ASSUME NEW q \in Proc, run'[q].pc \notin Deciding
      PROVE  RememberedBy(q)'
  BY <1>2 DEF RememberedBy
<1>3. ASSUME NEW p \in Proc, Step(p), issuances' = issuances, NEW q \in Proc
      PROVE  RememberedBy(q)'
  <2>1. CASE q = p
    BY <1>3, <2>1, StepRemembers DEF Remembered
  <2>2. CASE q # p
    BY <1>0, <1>1, <1>3, <2>2, StepFacts DEF OthersUntouched
  <2> QED
    BY <2>1, <2>2
<1>4. ASSUME NEW p \in Proc, Issue(p), NEW q \in Proc
      PROVE  RememberedBy(q)'
  <2>1. run'[p].pc = "verify" /\ \A o \in Proc \ {p} : run'[o] = run[o]
    BY <1>4, CommittedRow
  <2>2. \A o \in Proc \ {p} : run[o].pc = "idle"
    BY <1>4 DEF OneRunAtATime, InProgress, Issue
  <2>3. run'[q].pc \in {"verify", "idle"}
    BY <2>1, <2>2
  <2> QED
    BY <1>2, <2>3 DEF Deciding
<1>5. \A q \in Proc : run'[q].pc \in {"idle", "inspect"} => RememberedBy(q)'
  BY <1>2 DEF Deciding
<1> QED
  BY <1>0, <1>1, <1>3, <1>4, <1>5, OtherFacts, OnlyIssueCommits
     DEF Remembered, OthersUntouched

-----------------------------------------------------------------------------
(* The order of the preparations                                           *)

\* A request of a lane is bound to one preparation at most.
LEMMA OneBinding ==
  ASSUME NEW g, NEW m \in DOMAIN Preparations, NEW n \in DOMAIN Preparations,
         BoundTo(g, m), BoundTo(g, n)
  PROVE  m = n
<1>1. GrantPreparation(Preparations[m]) = GrantPreparation(Preparations[n])
  BY DEF BoundTo, IsCurrent
<1>2. Preparations[m] = Preparations[n]
  BY <1>1 DEF GrantPreparation
<1> QED
  BY <1>2, RootAssumption

\* The checkouts up to the one in use are preparations.
LEMMA BindingFacts ==
  ASSUME TypeOK
  PROVE  /\ binding \in Nat
         /\ \A n \in 1..binding : n \in DOMAIN Preparations
         /\ DOMAIN Preparations = 1..Len(Preparations)
         /\ Len(Preparations) \in Nat
  BY RootAssumption DEF TypeOK

\* Steps that commit nothing, of a run that keeps its identity or ends.
LEMMA OrderStays ==
  ASSUME BoundInOrder, NEW p \in Proc, OthersUntouched(p),
         issuances' = issuances, binding' = binding,
         \/ run'[p].pc = "idle"
         \/ run[p].pc # "idle" /\ run'[p].identity = run[p].identity
  PROVE  BoundInOrder'
<1>1. \A q \in Proc :
        \/ run'[q].pc = "idle"
        \/ run[q].pc # "idle" /\ run'[q].identity = run[q].identity
  BY DEF OthersUntouched
<1> QED
  BY <1>1 DEF BoundInOrder, BoundTo, IsCurrent

\* A rebind moves past everything bound so far.
LEMMA RebindOrders ==
  ASSUME TypeOK, BoundInOrder, Rebind
  PROVE  BoundInOrder'
<1>1. issuances' = issuances /\ run' = run /\ binding' = binding + 1
  BY DEF Rebind, root
<1>2. \A n \in 1..binding : n \in 1..binding'
  BY <1>1, BindingFacts
<1> QED
  BY <1>1, <1>2 DEF BoundInOrder, BoundTo, IsCurrent

\* A run takes the identity of the checkout in use.
LEMMA StartOrders ==
  ASSUME TypeOK, BoundInOrder, NEW p \in Proc, NEW l \in Lane,
         NEW t \in IssuedAt, Start(p, l, t)
  PROVE  BoundInOrder'
<1>1. issuances' = issuances /\ binding' = binding
  BY DEF Start, root
<1>2. /\ run'[p].identity = Preparations[binding]
      /\ \A q \in Proc \ {p} : run'[q] = run[q]
  BY DEF TypeOK, Start, BoundIdentity, Idle
<1>3. binding \in 1..binding /\ binding \in DOMAIN Preparations
  BY BindingFacts DEF TypeOK
<1>4. ASSUME NEW g \in issuances[EPOCH6], NEW m \in DOMAIN Preparations, BoundTo(g, m)
      PROVE  m <= binding
  <2>1. PICK n \in 1..binding : BoundTo(g, n)
    BY DEF BoundInOrder
  <2>2. n \in DOMAIN Preparations
    BY <2>1, BindingFacts
  <2>3. m = n
    BY <1>4, <2>1, <2>2, OneBinding
  <2> QED
    BY <2>1, <2>3, BindingFacts
<1>5. \A q \in Proc : run'[q].pc # "idle" =>
        \E n \in 1..binding :
          /\ run'[q].identity = Preparations[n]
          /\ \A g \in issuances[EPOCH6], m \in DOMAIN Preparations :
               BoundTo(g, m) => m <= n
  BY <1>2, <1>3, <1>4 DEF BoundInOrder
<1> QED
  BY <1>1, <1>5 DEF BoundInOrder, BoundTo, IsCurrent

\* A new grant is bound to the run's identity, which none before it is past.
LEMMA IssueOrders ==
  ASSUME OneRunAtATime, Invariant, BoundInOrder, NEW p \in Proc, Issue(p)
  PROVE  BoundInOrder'
<1> DEFINE l == run[p].lane
           t == run[p].issuedAt
           i == run[p].identity
<1>1. /\ Invariant /\ TypeOK /\ run \in [Proc -> Run]
      /\ issuances \in [Lane -> SUBSET Row]
      /\ run[p].pc = "issue" /\ l \in Lane /\ t \in IssuedAt /\ i \in Identity
  BY DEF Invariant, TypeOK, Knowledge, Knows, Issue
<1>2. PICK g \in Row :
        /\ g.rid = RequestIdOf(t) /\ g.request = InkRequest(i, t)
        /\ \/ g \in issuances[l]
           \/ /\ ExactRows(l, t) = {}
              /\ g = NewRow(l, i, t)
              /\ Issues(l, i, t, NewRow(l, i, t))
        /\ issuances' = [issuances EXCEPT ![l] = @ \cup {g}]
        /\ run' = [run EXCEPT ![p].pc = "verify", ![p].row = g]
  BY <1>1, IssueFacts
<1>3. /\ binding' = binding /\ run'[p].identity = i
      /\ \A q \in Proc \ {p} : run'[q].pc = "idle"
  BY <1>1, <1>2 DEF Issue, Run, OneRunAtATime, InProgress
<1>4. CASE issuances'[EPOCH6] = issuances[EPOCH6]
  BY <1>1, <1>3, <1>4 DEF BoundInOrder, BoundTo, IsCurrent
<1>5. CASE issuances'[EPOCH6] # issuances[EPOCH6]
  <2>1. /\ l = EPOCH6 /\ g \notin issuances[EPOCH6]
        /\ issuances'[EPOCH6] = issuances[EPOCH6] \cup {g}
        /\ ExactRows(l, t) = {} /\ g = NewRow(l, i, t)
        /\ Issues(l, i, t, NewRow(l, i, t))
    BY <1>1, <1>2, <1>5 DEF Lane
  <2>2. PICK n \in 1..binding :
          /\ i = Preparations[n]
          /\ \A h \in issuances[EPOCH6], m \in DOMAIN Preparations :
               BoundTo(h, m) => m <= n
    BY <1>1 DEF BoundInOrder
  <2>3. BoundTo(g, n) /\ n \in DOMAIN Preparations /\ n \in Nat
    BY <1>1, <1>2, <2>2, LaneRequestFacts, BindingFacts DEF BoundTo, IsCurrent
  <2>4. \A m \in DOMAIN Preparations : BoundTo(g, m) => m = n
    BY <2>3, OneBinding
  <2>5. /\ g.serial = Cardinality(issuances[EPOCH6]) + 1
        /\ Cardinality(issuances[EPOCH6]) \in Nat
    BY <1>1, <2>1, NewRowFits
  <2>6. \A h \in issuances[EPOCH6] : h.serial \in 1..Cardinality(issuances[EPOCH6])
    BY <1>1 DEF Invariant, History, HistoryOf, Lane
  <2>7. \A h \in issuances'[EPOCH6] : ~(g.serial < h.serial)
    BY <2>1, <2>5, <2>6
  <2>8. \A h \in issuances'[EPOCH6], m \in DOMAIN Preparations : BoundTo(h, m) => m <= n
    BY <2>1, <2>2, <2>3, <2>4
  <2>9. \A h \in issuances'[EPOCH6] : \E m \in 1..binding : BoundTo(h, m)
    BY <2>1, <2>2, <2>3 DEF BoundInOrder
  <2>10. \A h, k \in issuances'[EPOCH6], m, o \in DOMAIN Preparations :
           h.serial < k.serial /\ BoundTo(h, m) /\ BoundTo(k, o) => m <= o
    BY <2>1, <2>4, <2>7, <2>8 DEF BoundInOrder
  <2>11. \A q \in Proc : run'[q].pc # "idle" => run'[q].identity = Preparations[n]
    BY <1>3, <2>2
  <2> QED
    BY <1>3, <2>2, <2>8, <2>9, <2>10, <2>11 DEF BoundInOrder, BoundTo, IsCurrent
<1> QED
  BY <1>4, <1>5

\* Every step keeps the order.
LEMMA OrderNext ==
  ASSUME OneRunAtATime, Invariant, BoundInOrder, [Next]_vars
  PROVE  BoundInOrder'
<1>0. TypeOK /\ run \in [Proc -> Run]
  BY DEF Invariant, TypeOK
<1>1. CASE UNCHANGED vars
  BY <1>1 DEF vars, root, BoundInOrder, BoundTo, IsCurrent
<1>2. CASE Rebind
  BY <1>0, <1>2, RebindOrders
<1>3. ASSUME NEW p \in Proc, NEW l \in Lane, NEW t \in IssuedAt, Start(p, l, t)
      PROVE  BoundInOrder'
  BY <1>0, <1>3, StartOrders
<1>4. ASSUME NEW p \in Proc, Step(p), ~Issue(p)
      PROVE  BoundInOrder'
  <2>1. issuances' = issuances
    BY <1>4, OnlyIssueCommits
  <2>2. /\ run[p].pc # "idle" /\ OthersUntouched(p) /\ binding' = binding
        /\ run'[p].pc = "idle" \/ run'[p].identity = run[p].identity
    BY <1>0, <1>4, StepFacts DEF InProgress, Idle
  <2> QED
    BY <2>1, <2>2, OrderStays
<1>5. ASSUME NEW p \in Proc, Crash(p)
      PROVE  BoundInOrder'
  <2>1. /\ issuances' = issuances /\ binding' = binding /\ OthersUntouched(p)
        /\ run'[p].pc = "idle"
    BY <1>0, <1>5 DEF Crash, Refuse, root, Idle, OthersUntouched
  <2> QED
    BY <2>1, OrderStays
<1> QED
  BY <1>1, <1>2, <1>3, <1>4, <1>5, IssueOrders DEF Next

\* The invariant behind the theorems below.
LEMMA InformedHolds == Spec /\ []OneRunAtATime => []Informed
<1>1. Init => Informed
  <2> SUFFICES ASSUME Init
               PROVE  Informed
    OBVIOUS
  <2>1. SoleInvariant
    BY SoleInit
  <2>2. Seen /\ Remembered
    BY DEF Init, Idle, Seen, SeenBy, Remembered, RememberedBy, Deciding
  <2>3. BoundInOrder
    BY DEF Init, Idle, BoundInOrder, Lane
  <2> QED
    BY <2>1, <2>2, <2>3 DEF Informed
<1>2. OneRunAtATime /\ Informed /\ [Next]_vars => Informed'
  <2>1. SoleInvariant => Invariant
    BY DEF SoleInvariant
  <2> QED
    BY <2>1, SoleNext, SeenNext, RememberedNext, OrderNext DEF Informed
<1> QED
  BY <1>1, <1>2, PTL DEF Spec

-----------------------------------------------------------------------------
(* Successors                                                              *)

\* What the lanes request is admissible to the issuers they make.
LEMMA LaneRequestIsAdmissible ==
  ASSUME NEW l, NEW i \in Identity, NEW t \in IssuedAt
  PROVE  Admissible(LaneIssuer(l, i, t).policy, LaneIssuer(l, i, t).identity,
                    InkRequest(i, t))
<1>1. t \in Nat /\ DURATION_S \in 1..INK_V0F_MAX_GRANT_DURATION_S
  BY RootAssumption
<1>2. Admissible(InkIssuerPolicy, i, InkRequest(i, t))
  BY <1>1, BuiltRequestsAreOwn DEF InkRequest
<1> QED
  BY <1>2 DEF LaneIssuer

\* The rows of a request id are of its issue time.
LEMMA ExactRowFacts ==
  ASSUME Invariant, NEW l \in Lane, NEW t \in IssuedAt, NEW g \in ExactRows(l, t)
  PROVE  /\ g \in issuances[l] /\ g \in Row /\ g.rid = RequestIdOf(t)
         /\ g.metadata = MetadataOf(l)
         /\ g.request.issuedAt = t
         /\ g.request.notBefore = t /\ g.request.notAfter = t + DURATION_S
         /\ \A h \in ExactRows(l, t) : h = g
<1>1. g \in issuances[l] /\ g \in Row /\ g.rid = RequestIdOf(t)
  BY DEF Invariant, TypeOK, ExactRows
<1>2. HistoryOf(l)
  BY DEF Invariant, History
<1>3. g.request.issuedAt = t
  BY <1>1, <1>2, RequestIdsDiffer DEF HistoryOf
<1>4. \A h \in ExactRows(l, t) : h = g
  BY <1>1, <1>2 DEF ExactRows, HistoryOf
<1> QED
  BY <1>1, <1>2, <1>3, <1>4, RowFacts DEF HistoryOf

\* A lane whose grants have all expired holds none of the issue time itself.
LEMMA ExpiredIsAnother ==
  ASSUME Invariant, NEW t \in IssuedAt,
         \A g \in issuances[EPOCH6] : g.request.notAfter <= t
  PROVE  ExactRows(EPOCH6, t) = {}
<1>1. ASSUME NEW g \in ExactRows(EPOCH6, t)
      PROVE  FALSE
  <2>1. g \in issuances[EPOCH6] /\ g.request.notAfter = t + DURATION_S
    BY ExactRowFacts DEF Lane
  <2>2. t \in Nat /\ DURATION_S \in Nat \ {0}
    BY RootAssumption
  <2> QED
    BY <2>1, <2>2
<1> QED
  BY <1>1

\* An expired grant does not stand in the way of a new one, whatever identity
\* it was bound to.
LEMMA ExpiredPermits ==
  ASSUME Invariant, NEW i \in Identity, NEW t \in IssuedAt,
         NEW h \in issuances[EPOCH6], h.request.notAfter <= t
  PROVE  Permits(LaneIssuer(EPOCH6, i, t), h, InkRequest(i, t))
<1>1. h \in Row /\ h.metadata = MetadataOf(EPOCH6)
  BY DEF Invariant, TypeOK, History, HistoryOf, Lane
<1>2. h.request \in LaneRequests
  BY <1>1 DEF Row
<1>3. Validates(LaneIssuer(EPOCH6, i, t), h, TRUE)
  BY <1>1, <1>2 DEF Validates, LaneIssuer, MetadataOf, InkIssuerPolicy
<1>4. ~Overlap(h.request, InkRequest(i, t))
  <2> DEFINE r == InkRequest(i, t)
             q == h.request
  <2>1. /\ q.notBefore \in Int /\ q.notAfter \in Int /\ q.notAfter <= r.notBefore
        /\ q.notBefore < q.notAfter
        /\ r.notBefore \in Int /\ r.notAfter \in Int /\ r.notBefore < r.notAfter
    BY <1>1, RowFacts, LaneRequestFacts
  <2> HIDE DEF r, q
  <2>2. /\ Max({q.notBefore, r.notBefore}) =
             IF q.notBefore >= r.notBefore THEN q.notBefore ELSE r.notBefore
        /\ Min({q.notAfter, r.notAfter}) =
             IF q.notAfter <= r.notAfter THEN q.notAfter ELSE r.notAfter
    <3>1. /\ q.notBefore \in Int /\ q.notAfter \in Int
          /\ r.notBefore \in Int /\ r.notAfter \in Int
      BY <2>1
    <3> QED
      BY <3>1, MaxMinOfTwo, Zenon
  <2>3. ~Overlap(q, r)
    BY <2>1, <2>2 DEF Overlap
  <2> QED
    BY <2>3 DEF q, r
<1> QED
  BY <1>3, <1>4 DEF Permits

\* None of the refusals is open to a run that asks for a successor.
LEMMA NoRefusalOfSuccessor ==
  ASSUME CompatibleLedger, Invariant, Seen, SuccessorsStartAfterExpiry,
         NEW p \in Proc, run[p].pc # "idle", IsSuccessor(p)
  PROVE  ~Refuses(p)
<1> DEFINE t == run[p].issuedAt
           i == run[p].identity
<1>1. /\ Invariant /\ run[p].lane = EPOCH6 /\ t \in IssuedAt /\ i \in Identity
      /\ database[EPOCH6] \in {"absent", "ready"} /\ EPOCH6 \in Lane
      /\ EPOCH6 # EPOCH5
      /\ \A g \in issuances[EPOCH6] : g.request.notAfter <= t
      /\ ActiveGrants(t) = {}
  <2>1. t \in IssuedAt /\ i \in Identity
    BY DEF Invariant, Knowledge, Knows
  <2>2. EPOCH6 \in Lane /\ EPOCH6 # EPOCH5
    BY DEF Lane, EPOCH5, EPOCH6
  <2>3. database[EPOCH6] \in {"absent", "ready"}
    BY <2>2 DEF Invariant, TypeOK, IsSuccessor
  <2> QED
    BY <2>1, <2>2, <2>3 DEF IsSuccessor
<1>2. ExactRows(EPOCH6, t) = {}
  BY <1>1, ExpiredIsAnother
<1>3. HistoryAdmits(EPOCH6, i, t)
  <2>1. \A g \in issuances[EPOCH6] : IsHistorical(g, t)
    BY <1>1 DEF IsHistorical
  <2>2. \A g \in issuances[EPOCH6] : g.serial \in Nat
    BY <1>1, RowFacts DEF Invariant, TypeOK
  <2>3. HistoryInOrder
    BY <2>2 DEF SuccessorsStartAfterExpiry, HistoryInOrder
  <2> QED
    BY <1>1, <1>2, <2>1, <2>3 DEF HistoryAdmits, Epoch6Admits
<1>4. ~InspectHistoryRefuses(p)
  BY <1>1, <1>3 DEF InspectHistoryRefuses
<1>5. ~PreflightRefuses(p)
  <2>1. run[p].active = {}
    BY <1>1 DEF Seen, SeenBy
  <2> QED
    BY <1>1, <2>1 DEF PreflightRefuses, PreflightAdmits, ActiveIsOwn, NoOrphanExport
<1>6. ~IssueRefuses(p)
  <2>1. \A h \in issuances[EPOCH6] : Permits(LaneIssuer(EPOCH6, i, t), h, InkRequest(i, t))
    BY <1>1, ExpiredPermits
  <2>2. Issues(EPOCH6, i, t, NewRow(EPOCH6, i, t))
    BY <1>1, <1>2, <2>1, LaneRequestIsAdmissible, IssuesInLane DEF LaneIssuer
  <2> QED
    BY <1>1, <2>2 DEF IssueRefuses, Candidates
<1>7. run[p].pc \notin Exporting
  BY <1>1, <1>2 DEF Invariant, Knowledge, Knows
<1> QED
  BY <1>4, <1>5, <1>6, <1>7 DEF Refuses, ExportConflicts, CreateTemporaryFails,
                                Exporting, Writing

\* Nothing is read of the ledgers that is not there.
LEMMA SeenHolds == Spec => []Seen
<1>1. Init => Seen
  BY DEF Init, Idle, Seen, SeenBy
<1>2. Invariant /\ Seen /\ [Next]_vars => Seen'
  BY SeenNext
<1> QED
  BY <1>1, <1>2, InvariantHolds, PTL DEF Spec

\* In a root with a compatible ledger, whose epoch-6 grants follow one another,
\* no step of a run refuses a successor once everything has expired, whatever
\* the earlier grants were bound to and however many other runs there are.
THEOREM OrderedLaneTakesSuccessors ==
  ASSUME CompatibleLedger
  PROVE  Spec /\ []SuccessorsStartAfterExpiry => SuccessorIsNotRefused
<1> DEFINE Allowed == \A p \in Proc : run[p].pc # "idle" /\ IsSuccessor(p) => ~Refuses(p)
<1>1. Invariant /\ Seen /\ SuccessorsStartAfterExpiry => [Allowed]_vars
  BY NoRefusalOfSuccessor
<1>2. [][Allowed]_vars => SuccessorIsNotRefused
  BY DEF SuccessorIsNotRefused
<1> QED
  BY <1>1, <1>2, InvariantHolds, SeenHolds, PTL DEF Spec

\* They do follow one another where the runs of the lane are kept apart, however
\* those of the epoch-5 lane interleave with them.
THEOREM SuccessorsAreNotRefused ==
  ASSUME CompatibleLedger
  PROVE  Spec /\ []RunsAlone(EPOCH6) => SuccessorIsNotRefused
  BY OrderedLaneTakesSuccessors, SuccessorsWaitForExpiry, PTL

-----------------------------------------------------------------------------
(* Exact retries                                                           *)

\* Serials tell the rows of a lane apart.
LEMMA SerialsDiffer ==
  ASSUME Invariant, NEW l \in Lane, NEW g \in issuances[l], NEW h \in issuances[l],
         g.serial = h.serial
  PROVE  g = h
<1> DEFINE S == issuances[l]
           n == Cardinality(S)
           f == [k \in S |-> k.serial]
<1>1. IsFiniteSet(S) /\ {k.serial : k \in S} = 1..n
  BY DEF Invariant, History, HistoryOf
<1>2. n \in Nat
  BY <1>1, FS_CardinalityType
<1>3. f \in Surjection(S, 1..n)
  BY <1>1 DEF Surjection
<1>4. Cardinality(1..n) = n
  BY <1>2, FS_Interval
<1>5. f \in Injection(S, 1..n)
  BY <1>1, <1>3, <1>4, FS_SurjSameCardinalityImpliesInj
<1>6. f[g] = f[h]
  OBVIOUS
<1> QED
  BY <1>5, <1>6 DEF Injection, IsInjective

\* What is known of both lanes.
LEMMA InformedFacts ==
  ASSUME Informed
  PROVE  Invariant /\ SuccessorsStartAfterExpiry /\ EpochFiveHoldsOneRequest
  BY DEF Informed, SoleInvariant, LaneInvariant, InOrder, Lane

\* In the history of a run that retries a current grant, the grants before it
\* have expired and those after it are current as well.
LEMMA RetriedHistory ==
  ASSUME Informed, NEW p \in Proc, run[p].pc # "idle", run[p].lane = EPOCH6,
         NEW g \in ExactRows(EPOCH6, run[p].issuedAt), IsCurrent(g, run[p].identity),
         NEW h \in issuances[EPOCH6]
  PROVE  IsCurrent(h, run[p].identity) \/ IsHistorical(h, run[p].issuedAt)
<1> DEFINE t == run[p].issuedAt
<1>1. Invariant /\ TypeOK /\ t \in IssuedAt /\ EPOCH6 \in Lane
  BY DEF Informed, SoleInvariant, Invariant, Knowledge, Knows, Lane
<1>2. g \in issuances[EPOCH6] /\ g.request.notBefore = t
  BY <1>1, ExactRowFacts
<1>3. g.serial \in Nat /\ h.serial \in Nat
  BY <1>1, <1>2, RowFacts DEF TypeOK
<1>4. CASE h.serial = g.serial
  BY <1>1, <1>2, <1>4, SerialsDiffer
<1>5. CASE h.serial < g.serial
  BY <1>2, <1>5, InformedFacts DEF SuccessorsStartAfterExpiry, IsHistorical
<1>6. CASE g.serial < h.serial
  <2>1. PICK n \in 1..binding :
          /\ run[p].identity = Preparations[n]
          /\ \A k \in issuances[EPOCH6], m \in DOMAIN Preparations :
               BoundTo(k, m) => m <= n
    BY DEF Informed, BoundInOrder
  <2>2. PICK m \in 1..binding : BoundTo(h, m)
    BY DEF Informed, BoundInOrder
  <2>3. m \in DOMAIN Preparations /\ n \in DOMAIN Preparations /\ m \in Nat /\ n \in Nat
    BY <1>1, BindingFacts
  <2>4. BoundTo(g, n)
    BY <2>1 DEF BoundTo
  <2>5. n <= m /\ m <= n
    BY <1>2, <1>6, <2>1, <2>2, <2>3, <2>4 DEF Informed, BoundInOrder
  <2>6. m = n
    BY <2>3, <2>5
  <2> QED
    BY <2>1, <2>2, <2>6 DEF BoundTo
<1> QED
  BY <1>3, <1>4, <1>5, <1>6

\* The row a retry asks for is the request of the run, to the last field.
LEMMA RetriedRequest ==
  ASSUME Invariant, NEW l \in Lane, NEW t \in IssuedAt, NEW i \in Identity,
         NEW g \in ExactRows(l, t), IsCurrent(g, i)
  PROVE  g.request = InkRequest(i, t)
<1>1. g \in Row /\ g.request.issuedAt = t
  BY ExactRowFacts
<1>2. PICK j \in Identity, u \in IssuedAt : g.request = InkRequest(j, u)
  BY <1>1, RowFacts
<1>3. u = t /\ GrantPreparation(j) = GrantPreparation(i)
  BY <1>1, <1>2, LaneRequestFacts DEF IsCurrent
<1> QED
  BY <1>2, <1>3 DEF InkRequest, BuildInkRequest

\* The history of a lane does not refuse the retry of one of its grants.
LEMMA HistoryAdmitsRetry ==
  ASSUME Informed, NEW p \in Proc, run[p].pc # "idle",
         NEW g \in ExactRows(run[p].lane, run[p].issuedAt),
         IsCurrent(g, run[p].identity)
  PROVE  HistoryAdmits(run[p].lane, run[p].identity, run[p].issuedAt)
<1> DEFINE l == run[p].lane
           t == run[p].issuedAt
           i == run[p].identity
<1>1. /\ Invariant /\ l \in Lane /\ t \in IssuedAt /\ i \in Identity
      /\ l = EPOCH5 => i = EPOCH5_IDENTITY
  BY DEF Informed, SoleInvariant, Invariant, Knowledge, Knows
<1>2. /\ g \in issuances[l] /\ g.rid = RequestIdOf(t) /\ g.request = InkRequest(i, t)
      /\ \A h \in ExactRows(l, t) : h = g
  BY <1>1, ExactRowFacts, RetriedRequest
<1>3. database[l] = "ready"
  BY <1>1, <1>2 DEF Invariant, History, HistoryOf
<1>4. l = EPOCH5 => Epoch5Admits(t)
  <2>1. l = EPOCH5 => \A h \in issuances[EPOCH5] : h = g
    BY <1>2, InformedFacts DEF EpochFiveHoldsOneRequest
  <2> QED
    BY <1>1, <1>2, <2>1 DEF Epoch5Admits
<1>5. l = EPOCH6 => Epoch6Admits(i, t)
  <2>1. \A h \in issuances[EPOCH6] : h.serial \in Nat
    BY <1>1, RowFacts DEF Invariant, TypeOK, Lane
  <2>2. HistoryInOrder
    BY <2>1, InformedFacts DEF SuccessorsStartAfterExpiry, HistoryInOrder
  <2>3. l = EPOCH6 => \A h \in issuances[EPOCH6] : IsCurrent(h, i) \/ IsHistorical(h, t)
    BY RetriedHistory
  <2> QED
    BY <1>2, <2>2, <2>3 DEF Epoch6Admits
<1> QED
  BY <1>3, <1>4, <1>5 DEF HistoryAdmits

\* A file in place of one of the retry's is the retry's.
LEMMA RetriedFile ==
  ASSUME Informed, Whole,
         NEW p \in Proc, run[p].pc \in Exporting, run[p].next \in Exports,
         file[NextFile(p)] # None
  PROVE  file[NextFile(p)] = run[p].row
<1> DEFINE l == run[p].lane
           t == run[p].issuedAt
           f == NextFile(p)
<1>1. /\ Invariant /\ l \in Lane /\ t \in IssuedAt /\ f \in File
      /\ run[p].row \in issuances[l] /\ run[p].row.request.issuedAt = t
  BY ExportFacts DEF Informed, SoleInvariant
<1>2. f[1] = l /\ f[2] = Stem(l, t)
  BY DEF NextFile
<1>3. CASE l = EPOCH5
  BY <1>1, <1>2, <1>3, InformedFacts
     DEF Invariant, Entries, Holds, Whole, EpochFiveHoldsOneRequest
<1>4. CASE l = EPOCH6
  <2>1. Stem(l, t) = t
    BY <1>4 DEF Stem, EPOCH5, EPOCH6
  <2> QED
    BY <1>1, <1>2, <1>4, <2>1, SuccessorFileIsItsRows
<1> QED
  BY <1>1, <1>3, <1>4 DEF Lane

\* None of the refusals is open to a run that retries a grant.
LEMMA NoRefusalOfRetry ==
  ASSUME CompatibleLedger, Informed, Whole, NEW p \in Proc, run[p].pc # "idle",
         IsExactRetry(p)
  PROVE  ~Refuses(p)
<1> DEFINE l == run[p].lane
           t == run[p].issuedAt
           i == run[p].identity
<1>1. /\ Invariant /\ l \in Lane /\ t \in IssuedAt /\ i \in Identity
  BY DEF Informed, SoleInvariant, Invariant, Knowledge, Knows
<1>2. PICK g \in ExactRows(l, t) :
        /\ IsCurrent(g, i)
        /\ ActiveGrants(t) = {g}
        /\ run[p].next \in Exports => tmp[NextFile(p)] = None
  BY DEF IsExactRetry
<1>3. /\ g.rid = RequestIdOf(t) /\ g.metadata = MetadataOf(l)
      /\ g.request = InkRequest(i, t)
  BY <1>1, <1>2, ExactRowFacts, RetriedRequest
<1>4. ~InspectHistoryRefuses(p)
  BY <1>2, HistoryAdmitsRetry DEF InspectHistoryRefuses
<1>5. ~PreflightRefuses(p)
  <2>1. SUFFICES ASSUME run[p].pc = "survey"
                 PROVE  PreflightAdmits(p)
    BY DEF PreflightRefuses
  <2>2. run[p].before # None
    BY <1>2, <2>1 DEF Informed, Remembered, RememberedBy, Deciding
  <2>3. run[p].active # {} => run[p].active = {g}
    BY <1>2 DEF Informed, Seen, SeenBy
  <2> QED
    BY <1>3, <2>2, <2>3 DEF PreflightAdmits, ActiveIsOwn, NoOrphanExport
<1>6. ~IssueRefuses(p)
  <2>1. Admissible(LaneIssuer(l, i, t).policy, LaneIssuer(l, i, t).identity, InkRequest(i, t))
    BY <1>1, LaneRequestIsAdmissible
  <2>2. Validates(LaneIssuer(l, i, t), g, FALSE)
    BY <1>3, <2>1 DEF Validates, LaneIssuer, MetadataOf, InkIssuerPolicy
  <2>3. Issues(l, i, t, g)
    BY <1>2, <1>3, <2>1, <2>2, IssuesInLane DEF LaneIssuer
  <2> QED
    BY <1>2, <2>3 DEF IssueRefuses, Candidates
<1>7. ~ExportConflicts(p)
  BY RetriedFile DEF ExportConflicts, Exporting
<1>8. ~CreateTemporaryFails(p)
  BY <1>2, WritingFacts DEF CreateTemporaryFails, Writing, Informed, SoleInvariant
<1> QED
  BY <1>4, <1>5, <1>6, <1>7, <1>8 DEF Refuses

\* With one run at a time and a compatible ledger in the root, no step of a run
\* refuses the exact retry of a committed grant, wherever the runs before it
\* stopped, unless a temporary file is in its way.
THEOREM ExactRetriesAreNotRefused ==
  ASSUME CompatibleLedger
  PROVE  Spec /\ []OneRunAtATime => ExactRetryIsNotRefused
<1> DEFINE Allowed ==
      \A p \in Proc : run[p].pc # "idle" /\ IsExactRetry(p) => ~Refuses(p)
<1>1. Informed /\ Whole => [Allowed]_vars
  BY NoRefusalOfRetry
<1>2. [][Allowed]_vars => ExactRetryIsNotRefused
  BY DEF ExactRetryIsNotRefused
<1>3. OneRunAtATime => [~CrowdedCleanUp]_vars
  BY SoleIsNoCrowd
<1> QED
  BY <1>1, <1>2, <1>3, InformedHolds, ExportsStayWhole, PTL DEF Spec
=============================================================================
