------------------------- MODULE ProductionRootProofs -------------------------
(***************************************************************************)
(* Theorems about ProductionRoot for every number of concurrent runs, every *)
(* set of issue times and any sequence of preparations, and their proofs.  *)
(*                                                                         *)
(* The runs share nothing but the root directory, and nothing in it is ever *)
(* taken back: rows stay, an initialized database stays, a published file  *)
(* stays a published file.  So what a run has learnt by one of its steps   *)
(* (Knows) stays true whatever the other runs do (OthersStillKnow), and an *)
(* action needs to be looked at for its own run only.                      *)
(***************************************************************************)
EXTENDS ProductionRoot, IssuancePolicyProofs

\* What the committed rows of a lane have in common.
HistoryOf(l) ==
  /\ IsFiniteSet(issuances[l])
  /\ {g.serial : g \in issuances[l]} = 1..Cardinality(issuances[l])
  /\ \A g \in issuances[l] :
       g.metadata = MetadataOf(l) /\ g.rid = RequestIdOf(g.request.issuedAt)
  /\ \A g, h \in issuances[l] : g.rid = h.rid => g = h
  /\ \A g, h \in issuances[l] : g # h => ~Overlap(g.request, h.request)
  /\ issuances[l] # {} => database[l] = "ready"

History == \A l \in Lane : HistoryOf(l)

\* A published file follows the files before it.
Published ==
  \A f \in File : file[f] # None =>
    \A k \in 1..f[3] : file[<<f[1], f[2], k>>] # None

\* A written file has the content of a committed row of its lane and name; an
\* open one is under the names of the file that its run is writing, if any.
Holds(f, c) ==
  c \in Row => /\ c \in issuances[f[1]]
               /\ f[1] = EPOCH6 => c.request.issuedAt = f[2]

Entries ==
  \A f \in File :
    /\ Holds(f, tmp[f]) /\ Holds(f, file[f])
    /\ \A p \in Proc :
         p \in {tmp[f], file[f]} => run[p].pc = "write" /\ NextFile(p) = f

Reports ==
  \A g \in reported :
    /\ g.metadata.epoch \in Lane
    /\ g \in issuances[g.metadata.epoch]
    /\ \A f \in FilesOf(g) : file[f] # None

InProgress(p) == run[p].pc # "idle"

Writing == {"create", "write", "replace", "chmod"}
Exporting == {"export"} \cup Writing

\* What the run at p has established by the step it has reached.
Knows(p) ==
  LET l == run[p].lane
      t == run[p].issuedAt
  IN  run[p].pc # "idle" =>
        /\ l \in Lane /\ t \in IssuedAt /\ run[p].identity \in Identity
        /\ l = EPOCH5 => run[p].identity = EPOCH5_IDENTITY
        /\ run[p].before # None => run[p].before \in ExactRows(l, t)
        /\ run[p].pc = "issue" => database[l] = "ready"
        /\ run[p].pc \in {"verify"} \cup Exporting =>
             /\ run[p].row \in ExactRows(l, t)
             /\ run[p].row.request = InkRequest(run[p].identity, t)
        /\ run[p].pc \in Exporting =>
             \A k \in Exports :
               k < run[p].next => file[<<l, Stem(l, t), k>>] # None
        /\ run[p].pc \in Writing => run[p].next \in Exports
        /\ run[p].pc = "chmod" => file[<<l, Stem(l, t), run[p].next>>] # None
        /\ run[p].pc \notin Exporting => run[p].next = 1

Knowledge == \A p \in Proc : Knows(p)

Invariant == TypeOK /\ History /\ Published /\ Entries /\ Reports /\ Knowledge

\* The step is p's own.
OthersUntouched(p) == \A q \in Proc \ {p} : run'[q] = run[q]

\* Nothing of the root is taken back.
RootGrows ==
  /\ \A l \in Lane : issuances[l] \subseteq issuances'[l]
  /\ \A l \in Lane : database[l] = "ready" => database'[l] = "ready"
  /\ \A f \in File : file[f] # None => file'[f] # None

-----------------------------------------------------------------------------
(* Lemmas about the definitions                                            *)

\* The names of the exported files.
LEMMA FileNames ==
  /\ \A l \in Lane, t \in IssuedAt, k \in Exports : <<l, Stem(l, t), k>> \in File
  /\ \A f \in File :
       /\ f[1] \in Lane /\ f[3] \in Exports /\ f = <<f[1], f[2], f[3]>>
       /\ \A k \in Exports : <<f[1], f[2], k>> \in File
       /\ \A k \in 1..f[3] : k \in Exports
<1>1. \A l \in Lane, t \in IssuedAt, k \in Exports : <<l, Stem(l, t), k>> \in File
  BY DEF File
<1>2. ASSUME NEW f \in File
      PROVE  /\ f[1] \in Lane /\ f[3] \in Exports /\ f = <<f[1], f[2], f[3]>>
             /\ \A k \in Exports : <<f[1], f[2], k>> \in File
             /\ \A k \in 1..f[3] : k \in Exports
  <2>1. PICK l \in Lane, t \in IssuedAt, k \in Exports : f = <<l, Stem(l, t), k>>
    BY DEF File
  <2>2. f[1] = l /\ f[2] = Stem(l, t) /\ f[3] = k
    BY <2>1
  <2>3. \A m \in 1..k : m \in Exports
    BY RootAssumption DEF Exports
  <2> QED
    BY <1>1, <2>1, <2>2, <2>3
<1> QED
  BY <1>1, <1>2

\* The requests of the lanes: their issue time opens a nonempty interval, they
\* are Ink requests, and the issue time determines the interval.
LEMMA LaneRequestFacts ==
  \A i \in Identity, t \in IssuedAt :
    LET r == InkRequest(i, t)
    IN  /\ r \in LaneRequests
        /\ r.issuedAt = t /\ r.notBefore = t /\ r.notAfter = t + DURATION_S
        /\ r.scope = GrantPreparation(i)
        /\ r.scope.network = INK_V0F_NETWORK_ID
        /\ r.notBefore \in Nat /\ r.notAfter \in Nat /\ r.notBefore < r.notAfter
<1> TAKE i \in Identity, t \in IssuedAt
<1>1. t \in Nat /\ DURATION_S \in Nat \ {0}
  BY RootAssumption, PolicyConstantsAssumption
<1>2. InkRequest(i, t) \in LaneRequests
  BY DEF LaneRequests
<1> QED
  BY <1>1, <1>2 DEF InkRequest, BuildInkRequest, GrantPreparation

\* Every request of a row is one of them.
LEMMA RowFacts ==
  ASSUME NEW g \in Row
  PROVE  /\ \E i \in Identity, t \in IssuedAt : g.request = InkRequest(i, t)
         /\ IsInk(g.request)
         /\ g.request.issuedAt \in IssuedAt
         /\ g.request.notBefore = g.request.issuedAt
         /\ g.request.notAfter = g.request.issuedAt + DURATION_S
         /\ g.request.notBefore \in Nat /\ g.request.notAfter \in Nat
         /\ g.request.notBefore < g.request.notAfter
         /\ g.serial \in Nat \ {0}
<1>1. g.request \in LaneRequests /\ g.serial \in Nat \ {0}
  BY DEF Row
<1>2. PICK i \in Identity, t \in IssuedAt : g.request = InkRequest(i, t)
  BY <1>1 DEF LaneRequests
<1> QED
  BY <1>1, <1>2, LaneRequestFacts DEF IsInk

\* The request id of an issue time determines it.
LEMMA RequestIdsDiffer ==
  \A t, u : RequestIdOf(t) = RequestIdOf(u) => t = u
  BY DEF RequestIdOf, InkRequestId

-----------------------------------------------------------------------------
(* What one run does to the others, and to the root                        *)

\* What a run knows outlives every step of another run.
LEMMA OthersStillKnow ==
  ASSUME Invariant, NEW p \in Proc, OthersUntouched(p), RootGrows,
         NEW q \in Proc, q # p
  PROVE  Knows(q)'
<1> DEFINE l == run[q].lane
           t == run[q].issuedAt
<1>1. Knows(q) /\ run'[q] = run[q] /\ TypeOK
  BY DEF Invariant, Knowledge, OthersUntouched
<1>2. ASSUME l \in Lane, t \in IssuedAt
      PROVE  /\ ExactRows(l, t) \subseteq ExactRows(l, t)'
             /\ \A k \in Exports : file[<<l, Stem(l, t), k>>] # None =>
                                      file'[<<l, Stem(l, t), k>>] # None
  <2>1. \A k \in Exports : <<l, Stem(l, t), k>> \in File
    BY <1>2, FileNames
  <2>2. \A k \in Exports : file[<<l, Stem(l, t), k>>] # None =>
                            file'[<<l, Stem(l, t), k>>] # None
    BY <2>1 DEF RootGrows
  <2>3. ExactRows(l, t) \subseteq ExactRows(l, t)'
    BY <1>1, <1>2 DEF ExactRows, RootGrows
  <2> QED
    BY <2>2, <2>3
<1> QED
  BY <1>1, <1>2 DEF Knows, RootGrows, Writing

\* A step that takes nothing of the root back needs only its own run's knowledge.
LEMMA OwnStep ==
  ASSUME Invariant, NEW p \in Proc, OthersUntouched(p), RootGrows,
         TypeOK', History', Published', Entries', Reports', Knows(p)'
  PROVE  Invariant'
  BY OthersStillKnow DEF Invariant, Knowledge

\* A step that leaves databases, rows, files and reports alone.
LEMMA RootStays ==
  ASSUME Invariant, UNCHANGED <<database, issuances, file, reported>>
  PROVE  RootGrows /\ History' /\ Published' /\ Reports'
<1>1. RootGrows
  BY DEF RootGrows
<1>2. History'
  BY DEF Invariant, History, HistoryOf
<1>3. Published' /\ Reports'
  BY DEF Invariant, Published, Reports, FilesOf
<1> QED
  BY <1>1, <1>2, <1>3

\* The entries stay good while rows are added, as long as the run that does it
\* has no file open.
LEMMA EntriesStay ==
  ASSUME Invariant, NEW p \in Proc, OthersUntouched(p), run[p].pc # "write",
         UNCHANGED <<file, tmp>>, \A l \in Lane : issuances[l] \subseteq issuances'[l]
  PROVE  Entries'
<1>1. ASSUME NEW f \in File
      PROVE  Holds(f, tmp[f])' /\ Holds(f, file[f])'
  BY <1>1, FileNames DEF Invariant, Entries, Holds
<1>2. ASSUME NEW f \in File, NEW q \in Proc, q \in {tmp[f], file[f]}
      PROVE  run'[q].pc = "write" /\ NextFile(q)' = f
  <2>1. run[q].pc = "write" /\ NextFile(q) = f
    BY <1>2 DEF Invariant, Entries
  <2>2. run'[q] = run[q]
    BY <2>1 DEF OthersUntouched
  <2> QED
    BY <2>1, <2>2 DEF NextFile
<1> QED
  BY <1>1, <1>2 DEF Entries

\* A step that changes neither rows nor files nor reports needs no more.
LEMMA QuietStep ==
  ASSUME Invariant, NEW p \in Proc, OthersUntouched(p), run[p].pc # "write",
         UNCHANGED <<database, issuances, file, tmp, reported>>,
         TypeOK', Knows(p)'
  PROVE  Invariant'
  BY RootStays, EntriesStay, OwnStep

-----------------------------------------------------------------------------
(* One lemma per action or group of actions                                *)

\* The idle run is one.
LEMMA IdleRun == Idle \in Run
  BY RootAssumption DEF Idle, Run, Steps

\* A rebind is for the runs that start after it.
LEMMA RebindKeeps ==
  ASSUME Invariant, Rebind
  PROVE  Invariant'
<1>1. TypeOK' /\ UNCHANGED <<database, issuances, file, tmp, reported, run>>
  BY DEF Invariant, TypeOK, Rebind, root
<1>2. Knowledge'
  BY <1>1 DEF Invariant, Knowledge, Knows, ExactRows
<1>3. Entries'
  BY <1>1 DEF Invariant, Entries, Holds, NextFile
<1> QED
  BY <1>1, <1>2, <1>3, RootStays DEF Invariant

\* A refusal, by whichever check.
LEMMA RefuseKeeps ==
  ASSUME Invariant, NEW p \in Proc, run[p].pc # "write", Refuse(p)
  PROVE  Invariant'
<1>1. OthersUntouched(p) /\ UNCHANGED <<database, issuances, file, tmp, reported>>
  BY DEF Invariant, TypeOK, Refuse, root, OthersUntouched
<1>2. TypeOK'
  BY <1>1, IdleRun DEF Invariant, TypeOK, Refuse
<1>3. Knows(p)'
  BY DEF Invariant, TypeOK, Refuse, Knows, Idle
<1> QED
  BY <1>1, <1>2, <1>3, QuietStep

\* A run begins with nothing established but its arguments.
LEMMA StartKeeps ==
  ASSUME Invariant, NEW p \in Proc, NEW l \in Lane, NEW t \in IssuedAt,
         Start(p, l, t)
  PROVE  Invariant'
<1>0. TypeOK /\ BoundIdentity \in Identity
  BY RootAssumption DEF Invariant, TypeOK, BoundIdentity
<1>1. OthersUntouched(p) /\ UNCHANGED <<binding, database, issuances, file, tmp, reported>>
  BY <1>0 DEF TypeOK, Start, root, OthersUntouched
<1>2. run'[p] = [Idle EXCEPT !.pc = "inspect", !.lane = l, !.issuedAt = t,
                             !.identity = BoundIdentity]
  BY <1>0 DEF TypeOK, Start
<1>3. TypeOK'
  <2>1. [Idle EXCEPT !.pc = "inspect", !.lane = l, !.issuedAt = t,
                     !.identity = BoundIdentity] \in Run
    BY <1>0, IdleRun DEF Run, Steps
  <2>2. run' \in [Proc -> Run]
    BY <1>0, <2>1 DEF TypeOK, Start
  <2> QED
    BY <1>0, <1>1, <2>2 DEF TypeOK
<1>4. Knows(p)'
  BY <1>0, <1>2 DEF Knows, Start, NotSuperseded, Idle, Exporting, Writing
<1> QED
  BY <1>1, <1>3, <1>4, QuietStep DEF Start

\* The receipt seen by the history inspection is a committed one.
LEMMA InspectHistoryKeeps ==
  ASSUME Invariant, NEW p \in Proc, InspectHistory(p)
  PROVE  Invariant'
<1>0. TypeOK /\ Knows(p) /\ run[p].pc = "inspect"
  BY DEF Invariant, Knowledge, InspectHistory
<1>1. OthersUntouched(p) /\ UNCHANGED <<binding, database, issuances, file, tmp, reported>>
  BY <1>0 DEF TypeOK, InspectHistory, root, OthersUntouched
<1>2. PICK before \in {None} \cup ExactRows(run[p].lane, run[p].issuedAt) :
        run' = [run EXCEPT ![p].pc = "list", ![p].before = before]
  BY DEF InspectHistory
<1>3. before \in Row \cup {None}
  BY <1>0 DEF TypeOK, Knows, ExactRows
<1>4. TypeOK'
  <2>1. [run[p] EXCEPT !.pc = "list", !.before = before] \in Run
    BY <1>0, <1>3 DEF TypeOK, Run, Steps
  <2>2. run' \in [Proc -> Run]
    BY <1>0, <1>2, <2>1 DEF TypeOK
  <2> QED
    BY <1>0, <1>1, <2>2 DEF TypeOK
<1>5. Knows(p)'
  BY <1>0, <1>1, <1>2 DEF TypeOK, Run, Knows, Exporting, Writing, ExactRows
<1> QED
  BY <1>0, <1>1, <1>4, <1>5, QuietStep

\* The preflight only reads.
LEMMA PreflightStepsKeep ==
  ASSUME Invariant, NEW p \in Proc,
         ListLedgers(p) \/ SurveyLedger(p) \/ Preflight(p)
  PROVE  Invariant'
<1>0. TypeOK /\ Knows(p) /\ run[p].pc \in {"list", "survey"}
  BY DEF Invariant, Knowledge, ListLedgers, SurveyLedger, Preflight
<1>1. OthersUntouched(p) /\ UNCHANGED <<binding, database, issuances, file, tmp, reported>>
  BY <1>0 DEF TypeOK, ListLedgers, SurveyLedger, Preflight, root, OthersUntouched
<1>2. \A now : \A l \in Lane : ActiveIn(l, now) \subseteq Row
  BY <1>0 DEF TypeOK, ActiveIn
<1>3. PICK step \in {"survey", "open"}, unread \in SUBSET Lane, active \in SUBSET Row :
        run' = [run EXCEPT ![p].pc = step, ![p].unread = unread, ![p].active = active]
  <2>1. run[p] \in Run
    BY <1>0 DEF TypeOK
  <2>2. CASE ListLedgers(p)
    <3>1. run' = [run EXCEPT ![p].pc = "survey",
                             ![p].unread = {l \in Lane : database[l] # "absent"},
                             ![p].active = run[p].active]
      BY <1>0, <2>1, <2>2 DEF TypeOK, ListLedgers, Run
    <3> QED
      BY <2>1, <3>1 DEF Run
  <2>3. CASE SurveyLedger(p)
    <3> DEFINE l == Min(run[p].unread)
    <3>1. l \in Lane
      <4>1. run[p].unread \in SUBSET {5, 6} /\ run[p].unread # {}
        BY <2>1, <2>3 DEF Run, SurveyLedger, Lane, EPOCH5, EPOCH6
      <4>2. \E x \in run[p].unread : \A y \in run[p].unread : x <= y
        BY <4>1
      <4> QED
        BY <4>1, <4>2 DEF Min, Lane, EPOCH5, EPOCH6
    <3>2. run' = [run EXCEPT ![p].pc = "survey", ![p].unread = run[p].unread \ {l},
                    ![p].active = run[p].active \cup ActiveIn(l, run[p].issuedAt)]
      BY <1>0, <2>1, <2>3 DEF TypeOK, SurveyLedger, Run
    <3> QED
      BY <1>2, <2>1, <3>1, <3>2 DEF Run
  <2>4. CASE Preflight(p)
    <3>1. run' = [run EXCEPT ![p].pc = "open", ![p].unread = {}, ![p].active = {}]
      BY <1>0, <2>1, <2>4 DEF TypeOK, Preflight, Run
    <3> QED
      BY <3>1
  <2> QED
    BY <2>2, <2>3, <2>4
<1>4. TypeOK'
  <2>1. [run[p] EXCEPT !.pc = step, !.unread = unread, !.active = active] \in Run
    BY <1>0 DEF TypeOK, Run, Steps
  <2>2. run' \in [Proc -> Run]
    BY <1>0, <1>3, <2>1 DEF TypeOK
  <2> QED
    BY <1>0, <1>1, <2>2 DEF TypeOK
<1>5. Knows(p)'
  BY <1>0, <1>1, <1>3 DEF TypeOK, Run, Knows, Exporting, Writing, ExactRows
<1> QED
  BY <1>0, <1>1, <1>4, <1>5, QuietStep

\* The database file comes into being, and becomes a ledger.
LEMMA DatabaseStepsKeep ==
  ASSUME Invariant, NEW p \in Proc, OpenDatabase(p) \/ InitializeDatabase(p)
  PROVE  Invariant'
<1> DEFINE l == run[p].lane
<1>0. /\ TypeOK /\ Knows(p) /\ l \in Lane
      /\ run[p].pc \in {"open", "initialize"}
  BY DEF Invariant, Knowledge, Knows, OpenDatabase, InitializeDatabase
<1>1. /\ OthersUntouched(p)
      /\ UNCHANGED <<binding, issuances, file, tmp, reported>>
  BY <1>0 DEF TypeOK, OpenDatabase, InitializeDatabase, Goto, OthersUntouched
<1>2. PICK step \in {"initialize", "issue"} :
        /\ run' = [run EXCEPT ![p].pc = step]
        /\ step = "issue" => database'[l] = "ready"
  BY <1>0 DEF TypeOK, OpenDatabase, InitializeDatabase, Goto
<1>3. /\ database' \in [Lane -> {"absent", "bare", "ready"}]
      /\ \A m \in Lane : database[m] = "ready" => database'[m] = "ready"
  BY <1>0 DEF TypeOK, OpenDatabase, InitializeDatabase
<1>4. TypeOK'
  <2>1. [run[p] EXCEPT !.pc = step] \in Run
    BY <1>0 DEF TypeOK, Run, Steps
  <2>2. run' \in [Proc -> Run]
    BY <1>0, <1>2, <2>1 DEF TypeOK
  <2> QED
    BY <1>0, <1>1, <1>3, <2>2 DEF TypeOK
<1>5. RootGrows
  BY <1>1, <1>3 DEF RootGrows
<1>6. History' /\ Published' /\ Reports'
  BY <1>1, <1>3 DEF Invariant, History, HistoryOf, Published, Reports, FilesOf
<1>7. Knows(p)'
  BY <1>0, <1>1, <1>2 DEF TypeOK, Run, Knows, Exporting, Writing, ExactRows
<1> QED
  BY <1>0, <1>1, <1>4, <1>5, <1>6, <1>7, EntriesStay, OwnStep

\* The issuers that the scripts make pass the checks of AuthorityIssuer's
\* constructor, and what they ask for is a request: what is assumed of issuers
\* and requests where the issuer is modelled step by step is true of these.
THEOREM LaneIssuersAreIssuers ==
  ASSUME NEW l \in Lane, NEW i \in Identity, NEW t \in IssuedAt
  PROVE  LET made == LaneIssuer(l, i, t)
         IN  /\ made \in
                  [policy : IssuerPolicy, identity : Identity,
                   metadata : [root : Root, key : STRING, epoch : Nat \ {0},
                               minimumEpoch : Nat \ {0},
                               configVersion : Nat \ {0}],
                   historical : SUBSET LaneRequests]
             /\ made.metadata.root = made.policy.root
             /\ made.metadata.minimumEpoch <= made.metadata.epoch
             /\ InkRequest(i, t) \in LaneRequests
             /\ LaneRequests \subseteq Request
<1>1. InkIssuerPolicy \in IssuerPolicy
  <2>1. /\ {INK_V0F_TAKER_ADDRESS} \in (SUBSET Taker) \ {{}}
        /\ {INK_V0F_VENUE_ID} \in (SUBSET Venue) \ {{}}
    BY PolicyConstantsAssumption
  <2>2. /\ INK_V0F_NETWORK_ID \in SUPPORTED_NETWORK_IDS
        /\ HUMAN_SIGNED_EXECUTION \in 0..HUMAN_SIGNED_EXECUTION
    BY DEF SUPPORTED_NETWORK_IDS, HUMAN_SIGNED_EXECUTION
  <2>3. /\ INK_V0F_MAX_GRANT_DURATION_S \in 1..MAX_GRANT_DURATION_S
        /\ INK_V0F_MAX_ENTRY_ATOMIC <= INK_V0F_MAX_ENTRY_ATOMIC
        /\ INK_V0F_MAX_GRANT_DURATION_S <= INK_V0F_MAX_GRANT_DURATION_S
    BY PolicyConstantsAssumption
  <2> QED
    BY <2>1, <2>2, <2>3, PolicyConstantsAssumption
       DEF InkIssuerPolicy, IssuerPolicy
<1>2. l \in Nat \ {0} /\ 1 <= l
  BY DEF Lane, EPOCH5, EPOCH6
<1>3. ASSUME NEW j \in Identity, NEW u \in IssuedAt
      PROVE  InkRequest(j, u) \in Request
  <2>1. GrantPreparation(j) \in Scope
    BY PolicyConstantsAssumption
       DEF GrantPreparation, Scope, AuthorityLevel, HUMAN_SIGNED_EXECUTION
  <2>2. u \in Nat /\ u + DURATION_S \in Nat /\ u < u + DURATION_S
    BY RootAssumption, PolicyConstantsAssumption
  <2> QED
    BY <2>1, <2>2, PolicyConstantsAssumption
       DEF InkRequest, BuildInkRequest, Request, GrantPreparation
<1>4. LaneRequests \subseteq Request
  BY <1>3 DEF LaneRequests
<1>5. InkRequest(i, t) \in LaneRequests
  BY DEF LaneRequests
<1>6. MetadataOf(l) \in [root : Root, key : STRING, epoch : Nat \ {0},
                          minimumEpoch : Nat \ {0}, configVersion : Nat \ {0}]
  BY <1>2, RootAssumption, PolicyConstantsAssumption DEF MetadataOf
<1> QED
  BY <1>1, <1>2, <1>4, <1>5, <1>6 DEF LaneIssuer, MetadataOf, InkIssuerPolicy

\* The row a lane's issuer adds.
LEMMA NewRowIs ==
  \A l, i, t : NewRow(l, i, t) =
    [rid |-> RequestIdOf(t), request |-> InkRequest(i, t),
     serial |-> SerialAfter(issuances[l]), metadata |-> MetadataOf(l)]
  BY DEF NewRow, RowAfter, LaneIssuer

\* issue() as the lanes use it: every request of theirs is an Ink request.
LEMMA IssuesInLane ==
  ASSUME NEW l, NEW i, NEW t, NEW g
  PROVE  Issues(l, i, t, g) <=>
           /\ Admissible(InkIssuerPolicy, i, InkRequest(i, t))
           /\ IF ExactRows(l, t) = {}
                THEN /\ \A h \in issuances[l] :
                          Permits(LaneIssuer(l, i, t), h, InkRequest(i, t))
                     /\ g = NewRow(l, i, t)
                ELSE /\ g \in ExactRows(l, t)
                     /\ g.request = InkRequest(i, t)
                     /\ Validates(LaneIssuer(l, i, t), g, FALSE)
<1>1. IsInk(InkRequest(i, t))
  BY DEF IsInk, InkRequest, BuildInkRequest, GrantPreparation
<1>2. /\ LaneIssuer(l, i, t).policy = InkIssuerPolicy
      /\ LaneIssuer(l, i, t).identity = i
  BY DEF LaneIssuer
<1> QED
  BY <1>1, <1>2 DEF Issues, IssuedFrom, ExactRows, NewRow

\* The issuer's serial is the next one, and the row it inserts has a request
\* id of its own, overlaps nothing and belongs to the lane.
LEMMA NewRowFits ==
  ASSUME Invariant, NEW l \in Lane, NEW i \in Identity, NEW t \in IssuedAt,
         Issues(l, i, t, NewRow(l, i, t)), ExactRows(l, t) = {}
  PROVE  LET g == NewRow(l, i, t)
         IN  /\ g \in Row /\ g \notin issuances[l]
             /\ g.serial = Cardinality(issuances[l]) + 1
             /\ Cardinality(issuances[l]) \in Nat
             /\ g.metadata = MetadataOf(l)
             /\ g.rid = RequestIdOf(t) /\ g.request = InkRequest(i, t)
             /\ g.request.issuedAt = t
             /\ \A h \in issuances[l] :
                  h.rid # g.rid /\ ~Overlap(h.request, g.request)
<1> DEFINE g == NewRow(l, i, t)
<1>1. HistoryOf(l) /\ issuances[l] \subseteq Row
  BY DEF Invariant, History, TypeOK
<1>2. Cardinality(issuances[l]) \in Nat /\ SerialAfter(issuances[l]) = Cardinality(issuances[l]) + 1
  BY <1>1, NextOfContiguous DEF HistoryOf, SerialAfter
<1>3. /\ g.rid = RequestIdOf(t) /\ g.request = InkRequest(i, t)
      /\ g.serial = SerialAfter(issuances[l]) /\ g.metadata = MetadataOf(l)
  BY NewRowIs
<1>4. g \in Row
  <2>1. InkRequest(i, t) \in LaneRequests
    BY LaneRequestFacts
  <2>2. SerialAfter(issuances[l]) \in Nat \ {0}
    BY <1>2
  <2> QED
    BY <2>1, <2>2, NewRowIs DEF Row
<1>5. g.request.issuedAt = t
  BY <1>3, LaneRequestFacts
<1>6. \A h \in issuances[l] : h.rid # g.rid
  BY <1>3 DEF ExactRows
<1>7. \A h \in issuances[l] : ~Overlap(h.request, g.request)
  <2> TAKE h \in issuances[l]
  <2>1. Permits(LaneIssuer(l, i, t), h, InkRequest(i, t))
    BY IssuesInLane
  <2>2. IsInk(h.request)
    BY <1>1, RowFacts
  <2> QED
    BY <1>3, <2>1, <2>2 DEF Permits
<1> QED
  BY <1>2, <1>3, <1>4, <1>5, <1>6, <1>7

\* What an issue does to its lane: the row it returns is one of the request id
\* and content asked for, and it was committed before or fits the history.
LEMMA IssueFacts ==
  ASSUME Invariant, NEW p \in Proc, Issue(p)
  PROVE  LET l == run[p].lane
             t == run[p].issuedAt
             i == run[p].identity
         IN  \E g \in Row :
               /\ g.rid = RequestIdOf(t) /\ g.request = InkRequest(i, t)
               /\ \/ g \in issuances[l]
                  \/ /\ ExactRows(l, t) = {}
                     /\ g = NewRow(l, i, t)
                     /\ Issues(l, i, t, NewRow(l, i, t))
               /\ issuances' = [issuances EXCEPT ![l] = @ \cup {g}]
               /\ run' = [run EXCEPT ![p].pc = "verify", ![p].row = g]
<1> DEFINE l == run[p].lane
           t == run[p].issuedAt
           i == run[p].identity
<1>0. TypeOK /\ l \in Lane /\ t \in IssuedAt /\ i \in Identity
  BY DEF Invariant, Knowledge, Knows, Issue
<1>1. PICK g \in Candidates(l, i, t) :
        /\ Issues(l, i, t, g)
        /\ issuances' = [issuances EXCEPT ![l] = @ \cup {g}]
        /\ run' = [run EXCEPT ![p].pc = "verify", ![p].row = g]
  BY DEF Issue
<1>2. CASE ExactRows(l, t) = {}
  <2>1. g = NewRow(l, i, t)
    BY <1>1, <1>2, IssuesInLane
  <2>2. g \in Row /\ g.rid = RequestIdOf(t) /\ g.request = InkRequest(i, t)
    BY <1>0, <1>1, <1>2, <2>1, NewRowFits
  <2> QED
    BY <1>1, <1>2, <2>1, <2>2
<1>3. CASE ExactRows(l, t) # {}
  <2>1. g \in ExactRows(l, t) /\ g.request = InkRequest(i, t)
    BY <1>1, <1>3, IssuesInLane
  <2>2. g \in Row /\ g \in issuances[l] /\ g.rid = RequestIdOf(t)
    BY <1>0, <2>1 DEF ExactRows, TypeOK
  <2> QED
    BY <1>1, <2>1, <2>2
<1> QED
  BY <1>2, <1>3

\* A row that fits keeps what the rows of its lane have in common.
LEMMA AddingKeepsHistory ==
  ASSUME Invariant, NEW l \in Lane, NEW i \in Identity, NEW t \in IssuedAt,
         Issues(l, i, t, NewRow(l, i, t)), ExactRows(l, t) = {},
         database[l] = "ready", database' = database,
         issuances' = [issuances EXCEPT ![l] = @ \cup {NewRow(l, i, t)}]
  PROVE  History'
<1> DEFINE g == NewRow(l, i, t)
           n == Cardinality(issuances[l])
<1>1. /\ g \in Row /\ g \notin issuances[l]
      /\ g.serial = n + 1 /\ n \in Nat
      /\ g.metadata = MetadataOf(l) /\ g.rid = RequestIdOf(t)
      /\ g.request.issuedAt = t
      /\ \A h \in issuances[l] : h.rid # g.rid /\ ~Overlap(h.request, g.request)
  BY NewRowFits
<1> HIDE DEF g
<1>2. HistoryOf(l) /\ issuances \in [Lane -> SUBSET Row]
  BY DEF Invariant, History, TypeOK
<1>3. /\ issuances'[l] = issuances[l] \cup {g}
      /\ \A m \in Lane \ {l} : issuances'[m] = issuances[m]
  BY <1>2 DEF g
<1>4. IsFiniteSet(issuances'[l]) /\ Cardinality(issuances'[l]) = n + 1
  BY <1>1, <1>2, <1>3, FS_AddElement DEF HistoryOf
<1>5. {h.serial : h \in issuances'[l]} = 1..(n + 1)
  <2>1. {h.serial : h \in issuances'[l]} = {h.serial : h \in issuances[l]} \cup {n + 1}
    BY <1>1, <1>3
  <2> QED
    BY <1>1, <1>2, <2>1 DEF HistoryOf
<1>6. \A h, k \in issuances'[l] : h # k => ~Overlap(h.request, k.request)
  BY <1>1, <1>2, <1>3, OverlapSymmetric DEF HistoryOf
<1>7. HistoryOf(l)'
  BY <1>1, <1>2, <1>3, <1>4, <1>5, <1>6 DEF HistoryOf
<1>8. ASSUME NEW m \in Lane, m # l
      PROVE  HistoryOf(m)'
  BY <1>3, <1>8 DEF Invariant, History, HistoryOf
<1> QED
  BY <1>7, <1>8 DEF History

\* The commit: what the lane's rows have in common, and what the run now knows.
LEMMA IssueKeeps ==
  ASSUME Invariant, NEW p \in Proc, Issue(p)
  PROVE  Invariant'
<1> DEFINE l == run[p].lane
           t == run[p].issuedAt
           i == run[p].identity
<1>0. /\ TypeOK /\ Knows(p) /\ run[p].pc = "issue" /\ database[l] = "ready"
      /\ l \in Lane /\ t \in IssuedAt /\ i \in Identity
  BY DEF Invariant, Knowledge, Knows, Issue
<1>1. PICK g \in Row :
        /\ g.rid = RequestIdOf(t) /\ g.request = InkRequest(i, t)
        /\ \/ g \in issuances[l]
           \/ /\ ExactRows(l, t) = {}
              /\ g = NewRow(l, i, t)
              /\ Issues(l, i, t, NewRow(l, i, t))
        /\ issuances' = [issuances EXCEPT ![l] = @ \cup {g}]
        /\ run' = [run EXCEPT ![p].pc = "verify", ![p].row = g]
  BY IssueFacts
<1>2. OthersUntouched(p) /\ UNCHANGED <<binding, database, file, tmp, reported>>
  BY <1>0, <1>1 DEF TypeOK, Issue, OthersUntouched
<1>3. TypeOK'
  <2>1. [run[p] EXCEPT !.pc = "verify", !.row = g] \in Run
    BY <1>0 DEF TypeOK, Run, Steps
  <2>2. run' \in [Proc -> Run]
    BY <1>0, <1>1, <2>1 DEF TypeOK
  <2>3. issuances' \in [Lane -> SUBSET Row]
    BY <1>0, <1>1 DEF TypeOK
  <2> QED
    BY <1>0, <1>2, <2>2, <2>3 DEF TypeOK
<1>4. RootGrows
  BY <1>0, <1>1, <1>2 DEF TypeOK, RootGrows
<1>5. History'
  <2>1. CASE g \in issuances[l]
    <3>1. issuances' = issuances
      BY <1>0, <1>1, <2>1 DEF TypeOK
    <3> QED
      BY <1>2, <3>1 DEF Invariant, History, HistoryOf
  <2>2. CASE g \notin issuances[l]
    BY <1>0, <1>1, <1>2, <2>2, AddingKeepsHistory
  <2> QED
    BY <2>1, <2>2
<1>6. Published' /\ Entries'
  BY <1>0, <1>2, <1>4, EntriesStay DEF Invariant, Published, RootGrows
<1>7. Reports'
  BY <1>2, <1>4 DEF Invariant, Reports, RootGrows, FilesOf
<1>8. Knows(p)'
  <2>1. g \in ExactRows(l, t)'
    BY <1>0, <1>1 DEF TypeOK, ExactRows
  <2>2. ExactRows(l, t) \subseteq ExactRows(l, t)'
    BY <1>0, <1>1 DEF TypeOK, Run, ExactRows
  <2>3. run'[p] = [run[p] EXCEPT !.pc = "verify", !.row = g]
    BY <1>0, <1>1 DEF TypeOK
  <2>4. /\ run'[p].pc = "verify" /\ run'[p].row = g /\ run'[p].lane = l
        /\ run'[p].issuedAt = t /\ run'[p].identity = i
        /\ run'[p].before = run[p].before /\ run'[p].next = run[p].next
    BY <1>0, <2>3 DEF TypeOK, Run
  <2> QED
    BY <1>0, <1>1, <2>1, <2>2, <2>4 DEF Knows, Exporting, Writing
<1> QED
  BY <1>2, <1>3, <1>4, <1>5, <1>6, <1>7, <1>8, OwnStep

\* What a run that exports may rely on.
LEMMA ExportFacts ==
  ASSUME Invariant, NEW p \in Proc, run[p].pc \in {"verify"} \cup Exporting
  PROVE  LET l == run[p].lane
             t == run[p].issuedAt
         IN  /\ l \in Lane /\ t \in IssuedAt
             /\ run[p].row \in issuances[l] /\ run[p].row \in Row
             /\ run[p].row # None
             /\ run[p].row.rid = RequestIdOf(t)
             /\ run[p].row.request.issuedAt = t
             /\ run[p].row.metadata = MetadataOf(l)
             /\ run[p] \in Run
             /\ run[p].next \in Nat
             /\ run[p].next \in Exports => NextFile(p) \in File
<1> DEFINE l == run[p].lane
           t == run[p].issuedAt
<1>1. /\ l \in Lane /\ t \in IssuedAt /\ run[p].identity \in Identity
      /\ run[p].row \in ExactRows(l, t)
      /\ run[p].row.request = InkRequest(run[p].identity, t)
  BY DEF Invariant, Knowledge, Knows, Exporting, Writing
<1>2. run[p].row \in issuances[l] /\ run[p].row.rid = RequestIdOf(t)
  BY <1>1 DEF ExactRows
<1>3. run[p].row \in Row /\ run[p] \in Run
  BY <1>1, <1>2 DEF Invariant, TypeOK
<1>4. run[p].next \in Nat
  BY <1>3, RootAssumption DEF Run
<1>5. run[p].next \in Exports => NextFile(p) \in File
  BY <1>1, FileNames DEF NextFile
<1>6. run[p].row.metadata = MetadataOf(l)
  BY <1>1, <1>2 DEF Invariant, History, HistoryOf
<1>7. run[p].row # None
  BY <1>3, RootAssumption
<1>8. run[p].row.request.issuedAt = t
  BY <1>1, LaneRequestFacts
<1> QED
  BY <1>1, <1>2, <1>3, <1>4, <1>5, <1>6, <1>7, <1>8

\* Nothing has been written yet when the exports begin.
LEMMA VerifyKeeps ==
  ASSUME Invariant, NEW p \in Proc, Verify(p)
  PROVE  Invariant'
<1>0. TypeOK /\ Knows(p) /\ run[p] \in Run /\ run[p].pc = "verify"
  BY DEF Invariant, Knowledge, TypeOK, Verify
<1>1. OthersUntouched(p) /\ UNCHANGED <<binding, database, issuances, file, tmp, reported>>
  BY <1>0 DEF TypeOK, Verify, root, OthersUntouched
<1>2. run'[p] = [run[p] EXCEPT !.pc = "export", !.before = None]
  BY <1>0 DEF TypeOK, Verify
<1>3. TypeOK'
  <2>1. [run[p] EXCEPT !.pc = "export", !.before = None] \in Run
    BY <1>0 DEF Run, Steps
  <2>2. run' \in [Proc -> Run]
    BY <1>0, <2>1 DEF TypeOK, Verify
  <2> QED
    BY <1>0, <1>1, <2>2 DEF TypeOK
<1>4. Knows(p)'
  BY <1>0, <1>1, <1>2 DEF Run, Knows, Exporting, Writing, ExactRows, Exports
<1> QED
  BY <1>0, <1>1, <1>3, <1>4, QuietStep

\* A file found in place or published: the run goes on to the next.
LEMMA NextExportKeeps ==
  ASSUME Invariant, NEW p \in Proc, ExportIsThere(p) \/ SetMode(p)
  PROVE  Invariant'
<1> DEFINE l == run[p].lane
           t == run[p].issuedAt
<1>0. /\ TypeOK /\ Knows(p) /\ run[p] \in Run /\ run[p].pc \in {"export", "chmod"}
      /\ run[p].next \in Exports /\ run[p].row # None /\ run[p].next \in Nat
  BY ExportFacts DEF Invariant, Knowledge, Knows, TypeOK, ExportIsThere, SetMode,
                     Exporting, Writing
<1>1. OthersUntouched(p) /\ UNCHANGED <<binding, database, issuances, file, tmp, reported>>
  BY <1>0 DEF TypeOK, ExportIsThere, SetMode, root, OthersUntouched
<1>2. /\ run'[p] = [run[p] EXCEPT !.pc = "export", !.next = run[p].next + 1]
      /\ run' = [run EXCEPT ![p] = run'[p]]
  <2>1. CASE SetMode(p)
    BY <1>0, <2>1 DEF TypeOK, SetMode
  <2>2. CASE ExportIsThere(p)
    <3>1. run' = [run EXCEPT ![p] = [run[p] EXCEPT !.next = run[p].next + 1]]
      BY <1>0, <2>2 DEF TypeOK, ExportIsThere
    <3>2. [run[p] EXCEPT !.next = run[p].next + 1]
            = [run[p] EXCEPT !.pc = "export", !.next = run[p].next + 1]
      BY <1>0, <2>2 DEF Run, ExportIsThere
    <3> QED
      BY <1>0, <3>1, <3>2 DEF TypeOK
  <2> QED
    BY <2>1, <2>2
<1>3. TypeOK'
  <2>1. run[p].next + 1 \in 1..LastExport + 1
    BY <1>0, RootAssumption DEF Exports
  <2>2. run'[p] \in Run
    BY <1>0, <1>2, <2>1 DEF Run, Steps
  <2>3. run' \in [Proc -> Run]
    BY <1>0, <1>2, <2>2 DEF TypeOK
  <2> QED
    BY <1>0, <1>1, <2>3 DEF TypeOK
<1>4. \A k \in Exports :
        k < run[p].next + 1 => file[<<l, Stem(l, t), k>>] # None
  <2>1. file[<<l, Stem(l, t), run[p].next>>] # None
    BY <1>0 DEF ExportIsThere, SetMode, NextFile, Knows
  <2>2. \A k \in Exports : k < run[p].next => file[<<l, Stem(l, t), k>>] # None
    BY <1>0 DEF Knows, Exporting, Writing
  <2>3. \A k \in Exports : k < run[p].next + 1 => k < run[p].next \/ k = run[p].next
    BY <1>0 DEF Exports
  <2> QED
    BY <2>1, <2>2, <2>3
<1>5. Knows(p)'
  BY <1>0, <1>1, <1>2, <1>4 DEF Run, Knows, Exporting, Writing, ExactRows
<1> QED
  BY <1>0, <1>1, <1>3, <1>5, QuietStep

\* A file is missing: the run is about to write it.
LEMMA ExportIsMissingKeeps ==
  ASSUME Invariant, NEW p \in Proc, ExportIsMissing(p)
  PROVE  Invariant'
<1>0. TypeOK /\ Knows(p) /\ run[p] \in Run /\ run[p].pc = "export"
  BY DEF Invariant, Knowledge, TypeOK, ExportIsMissing
<1>1. OthersUntouched(p) /\ UNCHANGED <<binding, database, issuances, file, tmp, reported>>
  BY <1>0 DEF TypeOK, ExportIsMissing, Goto, root, OthersUntouched
<1>2. run'[p] = [run[p] EXCEPT !.pc = "create"] /\ run[p].next \in Exports
  BY <1>0 DEF TypeOK, ExportIsMissing, Goto
<1>3. TypeOK'
  <2>1. [run[p] EXCEPT !.pc = "create"] \in Run
    BY <1>0 DEF Run, Steps
  <2>2. run' \in [Proc -> Run]
    BY <1>0, <2>1 DEF TypeOK, ExportIsMissing, Goto
  <2> QED
    BY <1>0, <1>1, <2>2 DEF TypeOK
<1>4. Knows(p)'
  BY <1>0, <1>1, <1>2 DEF Run, Knows, Exporting, Writing, ExactRows
<1> QED
  BY <1>0, <1>1, <1>3, <1>4, QuietStep

\* What a run that is writing a file may rely on.
LEMMA WritingFacts ==
  ASSUME Invariant, NEW p \in Proc, run[p].pc \in Writing
  PROVE  LET l == run[p].lane
             t == run[p].issuedAt
         IN  /\ TypeOK /\ Knows(p) /\ run[p] \in Run /\ l \in Lane /\ t \in IssuedAt
             /\ run[p].next \in Exports /\ run[p].next \in Nat
             /\ NextFile(p) \in File
             /\ NextFile(p) = <<l, Stem(l, t), run[p].next>>
             /\ NextFile(p)[1] = l /\ NextFile(p)[2] = Stem(l, t)
             /\ NextFile(p)[3] = run[p].next
             /\ run[p].row \in Row /\ run[p].row # None
             /\ Holds(NextFile(p), run[p].row)
<1> DEFINE l == run[p].lane
           t == run[p].issuedAt
           f == NextFile(p)
<1>1. TypeOK /\ Knows(p) /\ run[p].next \in Exports
  BY DEF Invariant, Knowledge, Knows, Writing
<1>2. /\ l \in Lane /\ t \in IssuedAt /\ run[p] \in Run /\ run[p].next \in Nat
      /\ run[p].row \in issuances[l] /\ run[p].row \in Row /\ run[p].row # None
      /\ run[p].row.request.issuedAt = t /\ f \in File
  BY <1>1, ExportFacts DEF Exporting, Writing
<1>3. f = <<l, Stem(l, t), run[p].next>> /\ f[1] = l /\ f[2] = Stem(l, t)
      /\ f[3] = run[p].next
  BY DEF NextFile
<1>4. Stem(EPOCH6, t) = t
  BY DEF Stem, EPOCH5, EPOCH6
<1>5. Holds(f, run[p].row)
  BY <1>2, <1>3, <1>4 DEF Holds
<1> QED
  BY <1>1, <1>2, <1>3, <1>5

\* A run's place is none of the contents a file can have once it is closed.
LEMMA ProcFacts ==
  ASSUME NEW p \in Proc
  PROVE  p # None /\ p # Torn /\ p \notin Row /\ p \in Content
  BY RootAssumption DEF Content

\* Closing the file a run has open changes no name but that of the file it is
\* writing, and makes no entry disappear.
LEMMA SettleFacts ==
  ASSUME Invariant, NEW p \in Proc, NEW c \in Content, c # None,
         NEW entries \in {tmp, file}
  PROVE  LET settled == Settle(entries, p, c)
         IN  /\ settled \in [File -> Content]
             /\ \A f \in File :
                  /\ settled[f] \in {entries[f], c}
                  /\ entries[f] = p => settled[f] = c
                  /\ settled[f] = None <=> entries[f] = None
                  /\ settled[f] # entries[f] =>
                       run[p].pc = "write" /\ NextFile(p) = f
<1>1. entries \in [File -> Content]
  BY DEF Invariant, TypeOK
<1>2. \A f \in File : Settle(entries, p, c)[f] = IF entries[f] = p THEN c ELSE entries[f]
  BY DEF Settle
<1>3. Settle(entries, p, c) \in [File -> Content]
  BY <1>1 DEF Settle
<1>4. \A f \in File : entries[f] = p => run[p].pc = "write" /\ NextFile(p) = f
  BY DEF Invariant, Entries
<1> QED
  BY <1>2, <1>3, <1>4, ProcFacts

\* A step of a run that leaves rows and reports alone and moves files: the
\* names that change get good contents, and no one else's open file.
LEMMA FileStep ==
  ASSUME Invariant, NEW p \in Proc, OthersUntouched(p),
         UNCHANGED <<database, issuances, reported>>, TypeOK', Knows(p)',
         \A f \in File : file[f] # None => file'[f] # None,
         \A f \in File : file[f] = None /\ file'[f] # None =>
            \A k \in 1..f[3] : file'[<<f[1], f[2], k>>] # None,
         \A f \in File : Holds(f, tmp'[f]) /\ Holds(f, file'[f]),
         \A f \in File : \A q \in Proc \ {p} :
            q \in {tmp'[f], file'[f]} => q \in {tmp[f], file[f]},
         \A f \in File : p \in {tmp'[f], file'[f]} =>
            run'[p].pc = "write" /\ NextFile(p)' = f
  PROVE  Invariant'
<1>1. RootGrows /\ History'
  BY DEF RootGrows, Invariant, History, HistoryOf
<1>2. Published'
  <2> SUFFICES ASSUME NEW f \in File, file'[f] # None, NEW k \in 1..f[3]
               PROVE  file'[<<f[1], f[2], k>>] # None
    BY DEF Published
  <2>1. <<f[1], f[2], k>> \in File
    BY FileNames
  <2> QED
    BY <2>1 DEF Invariant, Published
<1>3. Reports'
  BY <1>1 DEF Invariant, Reports, RootGrows, FilesOf
<1>4. Entries'
  <2>1. ASSUME NEW f \in File, NEW q \in Proc \ {p}, q \in {tmp'[f], file'[f]}
        PROVE  run'[q].pc = "write" /\ NextFile(q)' = f
    <3>1. run[q].pc = "write" /\ NextFile(q) = f
      BY <2>1 DEF Invariant, Entries
    <3>2. run'[q] = run[q]
      BY DEF OthersUntouched
    <3> QED
      BY <3>1, <3>2 DEF NextFile
  <2>2. \A f \in File : Holds(f, tmp[f])' /\ Holds(f, file[f])'
    BY DEF Holds
  <2> QED
    BY <2>1, <2>2 DEF Entries
<1> QED
  BY <1>1, <1>2, <1>3, <1>4, OwnStep

\* The temporary file of a run is its own, and empty.
LEMMA CreateTemporaryKeeps ==
  ASSUME Invariant, NEW p \in Proc, CreateTemporary(p)
  PROVE  Invariant'
<1> DEFINE f == NextFile(p)
<1>0. /\ TypeOK /\ Knows(p) /\ run[p] \in Run /\ run[p].pc = "create"
      /\ f \in File /\ run[p].next \in Exports
  BY WritingFacts DEF CreateTemporary, Writing
<1>1. OthersUntouched(p) /\ UNCHANGED <<binding, database, issuances, file, reported>>
  BY <1>0 DEF TypeOK, CreateTemporary, Goto, OthersUntouched
<1>2. run'[p] = [run[p] EXCEPT !.pc = "write"]
  BY <1>0 DEF TypeOK, CreateTemporary, Goto
<1>3. tmp'[f] = p /\ \A e \in File \ {f} : tmp'[e] = tmp[e]
  BY <1>0 DEF TypeOK, CreateTemporary
<1>4. TypeOK'
  <2>1. [run[p] EXCEPT !.pc = "write"] \in Run
    BY <1>0 DEF Run, Steps
  <2>2. run' \in [Proc -> Run]
    BY <1>0, <2>1 DEF TypeOK, CreateTemporary, Goto
  <2>3. tmp' \in [File -> Content]
    BY <1>0, ProcFacts DEF TypeOK, CreateTemporary
  <2> QED
    BY <1>0, <1>1, <2>2, <2>3 DEF TypeOK
<1>5. Knows(p)'
  BY <1>0, <1>1, <1>2 DEF Run, Knows, Exporting, Writing, ExactRows
<1>6. run'[p].pc = "write" /\ NextFile(p)' = f
  BY <1>0, <1>2 DEF Run, NextFile
<1>7. \A e \in File : p \notin {tmp[e], file[e]}
  BY <1>0 DEF Invariant, Entries
<1>8. \A e \in File : Holds(e, tmp'[e]) /\ Holds(e, file'[e])
  BY <1>1, <1>3, ProcFacts DEF Invariant, Entries, Holds
<1> QED
  BY <1>1, <1>3, <1>4, <1>5, <1>6, <1>7, <1>8, FileStep

\* A run fills the file it has open.
LEMMA WriteTemporaryKeeps ==
  ASSUME Invariant, NEW p \in Proc, WriteTemporary(p)
  PROVE  Invariant'
<1> DEFINE g == run[p].row
<1>0. /\ TypeOK /\ Knows(p) /\ run[p] \in Run /\ run[p].pc = "write"
      /\ run[p].next \in Exports /\ g \in Row /\ g # None
      /\ Holds(NextFile(p), g) /\ g \in Content
  BY WritingFacts DEF WriteTemporary, Writing, Content
<1>1. /\ OthersUntouched(p) /\ UNCHANGED <<binding, database, issuances, reported>>
      /\ tmp' = Settle(tmp, p, g) /\ file' = Settle(file, p, g)
  BY <1>0 DEF TypeOK, WriteTemporary, Goto, OthersUntouched
<1>2. run'[p] = [run[p] EXCEPT !.pc = "replace"]
  BY <1>0 DEF TypeOK, WriteTemporary, Goto
<1>3. /\ tmp' \in [File -> Content] /\ file' \in [File -> Content]
      /\ \A e \in File : file'[e] = None <=> file[e] = None
      /\ \A e \in File :
           /\ tmp'[e] = tmp[e] \/ (NextFile(p) = e /\ tmp'[e] = g)
           /\ file'[e] = file[e] \/ (NextFile(p) = e /\ file'[e] = g)
           /\ p \notin {tmp'[e], file'[e]}
  BY <1>0, <1>1, SettleFacts, ProcFacts
<1>4. TypeOK'
  <2>1. [run[p] EXCEPT !.pc = "replace"] \in Run
    BY <1>0 DEF Run, Steps
  <2>2. run' \in [Proc -> Run]
    BY <1>0, <2>1 DEF TypeOK, WriteTemporary, Goto
  <2> QED
    BY <1>0, <1>1, <1>3, <2>2 DEF TypeOK
<1>5. Knows(p)'
  <2>1. \A k \in Exports : <<run[p].lane, Stem(run[p].lane, run[p].issuedAt), k>> \in File
    BY <1>0, FileNames DEF Knows
  <2> QED
    BY <1>0, <1>1, <1>2, <1>3, <2>1 DEF Run, Knows, Exporting, Writing, ExactRows
<1>6. \A e \in File : Holds(e, tmp'[e]) /\ Holds(e, file'[e])
  BY <1>0, <1>3 DEF Invariant, Entries
<1>7. \A e \in File : \A q \in Proc \ {p} :
        q \in {tmp'[e], file'[e]} => q \in {tmp[e], file[e]}
  BY <1>0, <1>3, ProcFacts
<1> QED
  BY <1>1, <1>3, <1>4, <1>5, <1>6, <1>7, FileStep

\* The file published is the one after the files that are there.
LEMMA PublishKeeps ==
  ASSUME Invariant, NEW p \in Proc, Publish(p)
  PROVE  Invariant'
<1> DEFINE l == run[p].lane
           t == run[p].issuedAt
           f == NextFile(p)
<1>0. /\ TypeOK /\ Knows(p) /\ run[p] \in Run /\ run[p].pc = "replace"
      /\ l \in Lane /\ t \in IssuedAt /\ run[p].next \in Exports
      /\ run[p].next \in Nat /\ f \in File
      /\ f = <<l, Stem(l, t), run[p].next>>
      /\ f[1] = l /\ f[2] = Stem(l, t) /\ f[3] = run[p].next
  BY WritingFacts DEF Publish, Writing
<1>1. OthersUntouched(p) /\ UNCHANGED <<binding, database, issuances, reported>>
  BY <1>0 DEF TypeOK, Publish, Goto, OthersUntouched
<1>2. run'[p] = [run[p] EXCEPT !.pc = "chmod"]
  BY <1>0 DEF TypeOK, Publish, Goto
<1>3. /\ file'[f] = tmp[f] /\ tmp'[f] = None /\ tmp[f] # None
      /\ \A e \in File \ {f} : file'[e] = file[e] /\ tmp'[e] = tmp[e]
  BY <1>0 DEF TypeOK, Publish
<1>4. TypeOK'
  <2>1. [run[p] EXCEPT !.pc = "chmod"] \in Run
    BY <1>0 DEF Run, Steps
  <2>2. run' \in [Proc -> Run]
    BY <1>0, <2>1 DEF TypeOK, Publish, Goto
  <2>3. file' \in [File -> Content] /\ tmp' \in [File -> Content]
    BY <1>0 DEF TypeOK, Publish, Content
  <2> QED
    BY <1>0, <1>1, <2>2, <2>3 DEF TypeOK
<1>5. \A e \in File : file[e] # None => file'[e] # None
  BY <1>3
<1>6. \A k \in Exports :
        k < run[p].next \/ k = run[p].next => file'[<<l, Stem(l, t), k>>] # None
  <2>1. \A k \in Exports : k < run[p].next => file[<<l, Stem(l, t), k>>] # None
    BY <1>0 DEF Knows, Exporting, Writing
  <2>2. \A k \in Exports : <<l, Stem(l, t), k>> \in File
    BY <1>0, FileNames
  <2> QED
    BY <1>0, <1>3, <1>5, <2>1, <2>2
<1>7. \A e \in File : file[e] = None /\ file'[e] # None =>
        \A k \in 1..e[3] : file'[<<e[1], e[2], k>>] # None
  <2> SUFFICES ASSUME NEW k \in 1..f[3]
               PROVE  file'[<<f[1], f[2], k>>] # None
    BY <1>3
  <2>1. k \in Exports /\ (k < run[p].next \/ k = run[p].next)
    BY <1>0, FileNames
  <2> QED
    BY <1>0, <1>6, <2>1
<1>8. Knows(p)'
  <2>1. /\ run'[p].pc = "chmod" /\ run'[p].next = run[p].next /\ run'[p].lane = l
        /\ run'[p].issuedAt = t /\ run'[p].identity = run[p].identity
        /\ run'[p].before = run[p].before /\ run'[p].row = run[p].row
    BY <1>0, <1>2 DEF Run
  <2> QED
    BY <1>0, <1>1, <1>6, <2>1 DEF Knows, Exporting, Writing, ExactRows
<1>9. \A e \in File : p \notin {tmp[e], file[e]}
  BY <1>0 DEF Invariant, Entries
<1>10. \A e \in File : Holds(e, tmp'[e]) /\ Holds(e, file'[e])
  BY <1>3, RootAssumption DEF Invariant, Entries, Holds
<1>11. \A e \in File : /\ tmp'[e] = None \/ tmp'[e] = tmp[e]
                       /\ file'[e] \in {tmp[e], file[e]}
  BY <1>3
<1>12. \A e \in File : \A q \in Proc :
         q \in {tmp'[e], file'[e]} => q \in {tmp[e], file[e]}
  BY <1>11, ProcFacts
<1> QED
  BY <1>1, <1>4, <1>5, <1>7, <1>8, <1>9, <1>10, <1>11, <1>12, ProcFacts, FileStep

\* A run that fails in its write, or is killed, leaves what it has open torn; the
\* clean-up removes a temporary file, and no export.
LEMMA StopKeeps ==
  ASSUME Invariant, NEW p \in Proc, WriteFails(p) \/ Crash(p)
  PROVE  Invariant'
<1> DEFINE f == NextFile(p)
<1>0. TypeOK /\ Torn \in Content /\ Torn # None /\ Torn \notin Row
  BY RootAssumption DEF Invariant, Content
<1>1. /\ OthersUntouched(p) /\ UNCHANGED <<binding, database, issuances, reported>>
      /\ run' = [run EXCEPT ![p] = Idle] /\ run'[p] = Idle
      /\ file' = Settle(file, p, Torn)
      /\ \/ tmp' = Settle(tmp, p, Torn)
         \/ tmp' = [Settle(tmp, p, Torn) EXCEPT ![f] = None]
  BY <1>0 DEF TypeOK, WriteFails, CleanUp, Crash, OthersUntouched
<1>2. /\ tmp' \in [File -> Content] /\ file' \in [File -> Content]
      /\ \A e \in File : file'[e] = None <=> file[e] = None
      /\ \A e \in File : /\ tmp'[e] \in {tmp[e], Torn, None}
                         /\ file'[e] \in {file[e], Torn}
                         /\ p \notin {tmp'[e], file'[e]}
  <2>1. None \in Content
    BY DEF Content
  <2>2. /\ Settle(tmp, p, Torn) \in [File -> Content]
        /\ \A e \in File : /\ Settle(tmp, p, Torn)[e] \in {tmp[e], Torn}
                           /\ Settle(tmp, p, Torn)[e] # p
    BY <1>0, SettleFacts, ProcFacts
  <2>3. /\ tmp' \in [File -> Content]
        /\ \A e \in File : tmp'[e] \in {tmp[e], Torn, None} /\ tmp'[e] # p
    BY <1>1, <2>1, <2>2, ProcFacts
  <2>4. /\ file' \in [File -> Content]
        /\ \A e \in File : /\ file'[e] = None <=> file[e] = None
                           /\ file'[e] \in {file[e], Torn} /\ file'[e] # p
    BY <1>0, <1>1, SettleFacts, ProcFacts
  <2> QED
    BY <2>3, <2>4
<1>3. TypeOK'
  BY <1>0, <1>1, <1>2, IdleRun DEF TypeOK
<1>4. Knows(p)'
  BY <1>1 DEF Knows, Idle
<1>5. \A e \in File : Holds(e, tmp'[e]) /\ Holds(e, file'[e])
  BY <1>0, <1>2, RootAssumption DEF Invariant, Entries, Holds
<1>6. \A e \in File : \A q \in Proc :
        q \in {tmp'[e], file'[e]} => q \in {tmp[e], file[e]}
  BY <1>2, ProcFacts
<1> QED
  BY <1>1, <1>2, <1>3, <1>4, <1>5, <1>6, FileStep

\* All files are there when a run reports.
LEMMA ReportKeeps ==
  ASSUME Invariant, NEW p \in Proc, Report(p)
  PROVE  Invariant'
<1> DEFINE l == run[p].lane
           t == run[p].issuedAt
           g == run[p].row
<1>0. /\ TypeOK /\ Knows(p) /\ run[p].pc = "export"
      /\ l \in Lane /\ t \in IssuedAt
      /\ g \in issuances[l] /\ g \in Row /\ g.request.issuedAt = t
      /\ g.metadata = MetadataOf(l)
  BY ExportFacts DEF Invariant, Knowledge, Report, Exporting, Writing
<1>1. OthersUntouched(p) /\ UNCHANGED <<binding, database, issuances, file, tmp>>
  BY <1>0 DEF TypeOK, Report, root, OthersUntouched
<1>2. TypeOK'
  BY <1>0, <1>1, IdleRun DEF TypeOK, Report
<1>3. RootGrows /\ History' /\ Published' /\ Entries'
  BY <1>0, <1>1, EntriesStay DEF RootGrows, Invariant, History, HistoryOf, Published
<1>4. g.metadata.epoch = l
  BY <1>0 DEF MetadataOf
<1>5. ASSUME NEW f \in FilesOf(g)
      PROVE  file[f] # None
  <2>1. f \in File /\ f[1] = l /\ f[2] = Stem(l, t)
    BY <1>0, <1>4, <1>5 DEF FilesOf
  <2>2. f[3] \in Exports /\ f = <<l, Stem(l, t), f[3]>>
    BY <2>1, FileNames
  <2>3. f[3] < run[p].next
    BY <2>2, RootAssumption DEF Exports, Report
  <2> QED
    BY <1>0, <2>2, <2>3 DEF Knows, Exporting, Writing
<1>6. Reports'
  <2>1. reported' = reported \cup {g}
    BY DEF Report
  <2>2. ASSUME NEW h \in reported'
        PROVE  /\ h.metadata.epoch \in Lane
               /\ h \in issuances[h.metadata.epoch]
               /\ \A f \in FilesOf(h) : file[f] # None
    BY <1>0, <1>4, <1>5, <2>1 DEF Invariant, Reports
  <2> QED
    BY <1>1, <2>2 DEF Reports, FilesOf
<1>7. Knows(p)'
  BY <1>0 DEF TypeOK, Report, Knows, Idle
<1> QED
  BY <1>1, <1>2, <1>3, <1>6, <1>7, OwnStep

-----------------------------------------------------------------------------
(* The invariant                                                           *)

\* The root before the first run satisfies the invariant.
LEMMA InitInvariant == Init => Invariant
<1> SUFFICES ASSUME Init
             PROVE  Invariant
  OBVIOUS
<1>1. TypeOK
  BY IdleRun DEF Init, TypeOK, Content
<1>2. Knowledge
  BY DEF Init, Knowledge, Knows, Idle
<1>3. History
  <2>1. IsFiniteSet({}) /\ Cardinality({}) = 0
    BY FS_EmptySet
  <2>2. ASSUME NEW l \in Lane
        PROVE  HistoryOf(l)
    <3>1. issuances[l] = {}
      BY DEF Init
    <3>2. {g.serial : g \in issuances[l]} = 1..Cardinality(issuances[l])
      BY <2>1, <3>1
    <3> QED
      BY <2>1, <3>1, <3>2 DEF HistoryOf
  <2> QED
    BY <2>2 DEF History
<1>4. Published /\ Entries /\ Reports
  BY RootAssumption DEF Init, Published, Entries, Holds, Reports
<1> QED
  BY <1>1, <1>2, <1>3, <1>4 DEF Invariant

\* Every step keeps it: one case per action.
LEMMA NextInvariant == Invariant /\ [Next]_vars => Invariant'
<1> SUFFICES ASSUME Invariant, [Next]_vars
             PROVE  Invariant'
  OBVIOUS
<1>1. CASE UNCHANGED vars
  <2>1. UNCHANGED <<binding, database, issuances, file, tmp, reported, run>>
    BY <1>1 DEF vars, root
  <2>2. TypeOK' /\ Knowledge' /\ Entries'
    BY <2>1 DEF Invariant, TypeOK, Knowledge, Knows, ExactRows, Entries, Holds, NextFile
  <2> QED
    BY <2>1, <2>2, RootStays DEF Invariant
<1>2. CASE Rebind
  BY <1>2, RebindKeeps
<1>3. ASSUME NEW p \in Proc, NEW l \in Lane, NEW t \in IssuedAt, Start(p, l, t)
      PROVE  Invariant'
  BY <1>3, StartKeeps
<1>4. ASSUME NEW p \in Proc, Step(p)
      PROVE  Invariant'
  <2>1. CASE Refuses(p)
    <3>1. Refuse(p) /\ run[p].pc # "write"
      BY <2>1 DEF Refuses, InspectHistoryRefuses, PreflightRefuses,
                  IssueRefuses, ExportConflicts, CreateTemporaryFails
    <3> QED
      BY <3>1, RefuseKeeps
  <2>2. CASE ~Refuses(p)
    BY <1>4, <2>2, InspectHistoryKeeps, PreflightStepsKeep, DatabaseStepsKeep,
       IssueKeeps, VerifyKeeps, NextExportKeeps, ExportIsMissingKeeps,
       CreateTemporaryKeeps, WriteTemporaryKeeps, PublishKeeps, StopKeeps, ReportKeeps
       DEF Step
  <2> QED
    BY <2>1, <2>2
<1>5. ASSUME NEW p \in Proc, Crash(p)
      PROVE  Invariant'
  BY <1>5, StopKeeps
<1> QED
  BY <1>1, <1>2, <1>3, <1>4, <1>5 DEF Next

\* The inductive invariant holds in every reachable state, whatever runs of
\* both scripts interleave and wherever they are killed.
THEOREM InvariantHolds == Spec => []Invariant
<1>1. Init => Invariant
  BY InitInvariant
<1>2. Invariant /\ [Next]_vars => Invariant'
  BY NextInvariant
<1> QED
  BY <1>1, <1>2, PTL DEF Spec

-----------------------------------------------------------------------------
(* The safety theorems                                                     *)

\* Every variable keeps its type through every interleaving of runs.
THEOREM TypeCorrect == Spec => []TypeOK
<1>1. Invariant => TypeOK
  BY DEF Invariant
<1> QED
  BY <1>1, InvariantHolds, PTL

\* No lane ever holds two grants valid at the same instant.
THEOREM LaneGrantsStayDisjoint == Spec => []LaneGrantsNeverOverlap
<1>1. Invariant => LaneGrantsNeverOverlap
  BY DEF Invariant, History, HistoryOf, LaneGrantsNeverOverlap
<1> QED
  BY <1>1, InvariantHolds, PTL

\* The checks a script makes of the receipt it was handed never fail: what was
\* read before the issuer's transaction is what the transaction returned.
THEOREM CommittedGrantsAlwaysVerify == Spec => []CommittedGrantsVerify
<1>1. Invariant => CommittedGrantsVerify
  <2> SUFFICES ASSUME Invariant, NEW p \in Proc, run[p].pc = "verify"
               PROVE  run[p].row \in issuances[run[p].lane] /\ Verifies(p)
    BY DEF CommittedGrantsVerify
  <2> DEFINE l == run[p].lane
             t == run[p].issuedAt
             g == run[p].row
  <2>1. /\ l \in Lane /\ t \in IssuedAt /\ g \in issuances[l]
        /\ g.metadata = MetadataOf(l) /\ g.request.issuedAt = t
        /\ g.rid = RequestIdOf(t)
    BY ExportFacts
  <2>2. /\ run[p].identity \in Identity
        /\ l = EPOCH5 => run[p].identity = EPOCH5_IDENTITY
        /\ run[p].before # None => run[p].before \in ExactRows(l, t)
        /\ g.request = InkRequest(run[p].identity, t)
    BY DEF Invariant, Knowledge, Knows
  <2>3. IsCurrent(g, ReviewedIdentity(l, run[p].identity))
    BY <2>1, <2>2, LaneRequestFacts DEF IsCurrent, ReviewedIdentity
  <2>4. run[p].before \in {None, g}
    BY <2>1, <2>2 DEF ExactRows, Invariant, History, HistoryOf
  <2> QED
    BY <2>1, <2>3, <2>4 DEF Verifies
<1> QED
  BY <1>1, InvariantHolds, PTL

\* At no instant does assert_valid_at accept two grants of one lane.
THEOREM OneGrantOfALaneAtATime ==
  Spec => [](\A l \in Lane : \A g, h \in issuances[l] : \A now \in Nat :
               ActiveAt(g.request, now) /\ ActiveAt(h.request, now) => g = h)
<1>1. Invariant => \A l \in Lane : \A g, h \in issuances[l] : \A now \in Nat :
        ActiveAt(g.request, now) /\ ActiveAt(h.request, now) => g = h
  <2> SUFFICES ASSUME Invariant, NEW l \in Lane,
                      NEW g \in issuances[l], NEW h \in issuances[l], NEW now \in Nat,
                      ActiveAt(g.request, now), ActiveAt(h.request, now)
               PROVE  g = h
    OBVIOUS
  <2>1. g \in Row /\ h \in Row
    BY DEF Invariant, TypeOK
  <2>2. Overlap(g.request, h.request)
    BY <2>1, RowFacts, OverlapIsSharedInstant
  <2> QED
    BY <2>2 DEF Invariant, History, HistoryOf
<1> QED
  BY <1>1, InvariantHolds, PTL

-----------------------------------------------------------------------------
(* Each lane implements the abstract ledger                                *)

\* What a step may do to a lane, in the terms of the abstract ledger.
Configures(l) ==
  /\ MetadataIn(l) = None /\ MetadataIn(l)' = MetadataOf(l)
  /\ UNCHANGED <<issuances[l], AnswersOf(l)>>

Grants(l) ==
  /\ MetadataIn(l) = MetadataOf(l) /\ MetadataOf(l) # None
  /\ UNCHANGED <<MetadataIn(l), AnswersOf(l)>>
  /\ \E g \in Row :
       /\ g.serial = SerialAfter(issuances[l]) /\ g.metadata = MetadataOf(l)
       /\ \A h \in issuances[l] : h.rid # g.rid /\ ~Overlap(h.request, g.request)
       /\ issuances'[l] = issuances[l] \cup {g}

Answers(l) ==
  /\ UNCHANGED <<MetadataIn(l), issuances[l]>>
  /\ \E g \in issuances[l] : AnswersOf(l)' = AnswersOf(l) \cup
       {[rid |-> g.rid, request |-> g.request, grant |-> g]}

LaneStep(l) ==
  \/ UNCHANGED <<MetadataIn(l), issuances[l], AnswersOf(l)>>
  \/ Configures(l)
  \/ Grants(l)
  \/ Answers(l)

\* A step that leaves databases, rows and reports alone is a stutter.
LEMMA StutterIsLaneStep ==
  ASSUME UNCHANGED <<database, issuances, reported>>, NEW l \in Lane
  PROVE  LaneStep(l)
  BY DEF LaneStep, MetadataIn, AnswersOf, ReportsOf

\* A database file without tables belongs to nobody; its initialization is the
\* ledger's configuration, a later one a stutter.
LEMMA DatabaseStepsAreLaneSteps ==
  ASSUME Invariant, NEW p \in Proc, OpenDatabase(p) \/ InitializeDatabase(p),
         NEW l \in Lane
  PROVE  LaneStep(l)
<1>1. UNCHANGED <<issuances, reported>> /\ database \in [Lane -> {"absent", "bare", "ready"}]
  BY DEF Invariant, TypeOK, OpenDatabase, InitializeDatabase
<1>2. AnswersOf(l)' = AnswersOf(l)
  BY <1>1 DEF AnswersOf, ReportsOf
<1>3. CASE OpenDatabase(p)
  BY <1>1, <1>2, <1>3 DEF OpenDatabase, LaneStep, MetadataIn
<1>4. CASE InitializeDatabase(p)
  BY <1>1, <1>2, <1>4 DEF InitializeDatabase, LaneStep, MetadataIn, Configures
<1> QED
  BY <1>3, <1>4

\* An issue is a grant of its lane when it commits a new row, else a stutter.
LEMMA IssueIsLaneStep ==
  ASSUME Invariant, NEW p \in Proc, Issue(p), NEW l \in Lane
  PROVE  LaneStep(l)
<1> DEFINE m == run[p].lane
           t == run[p].issuedAt
           i == run[p].identity
<1>0. /\ m \in Lane /\ t \in IssuedAt /\ i \in Identity /\ database[m] = "ready"
      /\ issuances \in [Lane -> SUBSET Row]
  BY DEF Invariant, TypeOK, Knowledge, Knows, Issue
<1>1. PICK g \in Row :
        /\ g.rid = RequestIdOf(t) /\ g.request = InkRequest(i, t)
        /\ \/ g \in issuances[m]
           \/ /\ ExactRows(m, t) = {}
              /\ g = NewRow(m, i, t)
              /\ Issues(m, i, t, NewRow(m, i, t))
        /\ issuances' = [issuances EXCEPT ![m] = @ \cup {g}]
  BY IssueFacts
<1>2. MetadataIn(l)' = MetadataIn(l) /\ AnswersOf(l)' = AnswersOf(l)
  BY DEF Issue, MetadataIn, AnswersOf, ReportsOf
<1>3. CASE l # m \/ g \in issuances[m]
  BY <1>0, <1>1, <1>2, <1>3 DEF LaneStep
<1>4. CASE l = m /\ g \notin issuances[m]
  <2>1. /\ g.serial = SerialAfter(issuances[m]) /\ g.metadata = MetadataOf(m)
        /\ \A h \in issuances[m] : h.rid # g.rid /\ ~Overlap(h.request, g.request)
    BY <1>0, <1>1, <1>4, NewRowFits, NewRowIs
  <2>2. issuances'[m] = issuances[m] \cup {g}
    BY <1>0, <1>1
  <2>3. MetadataIn(m) = MetadataOf(m) /\ MetadataOf(m) # None
    BY <1>0, RootAssumption DEF MetadataIn
  <2> QED
    BY <1>2, <1>4, <2>1, <2>2, <2>3 DEF LaneStep, Grants
<1> QED
  BY <1>3, <1>4

\* A report is an answer of its lane.
LEMMA ReportIsLaneStep ==
  ASSUME Invariant, NEW p \in Proc, Report(p), NEW l \in Lane
  PROVE  LaneStep(l)
<1> DEFINE g == run[p].row
           m == run[p].lane
<1>1. m \in Lane /\ g \in issuances[m] /\ g.metadata.epoch = m
  <2>1. run[p].pc \in {"verify"} \cup Exporting
    BY DEF Report, Exporting, Writing
  <2>2. m \in Lane /\ g \in issuances[m] /\ g.metadata = MetadataOf(m)
    BY <2>1, ExportFacts
  <2> QED
    BY <2>2 DEF MetadataOf
<1>2. reported' = reported \cup {g} /\ UNCHANGED <<database, issuances>>
  BY DEF Report, root
<1>3. MetadataIn(l)' = MetadataIn(l)
  BY <1>2 DEF MetadataIn
<1>4. CASE l = m
  <2>1. ReportsOf(l)' = ReportsOf(l) \cup {g}
    BY <1>1, <1>2, <1>4 DEF ReportsOf
  <2>2. AnswersOf(l)' = AnswersOf(l) \cup
          {[rid |-> g.rid, request |-> g.request, grant |-> g]}
    BY <2>1 DEF AnswersOf
  <2> QED
    BY <1>1, <1>2, <1>3, <1>4, <2>2 DEF LaneStep, Answers
<1>5. CASE l # m
  <2>1. ReportsOf(l)' = ReportsOf(l)
    BY <1>1, <1>2, <1>5 DEF ReportsOf
  <2> QED
    BY <1>2, <1>3, <2>1 DEF LaneStep, AnswersOf
<1> QED
  BY <1>4, <1>5

\* Every step is a step of each lane's ledger, or leaves it alone.
LEMMA NextIsLaneStep ==
  ASSUME Invariant, [Next]_vars, NEW l \in Lane
  PROVE  LaneStep(l)
<1>1. CASE UNCHANGED vars
  BY <1>1, StutterIsLaneStep DEF vars, root
<1>2. CASE Rebind
  BY <1>2, StutterIsLaneStep DEF Rebind, root
<1>3. ASSUME NEW p \in Proc, NEW m \in Lane, NEW t \in IssuedAt, Start(p, m, t)
      PROVE  LaneStep(l)
  BY <1>3, StutterIsLaneStep DEF Start, root
<1>4. ASSUME NEW p \in Proc, Step(p)
      PROVE  LaneStep(l)
  <2>1. CASE OpenDatabase(p) \/ InitializeDatabase(p)
    BY <2>1, DatabaseStepsAreLaneSteps
  <2>2. CASE Issue(p)
    BY <2>2, IssueIsLaneStep
  <2>3. CASE Report(p)
    BY <2>3, ReportIsLaneStep
  <2>4. CASE ~(OpenDatabase(p) \/ InitializeDatabase(p) \/ Issue(p) \/ Report(p))
    <3>1. UNCHANGED <<database, issuances, reported>>
      BY <1>4, <2>4 DEF Step, Refuses, InspectHistoryRefuses, PreflightRefuses,
         IssueRefuses, ExportConflicts, CreateTemporaryFails, Refuse,
         InspectHistory, ListLedgers, SurveyLedger, Preflight, Verify,
         ExportIsThere, ExportIsMissing, CreateTemporary, WriteTemporary, Publish, SetMode,
         WriteFails, CleanUp, root
    <3> QED
      BY <3>1, StutterIsLaneStep
  <2> QED
    BY <2>1, <2>2, <2>3, <2>4
<1>5. ASSUME NEW p \in Proc, Crash(p)
      PROVE  LaneStep(l)
  BY <1>5, StutterIsLaneStep DEF Crash
<1> QED
  BY <1>1, <1>2, <1>3, <1>4, <1>5 DEF Next

\* The lane's history is a history of the abstract ledger, whose operators
\* mean the same.
LEMMA EpochFiveOperators ==
  /\ EpochFive!NextSerial = SerialAfter(issuances[EPOCH5])
  /\ \A r, s : EpochFive!Overlap(r, s) <=> Overlap(r, s)
<1>1. EpochFive!NextSerial = SerialAfter(issuances[EPOCH5])
  BY DEF EpochFive!NextSerial, SerialAfter, EpochFive!Max, Max
<1>2. \A r, s : EpochFive!Overlap(r, s) <=> Overlap(r, s)
  BY Zenon DEF EpochFive!Overlap, Overlap, EpochFive!Max, Max, EpochFive!Min, Min
<1> QED
  BY <1>1, <1>2

\* The same of the epoch-6 instance.
LEMMA EpochSixOperators ==
  /\ EpochSix!NextSerial = SerialAfter(issuances[EPOCH6])
  /\ \A r, s : EpochSix!Overlap(r, s) <=> Overlap(r, s)
<1>1. EpochSix!NextSerial = SerialAfter(issuances[EPOCH6])
  BY DEF EpochSix!NextSerial, SerialAfter, EpochSix!Max, Max
<1>2. \A r, s : EpochSix!Overlap(r, s) <=> Overlap(r, s)
  BY Zenon DEF EpochSix!Overlap, Overlap, EpochSix!Max, Max, EpochSix!Min, Min
<1> QED
  BY <1>1, <1>2

\* A row is the record the abstract ledger builds of its parts.
LEMMA RowIsRecord ==
  ASSUME NEW g \in Row
  PROVE  /\ g.rid \in RequestIds /\ g.request \in LaneRequests
         /\ g = [rid |-> g.rid, request |-> g.request,
                 serial |-> g.serial, metadata |-> g.metadata]
  BY DEF Row, RequestIds

\* Each step is a step of the epoch-5 ledger or none.
LEMMA NextRefinesEpochFive ==
  ASSUME Invariant, [Next]_vars
  PROVE  [EpochFive!Next]_(EpochFive!vars)
<1>1. LaneStep(EPOCH5)
  BY NextIsLaneStep DEF Lane
<1>2. CASE UNCHANGED <<MetadataIn(EPOCH5), issuances[EPOCH5], AnswersOf(EPOCH5)>>
  BY <1>2 DEF EpochFive!vars
<1>3. CASE Configures(EPOCH5)
  BY <1>3 DEF Configures, EpochFive!Next, EpochFive!Configure
<1>4. CASE Grants(EPOCH5)
  <2>1. PICK g \in Row :
          /\ g.serial = SerialAfter(issuances[EPOCH5]) /\ g.metadata = MetadataOf(EPOCH5)
          /\ \A h \in issuances[EPOCH5] :
               h.rid # g.rid /\ ~Overlap(h.request, g.request)
          /\ issuances'[EPOCH5] = issuances[EPOCH5] \cup {g}
    BY <1>4 DEF Grants
  <2>2. g = [rid |-> g.rid, request |-> g.request,
             serial |-> EpochFive!NextSerial, metadata |-> MetadataIn(EPOCH5)]
    BY <1>4, <2>1, RowIsRecord, EpochFiveOperators DEF Grants
  <2>3. EpochFive!Grant(g.rid, g.request)
    BY <1>4, <2>1, <2>2, EpochFiveOperators DEF Grants, EpochFive!Grant
  <2> QED
    BY <2>3, RowIsRecord DEF EpochFive!Next
<1>5. CASE Answers(EPOCH5)
  BY <1>5 DEF Answers, EpochFive!Next, EpochFive!Answer
<1> QED
  BY <1>1, <1>2, <1>3, <1>4, <1>5 DEF LaneStep

\* Each step is a step of the epoch-6 ledger or none.
LEMMA NextRefinesEpochSix ==
  ASSUME Invariant, [Next]_vars
  PROVE  [EpochSix!Next]_(EpochSix!vars)
<1>1. LaneStep(EPOCH6)
  BY NextIsLaneStep DEF Lane
<1>2. CASE UNCHANGED <<MetadataIn(EPOCH6), issuances[EPOCH6], AnswersOf(EPOCH6)>>
  BY <1>2 DEF EpochSix!vars
<1>3. CASE Configures(EPOCH6)
  BY <1>3 DEF Configures, EpochSix!Next, EpochSix!Configure
<1>4. CASE Grants(EPOCH6)
  <2>1. PICK g \in Row :
          /\ g.serial = SerialAfter(issuances[EPOCH6]) /\ g.metadata = MetadataOf(EPOCH6)
          /\ \A h \in issuances[EPOCH6] :
               h.rid # g.rid /\ ~Overlap(h.request, g.request)
          /\ issuances'[EPOCH6] = issuances[EPOCH6] \cup {g}
    BY <1>4 DEF Grants
  <2>2. g = [rid |-> g.rid, request |-> g.request,
             serial |-> EpochSix!NextSerial, metadata |-> MetadataIn(EPOCH6)]
    BY <1>4, <2>1, RowIsRecord, EpochSixOperators DEF Grants
  <2>3. EpochSix!Grant(g.rid, g.request)
    BY <1>4, <2>1, <2>2, EpochSixOperators DEF Grants, EpochSix!Grant
  <2> QED
    BY <2>3, RowIsRecord DEF EpochSix!Next
<1>5. CASE Answers(EPOCH6)
  BY <1>5 DEF Answers, EpochSix!Next, EpochSix!Answer
<1> QED
  BY <1>1, <1>2, <1>3, <1>4, <1>5 DEF LaneStep

\* The empty root is two empty ledgers.
LEMMA InitRefines == Init => EpochFive!Init /\ EpochSix!Init
  BY DEF Init, Lane, MetadataIn, AnswersOf, ReportsOf, EpochFive!Init, EpochSix!Init

\* The lanes, with their runs, crashes, rebinds and exports, implement one
\* abstract issuance ledger each.
THEOREM LanesImplementTheLedger == Spec => LanesImplementGrantLedger
<1>1. Init => EpochFive!Init /\ EpochSix!Init
  BY InitRefines
<1>2. Invariant /\ [Next]_vars => [EpochFive!Next]_(EpochFive!vars)
  BY NextRefinesEpochFive
<1>3. Invariant /\ [Next]_vars => [EpochSix!Next]_(EpochSix!vars)
  BY NextRefinesEpochSix
<1> QED
  BY <1>1, <1>2, <1>3, InvariantHolds, PTL
     DEF Spec, EpochFive!Spec, EpochSix!Spec, LanesImplementGrantLedger
-----------------------------------------------------------------------------
(* What a step is                                                          *)

\* Of all steps only Issue commits a row.
LEMMA OnlyIssueCommits ==
  ASSUME NEW p \in Proc, Step(p)
  PROVE  Issue(p) \/ issuances' = issuances
  BY DEF Step, Refuses, Refuse, root, InspectHistory, ListLedgers, SurveyLedger,
         Preflight, OpenDatabase, InitializeDatabase, Verify, ExportIsThere,
         ExportIsMissing, CreateTemporary, WriteTemporary, Publish, SetMode,
         WriteFails, CleanUp, Report, InspectHistoryRefuses, PreflightRefuses, IssueRefuses, ExportConflicts,
         CreateTemporaryFails

\* A step is its run's own; it ends the run, or goes on with its arguments.
LEMMA StepFacts ==
  ASSUME TypeOK, NEW p \in Proc, Step(p)
  PROVE  /\ InProgress(p) /\ OthersUntouched(p) /\ binding' = binding
         /\ \/ run'[p] = Idle
            \/ /\ run'[p].pc # "idle"
               /\ run'[p].lane = run[p].lane
               /\ run'[p].issuedAt = run[p].issuedAt
               /\ run'[p].identity = run[p].identity
<1>0. run \in [Proc -> Run]
  BY DEF TypeOK
<1>1. CASE Refuses(p)
  <2>1. run[p].pc # "idle" /\ Refuse(p)
    BY <1>1 DEF Refuses, InspectHistoryRefuses, PreflightRefuses, IssueRefuses,
                ExportConflicts, CreateTemporaryFails
  <2> QED
    BY <1>0, <2>1 DEF Refuse, OthersUntouched, InProgress
<1>2. CASE WriteFails(p) \/ Report(p)
  BY <1>0, <1>2 DEF WriteFails, CleanUp, Report, OthersUntouched, InProgress
<1>3. CASE InspectHistory(p) \/ ListLedgers(p) \/ SurveyLedger(p) \/ Preflight(p)
  BY <1>0, <1>3 DEF InspectHistory, ListLedgers, SurveyLedger, Preflight,
                    OthersUntouched, InProgress, Run
<1>4. CASE OpenDatabase(p) \/ InitializeDatabase(p) \/ Issue(p) \/ Verify(p)
  BY <1>0, <1>4 DEF OpenDatabase, InitializeDatabase, Issue, Verify, Goto,
                    OthersUntouched, InProgress, Run
<1>5. CASE \/ ExportIsThere(p) \/ ExportIsMissing(p) \/ CreateTemporary(p)
           \/ WriteTemporary(p) \/ Publish(p) \/ SetMode(p)
  BY <1>0, <1>5 DEF ExportIsThere, ExportIsMissing, CreateTemporary, WriteTemporary,
                    Publish, SetMode, Goto, OthersUntouched, InProgress, Run
<1> QED
  BY <1>1, <1>2, <1>3, <1>4, <1>5 DEF Step

\* A run that begins, one that dies, and a rebind commit nothing.
LEMMA OtherFacts ==
  ASSUME TypeOK, [Next]_vars
  PROVE  \/ \E p \in Proc : Step(p)
         \/ /\ issuances' = issuances
            /\ \/ run' = run
               \/ \E p \in Proc :
                    /\ OthersUntouched(p)
                    /\ run'[p].pc \in {"idle", "inspect"} /\ run'[p].active = {}
<1>1. CASE UNCHANGED vars \/ Rebind
  BY <1>1 DEF vars, Rebind, root
<1>2. ASSUME NEW p \in Proc, NEW l \in Lane, NEW t \in IssuedAt, Start(p, l, t)
      PROVE  /\ issuances' = issuances /\ OthersUntouched(p)
             /\ run'[p].pc = "inspect" /\ run'[p].active = {}
  BY <1>2 DEF TypeOK, Start, root, OthersUntouched, Idle
<1>3. ASSUME NEW p \in Proc, Crash(p)
      PROVE  /\ issuances' = issuances /\ OthersUntouched(p)
             /\ run'[p].pc = "idle" /\ run'[p].active = {}
  BY <1>3 DEF TypeOK, Crash, OthersUntouched, Idle
<1> QED
  BY <1>1, <1>2, <1>3 DEF Next

-----------------------------------------------------------------------------
(* Temporary files                                                         *)

\* What the temporary name leads to while the file is the run's own.
Own(p) == IF run[p].pc = "write" THEN p ELSE run[p].row

Owns(p) ==
  /\ tmp[NextFile(p)] = Own(p)
  /\ \A q \in Proc \ {p} : Writes(q) => NextFile(q) # NextFile(p)

\* The steps that touch a file or change what a run is about to write, and
\* what they do; in all others no run begins or ends to write.
LEMMA FileActions ==
  ASSUME Invariant, [Next]_vars
  PROVE  \/ UNCHANGED <<file, tmp>> /\ \A p \in Proc : run'[p] = run[p]
         \/ \E p \in Proc : OthersUntouched(p) /\
              \/ CreateTemporary(p)
              \/ WriteTemporary(p)
              \/ Publish(p)
              \/ WriteFails(p)
              \/ Crash(p)
              \/ /\ UNCHANGED <<file, tmp>> /\ ~Writes(p) /\ ~Writes(p)'
                 /\ run'[p].pc = "create" => file[NextFile(p)'] = None
                 /\ run'[p].pc # "chmod"
<1>0. TypeOK /\ run \in [Proc -> Run]
  BY DEF Invariant, TypeOK
<1>1. CASE UNCHANGED vars \/ Rebind
  BY <1>1 DEF vars, Rebind, root
<1>2. ASSUME NEW p \in Proc, NEW l \in Lane, NEW t \in IssuedAt, Start(p, l, t)
      PROVE  /\ OthersUntouched(p) /\ UNCHANGED <<file, tmp>>
             /\ run[p].pc = "idle" /\ run'[p].pc = "inspect"
  BY <1>0, <1>2 DEF Start, root, OthersUntouched, Idle
<1>3. ASSUME NEW p \in Proc, Crash(p)
      PROVE  OthersUntouched(p)
  BY <1>0, <1>3 DEF Crash, OthersUntouched
<1>4. ASSUME NEW p \in Proc, Step(p), ~CreateTemporary(p), ~WriteTemporary(p),
             ~Publish(p), ~WriteFails(p)
      PROVE  /\ OthersUntouched(p) /\ UNCHANGED <<file, tmp>>
             /\ ~Writes(p) /\ ~Writes(p)' /\ run'[p].pc # "chmod"
             /\ run'[p].pc = "create" => file[NextFile(p)'] = None
  <2>1. OthersUntouched(p)
    BY <1>0, <1>4, StepFacts
  <2>2. CASE Refuses(p) \/ Report(p)
    <3>1. UNCHANGED <<file, tmp>> /\ ~Writes(p) /\ run'[p].pc = "idle"
      BY <1>0, <2>2 DEF Refuses, Refuse, root, Report, Idle, Writes,
         InspectHistoryRefuses, PreflightRefuses, IssueRefuses, ExportConflicts,
         CreateTemporaryFails
    <3> QED
      BY <2>1, <3>1 DEF Writes
  <2>3. CASE \/ InspectHistory(p) \/ ListLedgers(p) \/ SurveyLedger(p) \/ Preflight(p)
             \/ OpenDatabase(p) \/ InitializeDatabase(p)
    BY <1>0, <2>1, <2>3 DEF InspectHistory, ListLedgers, SurveyLedger, Writes,
       Preflight, OpenDatabase, InitializeDatabase, Goto, root, Run
  <2>4. CASE Issue(p) \/ Verify(p) \/ ExportIsThere(p) \/ SetMode(p)
    BY <1>0, <2>1, <2>4 DEF Issue, Verify, ExportIsThere, SetMode, Writes,
       Goto, root, Run
  <2>5. CASE ExportIsMissing(p)
    BY <1>0, <2>1, <2>5 DEF ExportIsMissing, NextFile, Writes, Goto, root, Run
  <2> QED
    BY <1>4, <2>2, <2>3, <2>4, <2>5 DEF Step
<1>5. ASSUME NEW p \in Proc, Step(p)
      PROVE  OthersUntouched(p)
  BY <1>0, <1>5, StepFacts
<1>6. CASE \E p \in Proc : Step(p)
  BY <1>4, <1>5, <1>6
<1>7. CASE \E p \in Proc, l \in Lane, t \in IssuedAt : Start(p, l, t)
  BY <1>2, <1>7 DEF Writes
<1>8. CASE \E p \in Proc : Crash(p)
  BY <1>3, <1>8
<1> QED
  BY <1>1, <1>6, <1>7, <1>8 DEF Next

\* The entries a run leaves alone when it writes, fails or dies.
LEMMA ClosingFacts ==
  ASSUME Invariant, NEW p \in Proc,
         WriteTemporary(p) \/ WriteFails(p) \/ Crash(p)
  PROVE  /\ \A f \in File : file'[f] = None <=> file[f] = None
         /\ \A f \in File : file[f] # p => file'[f] = file[f]
         /\ \A f \in File : tmp[f] # p =>
              \/ tmp'[f] = tmp[f]
              \/ WriteFails(p) /\ f = NextFile(p) /\ tmp'[f] = None
<1>0. run \in [Proc -> Run]
  BY DEF Invariant, TypeOK
<1>1. PICK c \in Content \ {None} :
        /\ file' = Settle(file, p, c)
        /\ \/ tmp' = Settle(tmp, p, c)
           \/ WriteFails(p) /\ tmp' = [Settle(tmp, p, c) EXCEPT ![NextFile(p)] = None]
  <2>1. Torn \in Content \ {None}
    BY RootAssumption DEF Content
  <2>2. CASE WriteTemporary(p)
    <3>1. run[p].row \in Content \ {None}
      BY <2>2, WritingFacts DEF WriteTemporary, Writing, Content
    <3> QED
      BY <2>2, <3>1 DEF WriteTemporary
  <2>3. CASE WriteFails(p) \/ Crash(p)
    BY <2>1, <2>3 DEF WriteFails, CleanUp, Crash
  <2> QED
    BY <2>2, <2>3
<1>2. \A entries \in {tmp, file} : \A f \in File :
        /\ entries[f] # p => Settle(entries, p, c)[f] = entries[f]
        /\ Settle(entries, p, c)[f] = None <=> entries[f] = None
  BY <1>1, SettleFacts DEF Settle
<1>3. Settle(tmp, p, c) \in [File -> Content]
  BY <1>1, SettleFacts
<1> QED
  BY <1>1, <1>2, <1>3

\* Where its export is not there yet, the temporary file of a run stays its own:
\* to create it the name has to be free, and whoever unlinks or renames it is
\* writing the same export, or has published it.
LEMMA OwnedNext ==
  ASSUME Invariant, Invariant', TemporaryIsOwnedUntilPublished, [Next]_vars
  PROVE  TemporaryIsOwnedUntilPublished'
<1> DEFINE Safe(p) == Writes(p) /\ file[NextFile(p)] = None => Owns(p)
<1>0. /\ run \in [Proc -> Run] /\ tmp \in [File -> Content] /\ file \in [File -> Content]
      /\ \A p \in Proc : Safe(p)
      /\ \A p \in Proc : Writes(p) => run[p].pc \in Writing /\ NextFile(p) \in File
  BY WritingFacts DEF Invariant, TypeOK, TemporaryIsOwnedUntilPublished, Owns, Own,
                      Writes, Writing
<1>1. SUFFICES \A p \in Proc : Safe(p)'
  BY DEF TemporaryIsOwnedUntilPublished, Owns, Own
<1>2. CASE UNCHANGED <<file, tmp>> /\ \A p \in Proc : run'[p] = run[p]
  BY <1>0, <1>2 DEF Writes, NextFile, Owns, Own
<1>3. ASSUME NEW p \in Proc, OthersUntouched(p), ~Writes(p)',
             \A f \in File : file'[f] = None => file[f] = None,
             \A q \in Proc \ {p} :
               Writes(q) /\ file[NextFile(q)] = None /\ file'[NextFile(q)] = None =>
                 tmp'[NextFile(q)] = tmp[NextFile(q)]
      PROVE  \A q \in Proc : Safe(q)'
  <2> SUFFICES ASSUME NEW q \in Proc \ {p}, Writes(q), file'[NextFile(q)] = None
               PROVE  /\ tmp'[NextFile(q)] = Own(q)
                      /\ \A r \in Proc \ {q} : Writes(r)' => NextFile(r)' # NextFile(q)
    <3>1. \A q \in Proc \ {p} : run'[q] = run[q]
      BY <1>3 DEF OthersUntouched
    <3>2. \A q \in Proc \ {p} :
            /\ Writes(q)' <=> Writes(q)
            /\ NextFile(q)' = NextFile(q) /\ Own(q)' = Own(q)
      BY <3>1 DEF Writes, NextFile, Own
    <3> QED
      BY <1>3, <3>2 DEF Owns
  <2>1. NextFile(q) \in File
    BY <1>0
  <2>2. file[NextFile(q)] = None
    BY <1>3, <2>1
  <2>3. Owns(q)
    BY <1>0, <2>2
  <2>4. tmp'[NextFile(q)] = Own(q)
    BY <1>3, <2>2, <2>3 DEF Owns
  <2>5. ASSUME NEW r \in Proc \ {q}, Writes(r)'
        PROVE  NextFile(r)' # NextFile(q)
    <3>1. r # p /\ run'[r] = run[r]
      BY <1>3, <2>5 DEF OthersUntouched
    <3>2. Writes(r) /\ NextFile(r)' = NextFile(r)
      BY <2>5, <3>1 DEF Writes, NextFile
    <3> QED
      BY <2>3, <3>2 DEF Owns
  <2> QED
    BY <2>4, <2>5
<1>4. ASSUME NEW p \in Proc, OthersUntouched(p), CreateTemporary(p)
      PROVE  \A q \in Proc : Safe(q)'
  <2> DEFINE f == NextFile(p)
  <2>1. /\ f \in File /\ tmp[f] = None /\ tmp' = [tmp EXCEPT ![f] = p] /\ file' = file
        /\ run'[p].pc = "write" /\ f' = f
    <3>1. f \in File
      BY <1>4, WritingFacts DEF CreateTemporary, Writing
    <3> QED
      BY <1>0, <1>4, <3>1 DEF CreateTemporary, Goto, NextFile, Run
  <2>2. \A q \in Proc \ {p} :
          /\ Writes(q)' <=> Writes(q)
          /\ NextFile(q)' = NextFile(q) /\ Own(q)' = Own(q) /\ run'[q] = run[q]
    BY <1>4 DEF OthersUntouched, Writes, NextFile, Own
  <2>3. \A q \in Proc : Writes(q) => Own(q) # None
    BY WritingFacts, ProcFacts DEF Own, Writes, Writing
  <2>4. \A q \in Proc \ {p} : Writes(q) /\ file[NextFile(q)] = None => NextFile(q) # f
    BY <1>0, <2>1, <2>3 DEF Owns
  <2>5. ASSUME file'[f] = None
        PROVE  Owns(p)'
    <3>1. Own(p)' = p /\ tmp'[f] = p
      BY <1>0, <2>1 DEF Own
    <3>2. \A q \in Proc \ {p} : Writes(q)' => NextFile(q)' # f
      BY <2>1, <2>2, <2>4, <2>5
    <3> QED
      BY <2>1, <3>1, <3>2 DEF Owns
  <2>6. ASSUME NEW q \in Proc \ {p}, Writes(q)', file'[NextFile(q)'] = None
        PROVE  Owns(q)'
    <3>1. Owns(q) /\ NextFile(q) # f /\ NextFile(q) \in File
      BY <1>0, <2>1, <2>2, <2>4, <2>6
    <3>2. tmp'[NextFile(q)] = tmp[NextFile(q)]
      BY <1>0, <2>1, <3>1
    <3>3. \A r \in Proc \ {q} : Writes(r)' => NextFile(r)' # NextFile(q)
      BY <2>1, <2>2, <3>1 DEF Owns
    <3> QED
      BY <2>2, <3>1, <3>2, <3>3 DEF Owns
  <2> QED
    BY <2>1, <2>5, <2>6
<1>5. ASSUME NEW p \in Proc, OthersUntouched(p), WriteTemporary(p)
      PROVE  \A q \in Proc : Safe(q)'
  <2> DEFINE f == NextFile(p)
  <2>1. /\ run[p].pc = "write" /\ run'[p].pc = "replace" /\ f' = f
        /\ run'[p].row = run[p].row /\ f \in File /\ Writes(p)
        /\ tmp' = Settle(tmp, p, run[p].row)
    <3>1. f \in File
      BY <1>5, WritingFacts DEF WriteTemporary, Writing
    <3> QED
      BY <1>0, <1>5, <3>1 DEF WriteTemporary, Goto, NextFile, Run, Writes
  <2>2. \A q \in Proc :
          (Writes(q)' <=> Writes(q)) /\ NextFile(q)' = NextFile(q)
    BY <1>5, <2>1 DEF OthersUntouched, Writes, NextFile
  <2>3. ASSUME NEW q \in Proc, Writes(q), file'[NextFile(q)] = None
        PROVE  Owns(q)'
    <3>1. NextFile(q) \in File /\ Owns(q)
      BY <1>0, <1>5, <2>3, ClosingFacts
    <3>2. CASE q = p
      <4>1. tmp'[f] = run[p].row
        BY <2>1, <3>1, <3>2 DEF Owns, Own, Settle
      <4> QED
        BY <2>1, <2>2, <3>1, <3>2, <4>1 DEF Owns, Own
    <3>3. CASE q # p
      <4>1. run'[q] = run[q] /\ Own(q)' = Own(q)
        BY <1>5, <3>3 DEF OthersUntouched, Own
      <4>2. tmp[NextFile(q)] # p
        BY <2>3, <3>1, <3>3, WritingFacts, ProcFacts DEF Owns, Own, Writes, Writing
      <4>3. tmp'[NextFile(q)] = tmp[NextFile(q)]
        BY <2>1, <3>1, <4>2 DEF Settle
      <4> QED
        BY <2>2, <3>1, <4>1, <4>3 DEF Owns
    <3> QED
      BY <3>2, <3>3
  <2> QED
    BY <2>2, <2>3
<1>6. ASSUME NEW p \in Proc, OthersUntouched(p), Publish(p)
      PROVE  \A q \in Proc : Safe(q)'
  <2> DEFINE f == NextFile(p)
  <2>1. /\ f \in File /\ tmp[f] # None
        /\ file' = [file EXCEPT ![f] = tmp[f]] /\ tmp' = [tmp EXCEPT ![f] = None]
        /\ run'[p].pc = "chmod"
    <3>1. f \in File
      BY <1>6, WritingFacts DEF Publish, Writing
    <3> QED
      BY <1>0, <1>6, <3>1 DEF Publish, Goto
  <2>2. file'[f] # None /\ \A e \in File \ {f} : file'[e] = file[e] /\ tmp'[e] = tmp[e]
    BY <1>0, <2>1
  <2>3. ~Writes(p)'
    BY <2>1 DEF Writes
  <2> QED
    BY <1>0, <1>3, <1>6, <2>2, <2>3
<1>7. ASSUME NEW p \in Proc, OthersUntouched(p), WriteFails(p) \/ Crash(p)
      PROVE  \A q \in Proc : Safe(q)'
  <2>1. ~Writes(p)'
    BY <1>0, <1>7 DEF WriteFails, Crash, Idle, Writes
  <2>2. \A e \in File : file'[e] = None => file[e] = None
    BY <1>7, ClosingFacts
  <2>3. ASSUME NEW q \in Proc \ {p}, Writes(q), file[NextFile(q)] = None
        PROVE  tmp'[NextFile(q)] = tmp[NextFile(q)]
    <3>1. Owns(q) /\ NextFile(q) \in File
      BY <1>0, <2>3
    <3>2. tmp[NextFile(q)] # p
      BY <2>3, <3>1, WritingFacts, ProcFacts DEF Owns, Own, Writes, Writing
    <3>3. ASSUME WriteFails(p)
          PROVE  NextFile(q) # NextFile(p)
      <4>1. CASE Writes(p)
        BY <3>1, <4>1 DEF Owns
      <4>2. CASE run[p].pc = "chmod"
        <5>1. file[NextFile(p)] # None
          BY <4>2 DEF Invariant, Knowledge, Knows, NextFile
        <5> QED
          BY <2>3, <5>1
      <4> QED
        BY <3>3, <4>1, <4>2 DEF WriteFails, CleanUp, Writes
    <3> QED
      BY <1>7, <3>1, <3>2, <3>3, ClosingFacts
  <2> QED
    BY <1>3, <1>7, <2>1, <2>2, <2>3
<1>8. ASSUME NEW p \in Proc, OthersUntouched(p), UNCHANGED <<file, tmp>>, ~Writes(p)'
      PROVE  \A q \in Proc : Safe(q)'
  BY <1>3, <1>8
<1> QED
  BY <1>2, <1>4, <1>5, <1>6, <1>7, <1>8, FileActions

\* Until its export is published no run loses its temporary file to another, and
\* none writes one of the same name, however many there are and wherever they
\* fail or die.
THEOREM TemporariesStayOwned == Spec => []TemporaryIsOwnedUntilPublished
<1>1. Init => TemporaryIsOwnedUntilPublished
  BY DEF Init, Idle, Writes, TemporaryIsOwnedUntilPublished
<1>2. /\ Invariant /\ Invariant' /\ TemporaryIsOwnedUntilPublished /\ [Next]_vars
      => TemporaryIsOwnedUntilPublished'
  BY OwnedNext
<1> QED
  BY <1>1, <1>2, InvariantHolds, PTL DEF Spec

\* What first appears under the name of an export is a whole one.
LEMMA ExportsAppear ==
  ASSUME Invariant, TemporaryIsOwnedUntilPublished, [Next]_vars,
         NEW f \in File, file'[f] # file[f]
  PROVE  /\ file'[f] # None
         /\ file[f] = None => file'[f] \in issuances[f[1]]
<1>1. PICK p \in Proc : Publish(p) \/ WriteTemporary(p) \/ WriteFails(p) \/ Crash(p)
  BY FileActions DEF CreateTemporary
<1>2. CASE Publish(p)
  <2>1. /\ NextFile(p) \in File /\ run[p].row \in issuances[NextFile(p)[1]]
        /\ Writes(p) /\ run[p].pc = "replace" /\ file \in [File -> Content]
    BY <1>2, WritingFacts DEF Publish, Writing, Writes, Holds, TypeOK
  <2>2. f = NextFile(p) /\ file'[f] = tmp[f] /\ tmp[f] # None
    BY <1>2, <2>1 DEF Publish
  <2>3. file[f] = None => tmp[f] = run[p].row
    BY <2>1, <2>2 DEF TemporaryIsOwnedUntilPublished
  <2> QED
    BY <2>1, <2>2, <2>3
<1>3. CASE WriteTemporary(p) \/ WriteFails(p) \/ Crash(p)
  BY <1>3, ClosingFacts, ProcFacts
<1> QED
  BY <1>1, <1>2, <1>3

\* No reader ever meets an export that is not there yet in full, and none
\* disappears, however many runs write it at a time.
THEOREM ExportsAlwaysAppearWhole == Spec => ExportsAppearWhole
<1> DEFINE Whole == \A f \in File : file'[f] # file[f] =>
                      /\ file'[f] # None
                      /\ file[f] = None => file'[f] \in issuances[f[1]]
<1>1. Invariant /\ TemporaryIsOwnedUntilPublished /\ [Next]_vars => Whole
  BY ExportsAppear
<1>2. [][Whole]_vars => ExportsAppearWhole
  BY DEF ExportsAppearWhole
<1> QED
  BY <1>1, <1>2, InvariantHolds, TemporariesStayOwned, PTL DEF Spec

-----------------------------------------------------------------------------
(* The length of a run                                                     *)

\* The smallest of some lanes is one of them.
LEMMA MinOfLanes ==
  ASSUME NEW S \in SUBSET Lane, S # {}
  PROVE  Min(S) \in S
<1>1. \E x \in S : \A y \in S : x <= y
  <2>1. \A x \in S : x = 5 \/ x = 6
    BY DEF Lane, EPOCH5, EPOCH6
  <2>2. CASE 5 \in S
    <3>1. \A y \in S : 5 <= y
      BY <2>1
    <3> QED
      BY <2>2, <3>1
  <2>3. CASE 5 \notin S
    <3>1. 6 \in S /\ \A y \in S : 6 <= y
      BY <2>1, <2>3
    <3> QED
      BY <3>1
  <2> QED
    BY <2>2, <2>3
<1> QED
  BY <1>1 DEF Min

\* The ledgers a run has listed and not read are two at most, and reading one
\* leaves one less.
LEMMA UnreadFacts ==
  ASSUME NEW S \in SUBSET Lane
  PROVE  /\ Cardinality(S) \in 0..2
         /\ S # {} => Cardinality(S \ {Min(S)}) = Cardinality(S) - 1
<1>1. /\ Lane = EPOCH5..EPOCH6 /\ EPOCH5 \in Int /\ EPOCH6 \in Int
      /\ ~(EPOCH5 > EPOCH6) /\ EPOCH6 - EPOCH5 + 1 = 2
  BY DEF Lane, EPOCH5, EPOCH6
<1>2. IsFiniteSet(Lane) /\ Cardinality(Lane) = 2
  BY <1>1, FS_Interval
<1>3. IsFiniteSet(S) /\ Cardinality(S) <= 2
  BY <1>2, FS_Subset
<1>4. Cardinality(S) \in 0..2
  BY <1>3, FS_CardinalityType
<1>5. ASSUME S # {}
      PROVE  Cardinality(S \ {Min(S)}) = Cardinality(S) - 1
  BY <1>3, <1>5, MinOfLanes, FS_RemoveElement
<1> QED
  BY <1>4, <1>5

\* What a run has before it is a number, and some while it is in progress.
LEMMA RemainingFacts ==
  ASSUME Invariant, NEW p \in Proc
  PROVE  Remaining(p) \in Nat /\ (InProgress(p) => Remaining(p) > 0)
<1>1. /\ LastExport \in Nat /\ run[p].next \in 1..LastExport + 1
      /\ run[p].pc \in Steps /\ Cardinality(run[p].unread) \in 0..2
  BY RootAssumption, UnreadFacts DEF Invariant, TypeOK, Run
<1>2. run[p].pc \in {"create", "write", "replace", "chmod"} => run[p].next \in Exports
  BY DEF Invariant, Knowledge, Knows, Writing
<1> QED
  BY <1>1, <1>2 DEF Remaining, Steps, Exports, InProgress

\* Every step of a run leaves fewer before it.
LEMMA StepShortens ==
  ASSUME Invariant, NEW p \in Proc, Step(p)
  PROVE  Remaining(p)' < Remaining(p)
<1> DEFINE n == run[p].next
           c == Cardinality(run[p].unread)
<1>1. /\ run \in [Proc -> Run] /\ LastExport \in Nat
      /\ n \in 1..LastExport + 1 /\ run[p].unread \in SUBSET Lane
      /\ c \in 0..2
  BY RootAssumption, UnreadFacts DEF Invariant, TypeOK, Run
<1>2. run[p].pc \in {"create", "write", "replace", "chmod"} => n \in Exports
  BY DEF Invariant, Knowledge, Knows, Writing
<1>3. CASE run'[p] = Idle
  <2>1. Remaining(p)' = 0
    BY <1>3 DEF Remaining, Idle
  <2> QED
    BY <2>1, StepFacts, RemainingFacts DEF Invariant
<1>4. CASE \/ InspectHistory(p) \/ OpenDatabase(p) \/ InitializeDatabase(p)
           \/ Issue(p) \/ Verify(p) \/ Preflight(p)
  <2>1. /\ run'[p].next = n /\ run'[p].unread = run[p].unread
        /\ <<run[p].pc, run'[p].pc>> \in
             {<<"inspect", "list">>, <<"survey", "open">>, <<"open", "initialize">>,
              <<"initialize", "issue">>, <<"issue", "verify">>, <<"verify", "export">>}
    BY <1>1, <1>4 DEF InspectHistory, OpenDatabase, InitializeDatabase, Issue, Verify,
                      Preflight, Goto, Run
  <2> QED
    BY <1>1, <2>1 DEF Remaining
<1>5. CASE ListLedgers(p)
  <2>1. /\ run'[p].next = n /\ run'[p].unread \in SUBSET Lane
        /\ run[p].pc = "list" /\ run'[p].pc = "survey"
    BY <1>1, <1>5 DEF ListLedgers, Run
  <2>2. Cardinality(run'[p].unread) \in 0..2
    BY <2>1, UnreadFacts
  <2> QED
    BY <1>1, <2>1, <2>2 DEF Remaining
<1>6. CASE SurveyLedger(p)
  <2>1. /\ run'[p].next = n /\ run[p].unread # {}
        /\ run'[p].unread = run[p].unread \ {Min(run[p].unread)}
        /\ run[p].pc = "survey" /\ run'[p].pc = "survey"
    BY <1>1, <1>6 DEF SurveyLedger, Run
  <2>2. Cardinality(run'[p].unread) = c - 1
    BY <1>1, <2>1, UnreadFacts
  <2> QED
    BY <1>1, <2>1, <2>2 DEF Remaining
<1>7. CASE \/ ExportIsThere(p) \/ ExportIsMissing(p) \/ CreateTemporary(p)
           \/ WriteTemporary(p) \/ Publish(p) \/ SetMode(p)
  <2>1. run'[p].unread = run[p].unread
    BY <1>1, <1>7 DEF ExportIsThere, ExportIsMissing, CreateTemporary, WriteTemporary,
                      Publish, SetMode, Goto, Run
  <2>2. \/ /\ run[p].pc \in {"export", "chmod"} /\ run'[p].pc = "export"
           /\ run'[p].next = n + 1
        \/ /\ run'[p].next = n
           /\ <<run[p].pc, run'[p].pc>> \in
                {<<"export", "create">>, <<"create", "write">>, <<"write", "replace">>,
                 <<"replace", "chmod">>}
    BY <1>1, <1>7 DEF ExportIsThere, ExportIsMissing, CreateTemporary, WriteTemporary,
                      Publish, SetMode, Goto, Run
  <2> QED
    BY <1>1, <2>1, <2>2 DEF Remaining
<1>8. CASE WriteFails(p) \/ Report(p) \/ Refuses(p)
  BY <1>1, <1>3, <1>8 DEF WriteFails, Report, Refuses, Refuse, InspectHistoryRefuses,
     PreflightRefuses, IssueRefuses, ExportConflicts, CreateTemporaryFails
<1> QED
  BY <1>4, <1>5, <1>6, <1>7, <1>8 DEF Step

\* Every step of a run shortens it, so that a run takes no more steps than
\* Remaining says at its start, 5 * LastExport + 10, however many others change
\* the root meanwhile.
THEOREM RunsAlwaysShorten == Spec => RunsShorten
<1> DEFINE Natural == \A p \in Proc : Remaining(p) \in Nat
           Shorter == \A p \in Proc : Step(p) => Remaining(p)' \in 0..Remaining(p) - 1
<1>1. Invariant => Natural
  BY RemainingFacts
<1>2. Invariant /\ Natural /\ Natural' => [Shorter]_vars
  BY StepShortens
<1>3. [][Shorter]_vars => RunsShorten
  BY DEF RunsShorten
<1> QED
  BY <1>1, <1>2, <1>3, InvariantHolds, PTL
-----------------------------------------------------------------------------
(* The lanes do not touch each other                                       *)

\* What a lane keeps in the root.
LaneStays(l) ==
  /\ database'[l] = database[l]
  /\ issuances'[l] = issuances[l]
  /\ \A f \in File : f[1] = l => file'[f] = file[f] /\ tmp'[f] = tmp[f]

\* A step of a run of one lane leaves all that is the other's as it was.
LEMMA StepKeepsToItsLane ==
  ASSUME Invariant, NEW p \in Proc, Step(p), NEW m \in Lane, run[p].lane # m
  PROVE  LaneStays(m)
<1> DEFINE f == NextFile(p)
<1>0. /\ TypeOK
      /\ f[1] # m
  BY DEF Invariant, NextFile
<1>1. CASE UNCHANGED root
  BY <1>1 DEF root, LaneStays
<1>2. CASE OpenDatabase(p) \/ InitializeDatabase(p)
  BY <1>0, <1>2 DEF OpenDatabase, InitializeDatabase, TypeOK, LaneStays
<1>3. CASE Issue(p)
  BY <1>0, <1>3 DEF Issue, TypeOK, LaneStays
<1>4. CASE CreateTemporary(p) \/ Publish(p)
  BY <1>0, <1>4 DEF CreateTemporary, Publish, TypeOK, LaneStays
<1>5. CASE WriteTemporary(p) \/ WriteFails(p)
  <2>1. PICK c \in Content \ {None} :
          /\ file' = Settle(file, p, c)
          /\ \/ tmp' = Settle(tmp, p, c)
             \/ tmp' = [Settle(tmp, p, c) EXCEPT ![f] = None]
    <3>1. CASE WriteTemporary(p)
      <4>1. run[p].row \in Content \ {None}
        BY <3>1, WritingFacts DEF WriteTemporary, Writing, Content
      <4> QED
        BY <3>1, <4>1 DEF WriteTemporary
    <3>2. CASE WriteFails(p)
      <4>1. Torn \in Content \ {None}
        BY RootAssumption DEF Content
      <4> QED
        BY <3>2, <4>1 DEF WriteFails, CleanUp
    <3> QED
      BY <1>5, <3>1, <3>2
  <2>2. ASSUME NEW e \in File, e # f
        PROVE  file'[e] = file[e] /\ tmp'[e] = tmp[e]
    BY <2>1, <2>2, SettleFacts
  <2>3. database' = database /\ issuances' = issuances
    BY <1>5 DEF WriteTemporary, WriteFails, CleanUp
  <2> QED
    BY <1>0, <2>2, <2>3 DEF LaneStays
<1>6. CASE ~OpenDatabase(p) /\ ~InitializeDatabase(p) /\ ~Issue(p)
           /\ ~CreateTemporary(p) /\ ~Publish(p)
           /\ ~WriteTemporary(p) /\ ~WriteFails(p)
  BY <1>1, <1>6 DEF Step, Refuses, Refuse, InspectHistory, ListLedgers,
     SurveyLedger, Preflight, Verify, ExportIsThere, ExportIsMissing, SetMode, Report,
     InspectHistoryRefuses, PreflightRefuses, IssueRefuses, ExportConflicts,
     CreateTemporaryFails
<1> QED
  BY <1>2, <1>3, <1>4, <1>5, <1>6

\* No two preparations have one identity, so a rebind does not reopen a lane
\* that one has closed.
LEMMA SupersededStays ==
  ASSUME TypeOK, Superseded
  PROVE  /\ BoundIdentity # EPOCH5_IDENTITY
         /\ binding' = binding \/ binding' = binding + 1 => Superseded'
<1>1. binding \in DOMAIN Preparations /\ DOMAIN Preparations = 1..Len(Preparations)
      /\ Len(Preparations) \in Nat
  BY RootAssumption DEF TypeOK
<1>2. PICK n \in 1..binding - 1 : Preparations[n] = EPOCH5_IDENTITY
  BY DEF Superseded
<1>3. n \in DOMAIN Preparations /\ n # binding /\ binding \in Nat
  BY <1>1, <1>2
<1>4. BoundIdentity # EPOCH5_IDENTITY
  BY <1>1, <1>2, <1>3, RootAssumption DEF BoundIdentity
<1>5. binding' = binding \/ binding' = binding + 1 => n \in 1..binding' - 1
  BY <1>2, <1>3
<1> QED
  BY <1>2, <1>4, <1>5 DEF Superseded

\* Once the epoch-5 script is superseded and its last run has ended, its ledger
\* and its files stay as they are, however many runs, crashes and rebinds follow.
THEOREM SupersededLaneStaysHistorical == Spec => SupersededLaneIsHistorical
<1> DEFINE Closed == Superseded /\ Quiet(EPOCH5)
<1>1. Invariant /\ [Next]_vars =>
        (Closed => Superseded' /\ Quiet(EPOCH5)' /\ LaneStays(EPOCH5))
  <2> SUFFICES ASSUME Invariant, [Next]_vars, Superseded, Quiet(EPOCH5)
               PROVE  Superseded' /\ Quiet(EPOCH5)' /\ LaneStays(EPOCH5)
    OBVIOUS
  <2>0. TypeOK /\ EPOCH5 \in Lane /\ None # EPOCH5
    BY RootAssumption DEF Invariant, Lane
  <2>1. BoundIdentity # EPOCH5_IDENTITY
    BY <2>0, SupersededStays
  <2>2. CASE UNCHANGED vars
    BY <2>2 DEF vars, Superseded, Quiet, LaneStays
  <2>3. CASE Rebind
    <3>1. Superseded'
      BY <2>0, <2>3, SupersededStays DEF Rebind
    <3> QED
      BY <2>3, <3>1 DEF Rebind, root, Quiet, LaneStays
  <2>4. ASSUME NEW p \in Proc, NEW l \in Lane, NEW t \in IssuedAt, Start(p, l, t)
        PROVE  Superseded' /\ Quiet(EPOCH5)' /\ LaneStays(EPOCH5)
    <3>1. l # EPOCH5
      BY <2>1, <2>4 DEF Start, NotSuperseded
    <3>2. run'[p].lane = l /\ OthersUntouched(p)
      BY <2>0, <2>4 DEF Start, TypeOK, Idle, OthersUntouched
    <3>3. Quiet(EPOCH5)'
      BY <3>1, <3>2 DEF Quiet, OthersUntouched
    <3> QED
      BY <2>4, <3>3 DEF Start, root, Superseded, LaneStays
  <2>5. ASSUME NEW p \in Proc, Crash(p)
        PROVE  Superseded' /\ Quiet(EPOCH5)' /\ LaneStays(EPOCH5)
    <3>1. run'[p].lane = None /\ OthersUntouched(p)
      BY <2>0, <2>5 DEF Crash, TypeOK, Idle, OthersUntouched
    <3>2. Quiet(EPOCH5)'
      BY <2>0, <3>1 DEF Quiet, OthersUntouched
    <3>3. ASSUME NEW f \in File, f[1] = EPOCH5
          PROVE  file'[f] = file[f] /\ tmp'[f] = tmp[f]
      <4>1. Torn \in Content \ {None}
        BY RootAssumption DEF Content
      <4>2. NextFile(p) # f
        BY <3>3 DEF NextFile, Quiet
      <4> QED
        BY <2>5, <4>1, <4>2, SettleFacts DEF Crash
    <3> QED
      BY <2>5, <3>2, <3>3 DEF Crash, Superseded, LaneStays
  <2>6. ASSUME NEW p \in Proc, Step(p)
        PROVE  Superseded' /\ Quiet(EPOCH5)' /\ LaneStays(EPOCH5)
    <3>1. /\ OthersUntouched(p) /\ binding' = binding
          /\ run'[p] = Idle \/ run'[p].lane = run[p].lane
      BY <2>0, <2>6, StepFacts
    <3>2. LaneStays(EPOCH5)
      BY <2>0, <2>6, StepKeepsToItsLane DEF Quiet
    <3>3. Quiet(EPOCH5)'
      BY <2>0, <3>1 DEF Quiet, OthersUntouched, Idle
    <3> QED
      BY <3>1, <3>2, <3>3 DEF Superseded
  <2> QED
    BY <2>2, <2>3, <2>4, <2>5, <2>6 DEF Next
<1> QED
  BY <1>1, InvariantHolds, PTL DEF Spec, SupersededLaneIsHistorical, LaneStays
=============================================================================
