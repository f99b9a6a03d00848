---------------------- MODULE ProductionRootExportProofs ----------------------
(***************************************************************************)
(* Theorems about the files that the runs of ProductionRoot export.  What  *)
(* an export holds once runs have written it is the content of a committed *)
(* grant, unless three runs meet at one export: one whose os.chmod fails   *)
(* after it has published the export unlinks the temporary file of a       *)
(* second, a third creates it anew, and the second publishes what the      *)
(* third has not written yet (CrowdedCleanUp).  Two runs never come to     *)
(* that.                                                                   *)
(***************************************************************************)
EXTENDS ProductionRootProofs

\* The clean-up of a run that has published its export meets a run that is
\* writing the same one and a run that is about to create the temporary file.
CrowdedCleanUp ==
  \E p, q, r \in Proc :
    /\ run[p].pc = "chmod" /\ WriteFails(p)
    /\ Writes(q) /\ NextFile(q) = NextFile(p)
    /\ run[r].pc = "create" /\ NextFile(r) = NextFile(p)

\* The run has lost its temporary file, the export is there, and nobody else
\* will create a temporary file for it.
Lost(p) ==
  /\ tmp[NextFile(p)] = None /\ file[NextFile(p)] # None
  /\ \A q \in Proc \ {p} :
       Writes(q) \/ run[q].pc = "create" => NextFile(q) # NextFile(p)

Held == \A p \in Proc : Writes(p) => Owns(p) \/ Lost(p)

\* No export is open or torn.
Whole == \A f \in File : file[f] \in Row \cup {None}

-----------------------------------------------------------------------------
(* Whole exports                                                           *)

\* What is under the temporary name of a run that writes is not another's.
LEMMA HeldFacts ==
  ASSUME Invariant, Held, NEW p \in Proc, Writes(p)
  PROVE  /\ NextFile(p) \in File
         /\ Own(p) # None
         /\ \A q \in Proc \ {p} : tmp[NextFile(p)] # q
         /\ \A q \in Proc \ {p} : Writes(q) => NextFile(q) # NextFile(p)
<1>1. NextFile(p) \in File /\ run[p].row \in Row /\ run[p].row # None
  BY WritingFacts DEF Writes, Writing
<1>2. Own(p) # None /\ \A q \in Proc \ {p} : Own(p) # q
  BY <1>1, ProcFacts DEF Own
<1>3. Owns(p) \/ Lost(p)
  BY DEF Held
<1> QED
  BY <1>1, <1>2, <1>3, ProcFacts DEF Owns, Lost

\* A run that ends to write, or does not write, and disturbs no one who does.
LEMMA OthersHold ==
  ASSUME Invariant, Held, NEW p \in Proc, OthersUntouched(p), ~Writes(p)',
         run'[p].pc = "create" => file'[NextFile(p)'] = None,
         NEW q \in Proc \ {p}, Writes(q),
         file[NextFile(q)] # None => file'[NextFile(q)] # None,
         \/ tmp'[NextFile(q)] = tmp[NextFile(q)]
         \/ /\ tmp'[NextFile(q)] = None /\ file'[NextFile(q)] # None
            /\ \A r \in Proc \ {p, q} : run[r].pc = "create" => NextFile(r) # NextFile(q)
  PROVE  Owns(q)' \/ Lost(q)'
<1> DEFINE f == NextFile(q)
<1>1. run'[q] = run[q] /\ f' = f /\ Own(q)' = Own(q)
  BY DEF OthersUntouched, NextFile, Own
<1>2. \A r \in Proc \ {p} : /\ Writes(r)' <=> Writes(r)
                           /\ NextFile(r)' = NextFile(r) /\ run'[r].pc = run[r].pc
  BY DEF OthersUntouched, NextFile, Writes
<1>3. \A r \in Proc \ {q} : Writes(r)' => NextFile(r)' # f
  BY <1>2, HeldFacts
<1>4. Owns(q) \/ Lost(q)
  BY DEF Held
<1>5. CASE Owns(q) /\ tmp'[f] = tmp[f]
  BY <1>1, <1>3, <1>5 DEF Owns
<1>6. CASE Lost(q) /\ tmp'[f] = tmp[f]
  <2>1. tmp'[f] = None /\ file'[f] # None
    BY <1>6 DEF Lost
  <2>2. \A r \in Proc \ {q} : run'[r].pc = "create" => NextFile(r)' # f
    BY <1>2, <1>6, <2>1 DEF Lost
  <2> QED
    BY <1>1, <1>3, <2>1, <2>2 DEF Lost
<1>7. CASE /\ tmp'[f] = None /\ file'[f] # None
           /\ \A r \in Proc \ {p, q} : run[r].pc = "create" => NextFile(r) # f
  <2>1. \A r \in Proc \ {q} : run'[r].pc = "create" => NextFile(r)' # f
    BY <1>2, <1>7
  <2> QED
    BY <1>1, <1>3, <1>7, <2>1 DEF Lost
<1> QED
  BY <1>4, <1>5, <1>6, <1>7

\* A temporary name is free for one run only.
LEMMA CreateTemporaryHolds ==
  ASSUME Invariant, Held, NEW p \in Proc, OthersUntouched(p), CreateTemporary(p)
  PROVE  Held'
<1> DEFINE f == NextFile(p)
<1>1. /\ f \in File /\ tmp[f] = None /\ tmp'[f] = p /\ file' = file
      /\ \A e \in File \ {f} : tmp'[e] = tmp[e]
      /\ run[p].pc = "create" /\ run'[p].pc = "write" /\ f' = f
  <2>1. f \in File
    BY WritingFacts DEF CreateTemporary, Writing
  <2> QED
    BY <2>1 DEF CreateTemporary, Goto, NextFile, Invariant, TypeOK, Run
<1>2. \A q \in Proc \ {p} :
        /\ Writes(q)' <=> Writes(q)
        /\ NextFile(q)' = NextFile(q) /\ Own(q)' = Own(q) /\ run'[q] = run[q]
  BY DEF OthersUntouched, Writes, NextFile, Own
<1>3. \A q \in Proc \ {p} : Writes(q) => NextFile(q) # f
  BY <1>1, HeldFacts DEF Held, Owns, Lost
<1>4. Owns(p)'
  BY <1>1, <1>2, <1>3 DEF Owns, Own
<1>5. ASSUME NEW q \in Proc \ {p}, Writes(q)
      PROVE  Owns(q)' \/ Lost(q)'
  <2>1. NextFile(q) \in File /\ NextFile(q) # f /\ (Owns(q) \/ Lost(q))
    BY <1>3, <1>5, HeldFacts DEF Held
  <2>2. tmp'[NextFile(q)] = tmp[NextFile(q)]
    BY <1>1, <2>1
  <2>3. CASE Owns(q)
    BY <1>1, <1>2, <2>1, <2>2, <2>3 DEF Owns
  <2>4. CASE Lost(q)
    BY <1>1, <1>2, <2>1, <2>2, <2>4 DEF Lost
  <2> QED
    BY <2>1, <2>3, <2>4
<1> QED
  BY <1>2, <1>4, <1>5 DEF Held

\* A run fills its own file, or a file that is not there any more.
LEMMA WriteTemporaryHolds ==
  ASSUME Invariant, Held, Whole, NEW p \in Proc, OthersUntouched(p), WriteTemporary(p)
  PROVE  Held'
<1>1. /\ run[p].pc = "write" /\ run'[p].pc = "replace" /\ NextFile(p)' = NextFile(p)
      /\ run'[p].row = run[p].row /\ Writes(p)
      /\ tmp' = Settle(tmp, p, run[p].row)
  BY DEF WriteTemporary, Goto, NextFile, Invariant, TypeOK, Run, Writes
<1>2. file' = file \/ \A f \in File : file'[f] = file[f]
  BY ClosingFacts, ProcFacts DEF Whole
<1>3. \A q \in Proc : /\ Writes(q)' <=> Writes(q)
                      /\ NextFile(q)' = NextFile(q)
                      /\ run'[q].pc = "create" <=> run[q].pc = "create"
  BY <1>1 DEF OthersUntouched, Writes, NextFile
<1>4. ASSUME NEW q \in Proc, Writes(q)
      PROVE  Owns(q)' \/ Lost(q)'
  <2> DEFINE f == NextFile(q)
  <2>1. f \in File /\ (Owns(q) \/ Lost(q)) /\ file'[f] = file[f]
    BY <1>2, <1>4, HeldFacts DEF Held
  <2>2. CASE Owns(q)
    <3>1. CASE q = p
      <4>1. tmp'[f] = run[p].row
        BY <1>1, <2>1, <2>2, <3>1 DEF Owns, Own, Settle
      <4> QED
        BY <1>1, <1>3, <2>2, <3>1, <4>1 DEF Owns, Own
    <3>2. CASE q # p
      <4>1. tmp'[f] = tmp[f]
        BY <1>1, <1>4, <2>1, <3>2, HeldFacts DEF Settle
      <4>2. Own(q)' = Own(q)
        BY <3>2 DEF OthersUntouched, Own
      <4> QED
        BY <1>3, <2>2, <4>1, <4>2 DEF Owns
    <3> QED
      BY <3>1, <3>2
  <2>3. CASE Lost(q)
    <3>1. tmp'[f] = None
      BY <1>1, <2>1, <2>3, ProcFacts DEF Lost, Settle
    <3> QED
      BY <1>3, <2>1, <2>3, <3>1 DEF Lost
  <2> QED
    BY <2>1, <2>2, <2>3
<1> QED
  BY <1>3, <1>4 DEF Held

\* What a run publishes is its own.
LEMMA PublishHolds ==
  ASSUME Invariant, Held, Whole, NEW p \in Proc, OthersUntouched(p), Publish(p)
  PROVE  Held' /\ Whole'
<1> DEFINE f == NextFile(p)
<1>1. /\ f \in File /\ tmp[f] # None /\ Writes(p) /\ run[p].pc = "replace"
      /\ file'[f] = tmp[f] /\ tmp'[f] = None
      /\ \A e \in File \ {f} : file'[e] = file[e] /\ tmp'[e] = tmp[e]
      /\ run'[p].pc = "chmod" /\ run[p].row \in Row
  <2>1. f \in File /\ run[p].row \in Row
    BY WritingFacts DEF Publish, Writing
  <2> QED
    BY <2>1 DEF Publish, Goto, Invariant, TypeOK, Writes
<1>2. Owns(p)
  BY <1>1 DEF Held, Lost
<1>3. Whole'
  BY <1>1, <1>2 DEF Whole, Owns, Own
<1>4. ~Writes(p)' /\ run'[p].pc # "create"
  BY <1>1 DEF Writes
<1>5. ASSUME NEW q \in Proc \ {p}, Writes(q)
      PROVE  Owns(q)' \/ Lost(q)'
  <2>1. NextFile(q) \in File /\ NextFile(q) # f
    BY <1>2, <1>5, HeldFacts DEF Owns
  <2>2. file'[NextFile(q)] = file[NextFile(q)] /\ tmp'[NextFile(q)] = tmp[NextFile(q)]
    BY <1>1, <2>1
  <2> QED
    BY <1>4, <1>5, <2>2, OthersHold
<1>6. \A q \in Proc \ {p} : Writes(q)' <=> Writes(q)
  BY DEF OthersUntouched, Writes
<1> QED
  BY <1>3, <1>4, <1>5, <1>6 DEF Held

\* A run that fails or dies may take another's temporary file with it, after the
\* export is there; then nobody is about to create that file again.
LEMMA StopHolds ==
  ASSUME Invariant, Held, NEW p \in Proc, OthersUntouched(p),
         WriteFails(p) \/ Crash(p), ~CrowdedCleanUp
  PROVE  Held'
<1>1. ~Writes(p)' /\ run'[p].pc # "create"
  BY DEF WriteFails, Crash, Idle, Writes, Invariant, TypeOK
<1>2. ASSUME NEW q \in Proc \ {p}, Writes(q)
      PROVE  Owns(q)' \/ Lost(q)'
  <2> DEFINE f == NextFile(q)
  <2>1. f \in File /\ tmp[f] # p
    BY <1>2, HeldFacts
  <2>2. file'[f] = None <=> file[f] = None
    BY <2>1, ClosingFacts
  <2>3. CASE tmp'[f] = tmp[f]
    BY <1>1, <1>2, <2>2, <2>3, OthersHold
  <2>4. CASE WriteFails(p) /\ f = NextFile(p) /\ tmp'[f] = None
    <3>1. ~Writes(p)
      BY <1>2, <2>4, HeldFacts
    <3>2. run[p].pc = "chmod"
      BY <2>4, <3>1 DEF WriteFails, CleanUp, Writes
    <3>3. file[f] # None
      BY <2>4, <3>2 DEF Invariant, Knowledge, Knows, NextFile
    <3>4. \A r \in Proc : run[r].pc = "create" => NextFile(r) # f
      BY <1>2, <2>4, <3>2 DEF CrowdedCleanUp
    <3> QED
      BY <1>1, <1>2, <2>2, <2>4, <3>3, <3>4, OthersHold
  <2> QED
    BY <2>1, <2>3, <2>4, ClosingFacts
<1>3. \A q \in Proc \ {p} : Writes(q)' <=> Writes(q)
  BY DEF OthersUntouched, Writes
<1> QED
  BY <1>1, <1>2, <1>3 DEF Held

\* Every step keeps the exports whole that is not such a clean-up.
LEMMA WholeNext ==
  ASSUME Invariant, Held, Whole, [Next]_vars, [~CrowdedCleanUp]_vars
  PROVE  Held' /\ Whole'
<1>1. CASE UNCHANGED <<file, tmp>> /\ \A p \in Proc : run'[p] = run[p]
  BY <1>1 DEF Held, Whole, Owns, Lost, Own, Writes, NextFile
<1>2. ASSUME NEW p \in Proc, OthersUntouched(p), CreateTemporary(p)
      PROVE  Held' /\ Whole'
  BY <1>2, CreateTemporaryHolds DEF CreateTemporary, Whole
<1>3. ASSUME NEW p \in Proc, WriteTemporary(p) \/ WriteFails(p) \/ Crash(p)
      PROVE  Whole'
  BY <1>3, ClosingFacts, ProcFacts DEF Whole
<1>4. ASSUME NEW p \in Proc, OthersUntouched(p), WriteTemporary(p)
      PROVE  Held' /\ Whole'
  BY <1>3, <1>4, WriteTemporaryHolds
<1>5. ASSUME NEW p \in Proc, OthersUntouched(p), Publish(p)
      PROVE  Held' /\ Whole'
  BY <1>5, PublishHolds
<1>6. ASSUME NEW p \in Proc, OthersUntouched(p), WriteFails(p) \/ Crash(p)
      PROVE  Held' /\ Whole'
  <2>1. run' # run
    BY <1>6 DEF WriteFails, CleanUp, Crash, Idle, Invariant, TypeOK
  <2>2. ~CrowdedCleanUp
    BY <2>1 DEF vars
  <2> QED
    BY <1>3, <1>6, <2>2, StopHolds
<1>7. ASSUME NEW p \in Proc, OthersUntouched(p), UNCHANGED <<file, tmp>>,
             ~Writes(p), ~Writes(p)',
             run'[p].pc = "create" => file[NextFile(p)'] = None
      PROVE  Held' /\ Whole'
  <2>1. \A q \in Proc \ {p} : Writes(q)' <=> Writes(q)
    BY <1>7 DEF OthersUntouched, Writes
  <2>2. ASSUME NEW q \in Proc \ {p}, Writes(q)
        PROVE  Owns(q)' \/ Lost(q)'
    BY <1>7, <2>2, OthersHold
  <2> QED
    BY <1>7, <2>1, <2>2 DEF Held, Whole
<1> QED
  BY <1>1, <1>2, <1>4, <1>5, <1>6, <1>7, FileActions

\* Unless three runs meet at one export in that way, no export is ever torn.
THEOREM ExportsStayWhole == Spec /\ [][~CrowdedCleanUp]_vars => []Whole
<1>1. Init => Held /\ Whole
  BY DEF Init, Idle, Held, Whole, Writes
<1>2. Invariant /\ Held /\ Whole /\ [Next]_vars /\ [~CrowdedCleanUp]_vars
        => Held' /\ Whole'
  BY WholeNext
<1> QED
  BY <1>1, <1>2, InvariantHolds, PTL DEF Spec

\* Two runs do not meet in that way.
LEMMA TwoRunsAreNoCrowd ==
  ASSUME NEW a, NEW b, Proc \subseteq {a, b}
  PROVE  ~CrowdedCleanUp
<1> SUFFICES ASSUME CrowdedCleanUp
             PROVE  FALSE
  OBVIOUS
<1>1. PICK p, q, r \in Proc :
        run[p].pc = "chmod" /\ Writes(q) /\ run[r].pc = "create"
  BY DEF CrowdedCleanUp
<1>2. p # q /\ q # r /\ p # r
  BY <1>1 DEF Writes
<1> QED
  BY <1>2

-----------------------------------------------------------------------------
(* What is exported                                                        *)

\* A file of the epoch-6 lane is made from the one row of its issue time.
LEMMA SuccessorFileIsItsRows ==
  ASSUME Invariant, Whole, NEW f \in File, f[1] = EPOCH6, file[f] # None,
         NEW g \in issuances[EPOCH6], g.request.issuedAt = f[2]
  PROVE  file[f] = g
<1>1. /\ file[f] \in issuances[EPOCH6]
      /\ file[f].request.issuedAt = g.request.issuedAt
  BY DEF Invariant, Entries, Holds, Whole
<1>2. HistoryOf(EPOCH6)
  BY DEF Invariant, History, Lane
<1> QED
  BY <1>1, <1>2 DEF HistoryOf

\* The names of a successor's files are its own.
LEMMA SuccessorFiles ==
  ASSUME Invariant, NEW g \in issuances[EPOCH6], NEW f \in FilesOf(g)
  PROVE  f \in File /\ f[1] = EPOCH6 /\ f[2] = g.request.issuedAt
<1>1. g.metadata.epoch = EPOCH6
  BY DEF Invariant, History, HistoryOf, Lane, MetadataOf
<1> QED
  BY <1>1 DEF FilesOf, Stem, EPOCH5, EPOCH6

\* Whatever the epoch-6 script printed stays committed and exported, unless
\* three runs meet at one of its files.
THEOREM SuccessorReportsStayExported ==
  Spec /\ [][~CrowdedCleanUp]_vars => []SuccessorReportsAreExported
<1>1. Invariant /\ Whole => SuccessorReportsAreExported
  <2> SUFFICES ASSUME Invariant, Whole, NEW g \in ReportsOf(EPOCH6)
               PROVE  /\ g \in issuances[EPOCH6]
                      /\ \A f \in FilesOf(g) : file[f] = g
    BY DEF SuccessorReportsAreExported
  <2>1. /\ g \in issuances[EPOCH6]
        /\ \A f \in FilesOf(g) : file[f] # None
    BY DEF Invariant, Reports, ReportsOf
  <2> QED
    BY <2>1, SuccessorFiles, SuccessorFileIsItsRows
<1> QED
  BY <1>1, InvariantHolds, ExportsStayWhole, PTL

\* Nor is the exact retry of a successor ever refused for a file in place.
THEOREM SuccessorsFindTheirFiles ==
  Spec /\ [][~CrowdedCleanUp]_vars => []ExactRetryFindsItsFiles
<1>1. Invariant /\ Whole => ExactRetryFindsItsFiles
  <2> SUFFICES ASSUME Invariant, Whole, NEW g \in issuances[EPOCH6],
                      NEW f \in FilesOf(g), file[f] # None
               PROVE  file[f] = g
    BY DEF ExactRetryFindsItsFiles
  <2> QED
    BY SuccessorFiles, SuccessorFileIsItsRows
<1> QED
  BY <1>1, InvariantHolds, ExportsStayWhole, PTL

\* No file without its committed row and without the files before it.
THEOREM ExportsStayBehindTheLedger ==
  Spec /\ [][~CrowdedCleanUp]_vars => []ExportsFollowTheLedger
<1>1. Invariant /\ Whole => ExportsFollowTheLedger
  <2> SUFFICES ASSUME Invariant, Whole, NEW f \in File, file[f] # None
               PROVE  /\ file[f] \in issuances[f[1]]
                      /\ \A k \in 1..f[3] : file[<<f[1], f[2], k>>] # None
                      /\ f[1] = EPOCH6 =>
                           /\ file[f].request.issuedAt = f[2]
                           /\ \A k \in 1..f[3] : file[<<f[1], f[2], k>>] = file[f]
    BY DEF ExportsFollowTheLedger
  <2>1. /\ file[f] \in issuances[f[1]]
        /\ \A k \in 1..f[3] : file[<<f[1], f[2], k>>] # None
        /\ f[1] = EPOCH6 => file[f].request.issuedAt = f[2]
    BY DEF Invariant, Published, Entries, Holds, Whole
  <2>2. ASSUME f[1] = EPOCH6, NEW k \in 1..f[3]
        PROVE  file[<<f[1], f[2], k>>] = file[f]
    <3> DEFINE e == <<f[1], f[2], k>>
    <3>1. e \in File /\ e[1] = EPOCH6 /\ e[2] = f[2]
      BY <2>2, FileNames
    <3>2. file[e] # None /\ file[f] \in issuances[EPOCH6]
          /\ file[f].request.issuedAt = e[2]
      BY <2>1, <2>2, <3>1
    <3> QED
      BY <3>1, <3>2, SuccessorFileIsItsRows
  <2> QED
    BY <2>1, <2>2
<1> QED
  BY <1>1, InvariantHolds, ExportsStayWhole, PTL

\* With two runs at most in progress, all of this is so whatever they do.
THEOREM TwoRunsExportSafely ==
  ASSUME NEW a, NEW b, Proc \subseteq {a, b}
  PROVE  Spec => /\ []SuccessorReportsAreExported
                 /\ []ExactRetryFindsItsFiles
                 /\ []ExportsFollowTheLedger
<1>1. [~CrowdedCleanUp]_vars
  BY TwoRunsAreNoCrowd
<1> QED
  BY <1>1, SuccessorReportsStayExported, SuccessorsFindTheirFiles,
     ExportsStayBehindTheLedger, PTL
=============================================================================
