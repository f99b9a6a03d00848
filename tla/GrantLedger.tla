----------------------------- MODULE GrantLedger -----------------------------
(***************************************************************************)
(* What one issuance database promises, with no processes, locks or        *)
(* transactions: it comes to belong to one authority configuration, its    *)
(* history only grows, by one grant at a time with the next serial and a   *)
(* request id never used before, no two Ink grants are ever valid at the   *)
(* same instant, and a caller is only ever handed a grant of that history. *)
(***************************************************************************)
EXTENDS IssuancePolicy

CONSTANTS
  RequestId,   \* request ids callers may use
  Requests,    \* the contents they may ask for
  Metadata,    \* authority configurations a database may come to belong to
  None         \* no configuration yet

VARIABLES
  metadata,    \* the configuration the database belongs to, or None
  issuances,   \* the set of committed grants
  answers      \* the grants callers were handed, and what they had asked for

vars == <<metadata, issuances, answers>>

NextSerial == Max({0} \cup {g.serial : g \in issuances}) + 1

Init ==
  /\ metadata = None
  /\ issuances = {}
  /\ answers = {}

\* The database comes to belong to the first configuration that opens it.
Configure(m) ==
  /\ metadata = None
  /\ metadata' = m
  /\ UNCHANGED <<issuances, answers>>

\* A new grant enters the history.
Grant(rid, r) ==
  /\ metadata # None
  /\ \A g \in issuances : g.rid # rid
  /\ IsInk(r) => \A g \in issuances : IsInk(g.request) => ~Overlap(g.request, r)
  /\ issuances' = issuances \cup
       {[rid |-> rid, request |-> r, serial |-> NextSerial, metadata |-> metadata]}
  /\ UNCHANGED <<metadata, answers>>

\* A caller is handed the committed grant of exactly what it asked for.
Answer(g) ==
  /\ answers' = answers \cup
       {[rid |-> g.rid, request |-> g.request, grant |-> g]}
  /\ UNCHANGED <<metadata, issuances>>

Next ==
  \/ \E m \in Metadata : Configure(m)
  \/ \E rid \in RequestId, r \in Requests : Grant(rid, r)
  \/ \E g \in issuances : Answer(g)

Spec == Init /\ [][Next]_vars
=============================================================================
