--------------------------- MODULE IssuancePolicy ---------------------------
(***************************************************************************)
(* What may be asked of an authority issuer, and which requests it admits. *)
(*                                                                         *)
(* This module is data and pure predicates: the issuer policy and request  *)
(* of policy.py, the frozen dust envelope of risk.py, the exact reviewed   *)
(* binding of ink_v0f_binding.py and the request builder of                *)
(* ink_v0f_grant.py.  The commit and the implementation digest of QntySpot *)
(* are always compared together, so a pair of them is one "identity".      *)
(* The identity an issuer was built with is the one its checkout of the    *)
(* code names: a rebind replaces it, and nothing else.                     *)
(***************************************************************************)
EXTENDS Integers, FiniteSetsExt

CONSTANTS
  Identity,              \* pairs (QntySpot commit, implementation digest)
  Repository,            \* repository identities a request may name
  Root,                  \* authority root ids
  Taker, Venue, Network, \* exact scopes a request may name
  CANONICAL_REPOSITORY_IDENTITY,
  INK_V0F_AUTHORITY_ROOT_ID,
  INK_V0F_TAKER_ADDRESS,
  INK_V0F_VENUE_ID,
  INK_V0F_NETWORK_ID,
  LEGACY_ROBINHOOD_TESTNET_NETWORK_ID,
  INK_V0F_MAX_ENTRY_ATOMIC,
  INK_V0F_MAX_GRANT_DURATION_S,
  MAX_GRANT_DURATION_S

ASSUME PolicyConstantsAssumption ==
  /\ CANONICAL_REPOSITORY_IDENTITY \in Repository
  /\ INK_V0F_AUTHORITY_ROOT_ID \in Root
  /\ INK_V0F_TAKER_ADDRESS \in Taker
  /\ INK_V0F_VENUE_ID \in Venue
  /\ {INK_V0F_NETWORK_ID, LEGACY_ROBINHOOD_TESTNET_NETWORK_ID} \subseteq Network
  /\ INK_V0F_NETWORK_ID # LEGACY_ROBINHOOD_TESTNET_NETWORK_ID
  /\ INK_V0F_MAX_ENTRY_ATOMIC \in Nat \ {0}
  /\ INK_V0F_MAX_GRANT_DURATION_S \in Nat \ {0}
  /\ MAX_GRANT_DURATION_S \in Nat
  /\ INK_V0F_MAX_GRANT_DURATION_S <= MAX_GRANT_DURATION_S

SUPPORTED_NETWORK_IDS ==
  {LEGACY_ROBINHOOD_TESTNET_NETWORK_ID, INK_V0F_NETWORK_ID}

\* AuthorityLevel: 0 shadow, 1 reconcile only, 2 submit exact signed bytes,
\* 3 human-signed execution, 4 autonomous bounded signer.
AuthorityLevel == 0..4
HUMAN_SIGNED_EXECUTION == 3

-----------------------------------------------------------------------------
(* Requests                                                                *)

\* The part of AuthorityPolicyRefV0 that says what may be done, as opposed
\* to when.
Scope ==
  [root : Root, level : AuthorityLevel, identity : Identity,
   network : Network, taker : Taker, venue : Venue,
   reservation : Nat \ {0}, cumulative : Nat \ {0}]

\* AuthorityIssuanceRequestV0 with the AuthorityPolicyRefV0 it carries: what
\* both constructors accept.
Request ==
  {r \in [repository : Repository, scope : Scope,
          notBefore : Nat, notAfter : Nat, issuedAt : Nat] :
     /\ r.scope.reservation <= r.scope.cumulative
     /\ r.notBefore < r.notAfter}

Duration(r) == r.notAfter - r.notBefore

IsInk(r) == r.scope.network = INK_V0F_NETWORK_ID

\* The half-open validity intervals of two grants share an instant.
Overlap(r, s) ==
  Max({r.notBefore, s.notBefore}) < Min({r.notAfter, s.notAfter})

\* assert_valid_at, and the activity test of the production inspector.
ActiveAt(r, now) == r.notBefore <= now /\ now < r.notAfter

-----------------------------------------------------------------------------
(* Issuer policies                                                         *)

\* AuthorityIssuancePolicyV0.__post_init__: the policies that can be built.
\* A policy names exactly one supported network; an Ink policy names the one
\* reviewed venue and taker and stays inside the dust envelope.
IssuerPolicy ==
  {p \in [root : Root, repository : {CANONICAL_REPOSITORY_IDENTITY},
          level : 0..HUMAN_SIGNED_EXECUTION, network : SUPPORTED_NETWORK_IDS,
          takers : (SUBSET Taker) \ {{}}, venues : (SUBSET Venue) \ {{}},
          reservation : Nat \ {0}, cumulative : Nat \ {0},
          duration : 1..MAX_GRANT_DURATION_S] :
     /\ p.reservation <= p.cumulative
     /\ p.network = INK_V0F_NETWORK_ID =>
          /\ p.venues = {INK_V0F_VENUE_ID}
          /\ p.takers = {INK_V0F_TAKER_ADDRESS}
          /\ p.reservation <= INK_V0F_MAX_ENTRY_ATOMIC
          /\ p.cumulative <= INK_V0F_MAX_ENTRY_ATOMIC
          /\ p.duration <= INK_V0F_MAX_GRANT_DURATION_S}

\* assert_ink_v0f_authority_policy_admissible: the frozen dust envelope.
InsideDustEnvelope(r) ==
  /\ r.repository = CANONICAL_REPOSITORY_IDENTITY
  /\ r.scope.network = INK_V0F_NETWORK_ID
  /\ r.scope.venue = INK_V0F_VENUE_ID
  /\ r.scope.level <= HUMAN_SIGNED_EXECUTION
  /\ r.scope.reservation <= INK_V0F_MAX_ENTRY_ATOMIC
  /\ r.scope.cumulative <= INK_V0F_MAX_ENTRY_ATOMIC
  /\ Duration(r) <= INK_V0F_MAX_GRANT_DURATION_S

\* INK_V0F_GRANT_PREPARATION: the reviewed tuple of a checkout that is bound
\* to the given identity.
GrantPreparation(identity) ==
  [root |-> INK_V0F_AUTHORITY_ROOT_ID, level |-> HUMAN_SIGNED_EXECUTION,
   identity |-> identity, network |-> INK_V0F_NETWORK_ID,
   taker |-> INK_V0F_TAKER_ADDRESS, venue |-> INK_V0F_VENUE_ID,
   reservation |-> INK_V0F_MAX_ENTRY_ATOMIC,
   cumulative |-> INK_V0F_MAX_ENTRY_ATOMIC]

\* Mutant: only the identity is compared.
IdentityBinding(identity, r) ==
  /\ r.scope.identity = identity
  /\ 0 < Duration(r)
  /\ Duration(r) <= INK_V0F_MAX_GRANT_DURATION_S

\* assert_ink_v0f_exact_authority_binding.
ExactBinding(identity, r) ==
  /\ r.scope = GrantPreparation(identity)
  /\ 0 < Duration(r)
  /\ Duration(r) <= INK_V0F_MAX_GRANT_DURATION_S

\* assert_issuance_request_admissible.
Admissible(policy, identity, r) ==
  /\ r.repository = policy.repository
  /\ r.scope.root = policy.root
  /\ r.scope.level <= policy.level
  /\ r.scope.level <= HUMAN_SIGNED_EXECUTION
  /\ r.scope.network \in SUPPORTED_NETWORK_IDS
  /\ r.scope.network = policy.network
  /\ r.scope.taker \in policy.takers
  /\ r.scope.venue \in policy.venues
  /\ r.scope.reservation <= policy.reservation
  /\ r.scope.cumulative <= policy.cumulative
  /\ IsInk(r) => InsideDustEnvelope(r) /\ ExactBinding(identity, r)
  /\ 0 < Duration(r)
  /\ Duration(r) <= MAX_GRANT_DURATION_S
  /\ Duration(r) <= policy.duration
  /\ ActiveAt(r, r.issuedAt)

-----------------------------------------------------------------------------
(* Committed grants, as an issuer i finds them in its database             *)

\* _validate_committed_receipt: the receipt is this root's and this key's,
\* and the stored request is admissible to this issuer now, or is one its
\* historical validator still accepts where that is allowed.
Validates(i, g, allowHistorical) ==
  /\ g.metadata.root = i.policy.root
  /\ g.metadata.key = i.metadata.key
  /\ \/ Admissible(i.policy, i.identity, g.request)
     \/ allowHistorical /\ g.request \in i.historical

\* Mutant: rows that are only historically valid skip the overlap test.
PermitsHistorical(i, g, r) ==
  \/ ~Validates(i, g, FALSE) /\ Validates(i, g, TRUE)
  \/ Validates(i, g, FALSE) /\ (IsInk(g.request) => ~Overlap(g.request, r))

\* A prior row does not stand in the way of request r.
Permits(i, g, r) ==
  /\ Validates(i, g, TRUE)
  /\ IsInk(g.request) => ~Overlap(g.request, r)

-----------------------------------------------------------------------------
(* AuthorityIssuer.issue, for an issuer i that has the database to itself  *)

\* Mutant: the increment is forgotten.
MaxSerialOf(history) == Max({0} \cup {h.serial : h \in history})

\* SELECT COALESCE(MAX(serial), 0) + 1.
SerialAfter(history) == Max({0} \cup {h.serial : h \in history}) + 1

\* The row i adds to the committed rows.
RowAfter(history, i, rid, r) ==
  [rid |-> rid, request |-> r, serial |-> SerialAfter(history),
   metadata |-> i.metadata]

\* With these rows committed, a call for r under rid returns g and leaves it
\* committed.  Where there is no such g the call is refused.
IssuedFrom(history, i, rid, r, g) ==
  LET committed == {h \in history : h.rid = rid}
  IN  /\ Admissible(i.policy, i.identity, r)
      /\ IF committed = {}
           THEN /\ IsInk(r) => \A h \in history : Permits(i, h, r)
                /\ g = RowAfter(history, i, rid, r)
           ELSE g \in committed /\ g.request = r /\ Validates(i, g, FALSE)

-----------------------------------------------------------------------------
(* The one reviewed Ink request shape                                      *)

\* ink_v0f_issuer_policy.
InkIssuerPolicy ==
  [root |-> INK_V0F_AUTHORITY_ROOT_ID,
   repository |-> CANONICAL_REPOSITORY_IDENTITY,
   level |-> HUMAN_SIGNED_EXECUTION, network |-> INK_V0F_NETWORK_ID,
   takers |-> {INK_V0F_TAKER_ADDRESS}, venues |-> {INK_V0F_VENUE_ID},
   reservation |-> INK_V0F_MAX_ENTRY_ATOMIC,
   cumulative |-> INK_V0F_MAX_ENTRY_ATOMIC,
   duration |-> INK_V0F_MAX_GRANT_DURATION_S]

\* build_ink_v0f_request, for a duration the builder accepts
\* (1..INK_V0F_MAX_GRANT_DURATION_S).
BuildInkRequest(identity, issuedAt, duration) ==
  [repository |-> CANONICAL_REPOSITORY_IDENTITY,
   scope |-> GrantPreparation(identity),
   notBefore |-> issuedAt, notAfter |-> issuedAt + duration,
   issuedAt |-> issuedAt]

\* ink_v0f_request_id: the text ink-v0f-<issuedAt>-<duration> determines the
\* pair and is determined by it; the bound identity is no part of it.
InkRequestId(issuedAt, duration) == <<issuedAt, duration>>
=============================================================================
