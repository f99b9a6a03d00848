------------------------- MODULE IssuancePolicyProofs -------------------------
(***************************************************************************)
(* Facts about the operators of IssuancePolicy that the proofs about the   *)
(* issuer and about the production root rest on: what the overlap test of  *)
(* two validity intervals decides, and what COALESCE(MAX(serial), 0) + 1   *)
(* is for a history of consecutive serials.                                *)
(***************************************************************************)
EXTENDS IssuancePolicy, FiniteSetTheorems, TLAPS

\* Two half-open intervals overlap in either order.
LEMMA OverlapSymmetric ==
  ASSUME NEW r, NEW s, ~Overlap(r, s)
  PROVE  ~Overlap(s, r)
<1>1. /\ {r.notBefore, s.notBefore} = {s.notBefore, r.notBefore}
      /\ {r.notAfter, s.notAfter} = {s.notAfter, r.notAfter}
  OBVIOUS
<1> QED
  BY <1>1, Zenon DEF Overlap

\* The larger and the smaller of two numbers.
LEMMA MaxMinOfTwo ==
  \A a, b \in Int :
    /\ Max({a, b}) = IF a >= b THEN a ELSE b
    /\ Min({a, b}) = IF a <= b THEN a ELSE b
<1> TAKE a, b \in Int
<1> DEFINE max == IF a >= b THEN a ELSE b
           min == IF a <= b THEN a ELSE b
<1>1. \A x \in {a, b} : (\A y \in {a, b} : x >= y) <=> x = max
  OBVIOUS
<1>2. \A x \in {a, b} : (\A y \in {a, b} : x <= y) <=> x = min
  OBVIOUS
<1>3. max \in {a, b} /\ min \in {a, b}
  OBVIOUS
<1> HIDE DEF max, min
<1>4. Max({a, b}) = max
  BY <1>1, <1>3, Zenon DEF Max
<1>5. Min({a, b}) = min
  BY <1>2, <1>3, Zenon DEF Min
<1> QED
  BY <1>4, <1>5 DEF max, min

\* The issuer's comparison max(not_before) < min(not_after) finds an overlap
\* exactly when there is a second at which assert_valid_at accepts both grants:
\* adjacent intervals do not overlap, nested and equal ones do.
THEOREM OverlapIsSharedInstant ==
  ASSUME NEW r, NEW s,
         r.notBefore \in Nat, r.notAfter \in Nat, r.notBefore < r.notAfter,
         s.notBefore \in Nat, s.notAfter \in Nat, s.notBefore < s.notAfter
  PROVE  Overlap(r, s) <=> \E now \in Nat : ActiveAt(r, now) /\ ActiveAt(s, now)
<1> DEFINE from  == IF r.notBefore >= s.notBefore THEN r.notBefore ELSE s.notBefore
           until == IF r.notAfter <= s.notAfter THEN r.notAfter ELSE s.notAfter
<1>0. /\ Max({r.notBefore, s.notBefore}) = from
      /\ Min({r.notAfter, s.notAfter}) = until
  <2>1. /\ r.notBefore \in Int /\ s.notBefore \in Int
        /\ r.notAfter \in Int /\ s.notAfter \in Int
    OBVIOUS
  <2> QED
    BY <2>1, MaxMinOfTwo, Zenon
<1>1. Overlap(r, s) <=> from < until
  BY <1>0, Zenon DEF Overlap
<1>2. ASSUME from < until
      PROVE  \E now \in Nat : ActiveAt(r, now) /\ ActiveAt(s, now)
  <2>1. from \in Nat /\ ActiveAt(r, from) /\ ActiveAt(s, from)
    BY <1>2 DEF ActiveAt
  <2> QED
    BY <2>1
<1>3. ASSUME NEW now \in Nat, ActiveAt(r, now), ActiveAt(s, now)
      PROVE  from < until
  BY <1>3 DEF ActiveAt
<1> QED
  BY <1>1, <1>2, <1>3

\* One more than the largest serial of a history of serials 1, 2, ..., n is
\* n + 1, and 1 for the empty history.
LEMMA NextOfContiguous ==
  ASSUME NEW S, IsFiniteSet(S), {g.serial : g \in S} = 1..Cardinality(S)
  PROVE  /\ Cardinality(S) \in Nat
         /\ Max({0} \cup {g.serial : g \in S}) + 1 = Cardinality(S) + 1
<1> DEFINE n == Cardinality(S)
<1>1. n \in Nat
  BY FS_CardinalityType
<1>2. {0} \cup {g.serial : g \in S} = 0..n
  BY <1>1
<1>3. n \in 0..n /\ \A k \in 0..n : n >= k
  BY <1>1
<1>4. \A m \in 0..n : (\A k \in 0..n : m >= k) => m = n
  BY <1>1
<1>5. Max(0..n) = n
  BY <1>3, <1>4 DEF Max
<1> QED
  BY <1>1, <1>2, <1>5

-----------------------------------------------------------------------------
(* What the policies admit                                                 *)

\* No policy that can be built admits an Ink request that the reviewed Ink
\* policy does not: takers, venues and ceilings of a policy of its own only ever
\* narrow what the dust envelope and the exact binding allow.
THEOREM ReviewedPolicyIsWidest ==
  ASSUME NEW p \in IssuerPolicy, NEW i, NEW r \in Request, IsInk(r),
         Admissible(p, i, r)
  PROVE  Admissible(InkIssuerPolicy, i, r)
<1>1. /\ r.scope = GrantPreparation(i)
      /\ 0 < Duration(r) /\ Duration(r) <= INK_V0F_MAX_GRANT_DURATION_S
      /\ Duration(r) <= MAX_GRANT_DURATION_S
      /\ ActiveAt(r, r.issuedAt) /\ InsideDustEnvelope(r) /\ ExactBinding(i, r)
  BY DEF Admissible, ExactBinding
<1>2. r.repository = CANONICAL_REPOSITORY_IDENTITY
  BY <1>1 DEF InsideDustEnvelope
<1>3. /\ HUMAN_SIGNED_EXECUTION <= HUMAN_SIGNED_EXECUTION
      /\ INK_V0F_MAX_ENTRY_ATOMIC <= INK_V0F_MAX_ENTRY_ATOMIC
  BY PolicyConstantsAssumption DEF HUMAN_SIGNED_EXECUTION
<1> QED
  BY <1>1, <1>2, <1>3 DEF Admissible, InkIssuerPolicy, GrantPreparation,
                          SUPPORTED_NETWORK_IDS

\* Whatever policy an issuer was built with, an Ink request it admits is one that
\* build_ink_v0f_request builds for its checkout, but for an issue time that may
\* be any second of the interval.
THEOREM InkRequestsHaveOneShape ==
  ASSUME NEW p \in IssuerPolicy, NEW i, NEW r \in Request, IsInk(r),
         Admissible(p, i, r)
  PROVE  \E d \in 1..INK_V0F_MAX_GRANT_DURATION_S :
           /\ r = [BuildInkRequest(i, r.notBefore, d) EXCEPT !.issuedAt = r.issuedAt]
           /\ r.issuedAt \in r.notBefore..r.notBefore + d - 1
<1> DEFINE d == Duration(r)
<1>1. /\ r \in [repository : Repository, scope : Scope,
                notBefore : Nat, notAfter : Nat, issuedAt : Nat]
      /\ INK_V0F_MAX_GRANT_DURATION_S \in Nat
  BY PolicyConstantsAssumption DEF Request
<1>2. /\ r.repository = CANONICAL_REPOSITORY_IDENTITY
      /\ r.scope = GrantPreparation(i)
      /\ 0 < d /\ d <= INK_V0F_MAX_GRANT_DURATION_S
      /\ r.notBefore <= r.issuedAt /\ r.issuedAt < r.notAfter
  BY DEF Admissible, ExactBinding, InsideDustEnvelope, ActiveAt
<1>3. d \in 1..INK_V0F_MAX_GRANT_DURATION_S /\ r.notAfter = r.notBefore + d
  BY <1>1, <1>2 DEF Duration
<1>4. r.issuedAt \in r.notBefore..r.notBefore + d - 1
  BY <1>1, <1>2, <1>3
<1> HIDE DEF d
<1>5. r = [BuildInkRequest(i, r.notBefore, d) EXCEPT !.issuedAt = r.issuedAt]
  <2>1. r = [repository |-> r.repository, scope |-> r.scope,
             notBefore |-> r.notBefore, notAfter |-> r.notAfter,
             issuedAt |-> r.issuedAt]
    BY <1>1
  <2> QED
    BY <1>2, <1>3, <2>1 DEF BuildInkRequest
<1> QED
  BY <1>3, <1>4, <1>5

\* The reviewed Ink policy admits what the builder builds for the identity of its
\* checkout, and nothing of what it builds for another: a rebind revokes all the
\* requests of the identity before it.
THEOREM BuiltRequestsAreOwn ==
  ASSUME NEW i, NEW j, NEW t \in Nat, NEW d \in 1..INK_V0F_MAX_GRANT_DURATION_S
  PROVE  Admissible(InkIssuerPolicy, j, BuildInkRequest(i, t, d)) <=> i = j
<1> DEFINE r == BuildInkRequest(i, t, d)
<1>1. /\ d \in Nat \ {0} /\ d <= INK_V0F_MAX_GRANT_DURATION_S
      /\ INK_V0F_MAX_GRANT_DURATION_S \in Nat
      /\ INK_V0F_MAX_GRANT_DURATION_S <= MAX_GRANT_DURATION_S
      /\ MAX_GRANT_DURATION_S \in Nat /\ INK_V0F_MAX_ENTRY_ATOMIC \in Nat
  BY PolicyConstantsAssumption
<1>2. /\ r.repository = CANONICAL_REPOSITORY_IDENTITY
      /\ r.scope = GrantPreparation(i) /\ r.issuedAt = t
      /\ r.notBefore = t /\ r.notAfter = t + d
  BY DEF BuildInkRequest
<1>3. Duration(r) = d /\ ActiveAt(r, r.issuedAt)
  BY <1>1, <1>2 DEF Duration, ActiveAt
<1>4. InsideDustEnvelope(r) /\ ExactBinding(i, r)
  BY <1>1, <1>2, <1>3 DEF InsideDustEnvelope, ExactBinding, GrantPreparation,
                          HUMAN_SIGNED_EXECUTION
<1> HIDE DEF r
<1>5. Admissible(InkIssuerPolicy, i, r)
  BY <1>1, <1>2, <1>3, <1>4 DEF Admissible, InkIssuerPolicy, GrantPreparation,
     SUPPORTED_NETWORK_IDS, HUMAN_SIGNED_EXECUTION
<1>6. ASSUME Admissible(InkIssuerPolicy, j, r)
      PROVE  i = j
  <2>1. IsInk(r)
    BY <1>2 DEF IsInk, GrantPreparation
  <2>2. r.scope = GrantPreparation(j)
    BY <1>6, <2>1 DEF Admissible, ExactBinding
  <2> QED
    BY <1>2, <2>2 DEF GrantPreparation
<1> QED
  BY <1>5, <1>6 DEF r
-----------------------------------------------------------------------------
(* AuthorityIssuer.issue                                                   *)

\* The exact retry: once issue() has returned g, the same call of an issuer of
\* the same policy and identity returns g and nothing else, from whatever rows
\* are committed by then, as long as g is among them and no request id is used
\* twice.  In particular the retry is not refused, however many grants that
\* overlap nothing or belong to other identities were committed since.
THEOREM RetriesAreIdempotent ==
  ASSUME NEW history, NEW later, NEW i, NEW rid, NEW r, NEW g,
         i.metadata.root = i.policy.root,
         IssuedFrom(history, i, rid, r, g),
         g \in later, \A h, k \in later : h.rid = k.rid => h = k
  PROVE  \A k : IssuedFrom(later, i, rid, r, k) <=> k = g
<1> DEFINE committed(rows) == {h \in rows : h.rid = rid}
<1>1. Admissible(i.policy, i.identity, r)
  BY DEF IssuedFrom
<1>2. g.rid = rid /\ g.request = r /\ Validates(i, g, FALSE)
  <2>1. CASE committed(history) = {}
    <3>1. g = RowAfter(history, i, rid, r)
      BY <2>1 DEF IssuedFrom
    <3>2. g.rid = rid /\ g.request = r /\ g.metadata = i.metadata
      BY <3>1 DEF RowAfter
    <3> QED
      BY <1>1, <3>2 DEF Validates
  <2>2. CASE committed(history) # {}
    BY <2>2 DEF IssuedFrom
  <2> QED
    BY <2>1, <2>2
<1>3. committed(later) = {g}
  BY <1>2
<1> QED
  BY <1>1, <1>2, <1>3 DEF IssuedFrom
=============================================================================
