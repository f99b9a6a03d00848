------------------------- MODULE MCAuthorityIssuer -------------------------
(***************************************************************************)
(* Small instances of AuthorityIssuer for TLC.  Times are abstract units:  *)
(* an Ink grant lasts at most 2, a legacy grant at most 3.                 *)
(***************************************************************************)
EXTENDS AuthorityIssuer, TLC

CONSTANTS p1, p2, current, previous

Ink(identity, from, to) ==
  [BuildInkRequest(identity, from, to - from) EXCEPT !.issuedAt = from]

Legacy(from, to) ==
  [repository |-> CANONICAL_REPOSITORY_IDENTITY,
   scope |-> [GrantPreparation(current) EXCEPT
                !.network = LEGACY_ROBINHOOD_TESTNET_NETWORK_ID],
   notBefore |-> from, notAfter |-> to, issuedAt |-> from]

\* Two Ink requests that overlap, one that starts where the first ends, the
\* first again as a previous checkout would ask for it, a legacy request, and
\* two that nobody may be granted: longer than the dust envelope, and of a
\* lower level than was reviewed.
MCRequests ==
  {Ink(current, 0, 2), Ink(current, 1, 3), Ink(current, 2, 4),
   Ink(previous, 0, 2), Legacy(0, 3), Ink(current, 4, 7),
   [Ink(current, 4, 6) EXCEPT !.scope.level = 2]}

LegacyIssuerPolicy ==
  [InkIssuerPolicy EXCEPT
     !.network = LEGACY_ROBINHOOD_TESTNET_NETWORK_ID,
     !.duration = MAX_GRANT_DURATION_S]

Configuration(key, epoch) ==
  [root |-> INK_V0F_AUTHORITY_ROOT_ID, key |-> key, epoch |-> epoch,
   minimumEpoch |-> 1, configVersion |-> 1]

\* The current checkout, vouching for an earlier checkout's grant once it has
\* expired.
CurrentIssuer ==
  [policy |-> InkIssuerPolicy, identity |-> current,
   metadata |-> Configuration("anchor", 1), historical |-> {Ink(previous, 0, 2)}]

\* The checkout before the rebind: it vouches for nothing.
PreviousIssuer ==
  [CurrentIssuer EXCEPT !.identity = previous, !.historical = {}]

\* Same configuration, but a policy for another network.
LegacyIssuer ==
  [CurrentIssuer EXCEPT !.policy = LegacyIssuerPolicy, !.historical = {}]

\* A configuration that must not share the database with the others.
OtherKeyIssuer ==
  [CurrentIssuer EXCEPT !.metadata = Configuration("other", 2)]

AllIssuers == {CurrentIssuer, PreviousIssuer, LegacyIssuer, OtherKeyIssuer}

\* Two issuers that leave each other histories to refuse.
ContendingIssuers == {CurrentIssuer, LegacyIssuer}

Processes == Permutations({p1, p2})
=============================================================================
