--------------------------- MODULE MCReceiptContract ---------------------------
(***************************************************************************)
(* Small instances of ReceiptContract for TLC: an issuer of Ink grants, and *)
(* an issuer of legacy grants, which may grant one request under two ids.  *)
(***************************************************************************)
EXTENDS ReceiptContract, TLC

CONSTANT current

Ink(t) == BuildInkRequest(current, t, INK_V0F_MAX_GRANT_DURATION_S)

Legacy(t) ==
  [Ink(t) EXCEPT !.scope.network = LEGACY_ROBINHOOD_TESTNET_NETWORK_ID]

\* Three requests that follow one another.
InkRequests == {Ink(0), Ink(2), Ink(4)}
LegacyRequests == {Legacy(0), Legacy(1)}

InkIssuer ==
  [policy |-> InkIssuerPolicy, identity |-> current, key |-> "anchor", epoch |-> 6]

LegacyIssuer ==
  [InkIssuer EXCEPT !.policy.network = LEGACY_ROBINHOOD_TESTNET_NETWORK_ID]

Ids == Permutations(RequestId)
=============================================================================
