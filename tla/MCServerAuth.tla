---------------------------- MODULE MCServerAuth ----------------------------
(* Two accounts at one server; callbacks may name another origin.  Account b      *)
(* rotates its key within a curve, account a across curves.                *)
EXTENDS ServerAuth, TLC

CONSTANTS l1, l2, l3, c1, c2, p1, r1, r2

MCLogins == {l1, l2, l3}
MCCallbacks == {c1, c2}
MCPublishes == {p1}
MCRequests == {r1, r2}
MCAccounts == {"a", "b"}
MCIssuers == {"pds", "other"}
MCIssuerOf == [a |-> "pds", b |-> "pds"]
MCRkeys == {"k"}
MCConfigs == {[admin |-> Nobody, explicit |-> FALSE], [admin |-> "a", explicit |-> FALSE],
              [admin |-> "a", explicit |-> TRUE]}
MCCurveOf == [a |-> <<"ES256K", "ES256">>, b |-> <<"ES256K", "ES256K">>]
MCOne == {r1}
MCServiceOnly == [service |-> 2]
MCHorizon == [oauth |-> 1, service |-> 2]
Symmetry == Permutations(MCLogins) \union Permutations(MCCallbacks) \union Permutations(MCRequests)
=============================================================================
