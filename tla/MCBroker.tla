------------------------------ MODULE MCBroker ------------------------------
(* Three requests; a token of one second, a long-lived one, one of a later  *)
(* window, one not yet valid and one of another signer.                      *)
EXTENDS Broker, TLC

CONSTANTS k1, k2, k3, r1, r2, r3

Good == [key |-> k1, form |-> "ok", alg |-> "RS256", signature |-> "issuer", claims |-> "ok",
         iss |-> "idp", aud |-> {"broker"}, sub |-> "ci", iat |-> 1, exp |-> 1, nbf |-> -1]
LongLived == [Good EXCEPT !.key = k2, !.iat = 0, !.exp = 9]

\* Each of the last two differs from a good token in one respect.
MCTokens == {Good, LongLived,
             [Good EXCEPT !.key = k3, !.iat = 2, !.exp = 3],
             [Good EXCEPT !.nbf = 2],
             [Good EXCEPT !.signature = "other"]}

MCTrusted == {"issuer"}
MCAllowed == {"RS256"}
MCSubjects == {"ci"}
MCRequests == {r1, r2, r3}
Threads == Permutations(MCRequests)

=============================================================================
