----------------------------- MODULE MCAuthClient ---------------------------
(* Instances of AuthClient for TLC: one login and one registration. *)
EXTENDS AuthClient, TLC

CONSTANTS c1, c2

MCClients == {c1, c2}
MCAsks == (c1 :> "login") @@ (c2 :> "register")

(* The token is empty, so that it fits anywhere; the user name is like "il", *)
(* what a registration_failed has at offset 15, and the token of a client    *)
(* that registers is not given, so empty as well.                            *)
MCFits ==
  (c1 :> {"authentication_successful", "invalid_token"})
  @@ (c2 :> {"registration_failed", "authentication_successful", "invalid_token"})
=============================================================================
