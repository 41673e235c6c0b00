---------------------------- MODULE MCOAuthLogin ----------------------------
(* Instances of OAuthLogin small enough for TLC. *)
EXTENDS OAuthLogin, TLC

CONSTANT s1         \* an OrangeAuth user; every other subject is an OIDC user

MCTypeOf == [s \in Subjects |-> IF s = s1 THEN "orangeauth" ELSE "oidc"]

LoginSymmetry ==
    Permutations(Logins) \cup Permutations(Codes) \cup Permutations(Accounts)
      \cup Permutations(Workers) \cup Permutations(Targets)
=============================================================================
