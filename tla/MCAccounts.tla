----------------------------- MODULE MCAccounts -----------------------------
(***************************************************************************)
(* Tokens and organisations meet only in the accounts and in the requests  *)
(* that are open, so the run explores them one at a time: no behaviour is  *)
(* followed further once it has both a token and an organisation.          *)
(***************************************************************************)
EXTENDS Accounts, TLC

TokensOrOrganisations ==
    \/ \A t \in TokenIds : tokens[t] = NoToken
    \/ \A o \in Orgs : ~Exists(o)

Symmetry == Permutations(Users) \cup Permutations(Requests)
=============================================================================
