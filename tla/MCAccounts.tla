------------------------------ MODULE MCAccounts ------------------------------
(***************************************************************************)
(* An instance of Accounts for TLC.  Requests, identifiers of codes and    *)
(* addresses provisioned alike are interchangeable.                        *)
(***************************************************************************)
EXTENDS Accounts, TLC

AccountSymmetry ==
    Permutations(Requests) \cup Permutations(CodeIds) \cup Permutations(Provisioned)

=============================================================================
