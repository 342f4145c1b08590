----------------------------- MODULE MCAccounts -----------------------------
\* Values for Accounts: an admin and a user with passwords, and a login still free.
EXTENDS Accounts, TLC

CONSTANTS root, bob, ann, p1, p2, x

MCPopulation ==
    {[id |-> 1, login |-> root, role |-> "admin", active |-> TRUE, password |-> p1, sub |-> Null],
     [id |-> 2, login |-> bob, role |-> "user", active |-> TRUE, password |-> p1, sub |-> Null]}
=============================================================================
