--------------------------- MODULE MCAdminAccount ---------------------------
\* The administrator account with a few requests and browsers.
EXTENDS AdminAccount, TLC

\* Sound for these safety runs: only DefaultName and Default are told apart.
Symmetry == Permutations(Logins) \cup Permutations(Changes) \cup Permutations(Tokens)
                \cup Permutations(Passwords)
=============================================================================
