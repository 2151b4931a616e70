------------------------------ MODULE MCLoanDesk ------------------------------
(***************************************************************************)
(* Three users of the page, each with an instance of LoanDesk of its own:  *)
(* two collections with different quotes, two clicks at once, and a loan   *)
(* from its first approval to its repayment.                               *)
(***************************************************************************)
EXTENDS LoanDesk

CONSTANTS chog, skrumpeys,  \* the first is worth less
          first, second     \* the clicks whose handlers may overlap

MCQuote == [c \in Collections |-> IF c = chog THEN 1 ELSE 2]
MCFlows == {first, second}

VARIABLE user

\* Chooses, quotes and reconsiders.
Wizard == INSTANCE LoanDesk WITH
    Kinds <- {"terms", "borrow"}, MaxTxs <- 2, MaxDebt <- 1, MaxReloads <- 0

\* Clicks again while a handler is under way, and reloads.
Twice == INSTANCE LoanDesk WITH
    Collections <- {skrumpeys}, Amounts <- {1}, Kinds <- {"terms", "borrow"},
    MaxTxs <- 3

\* Borrows, supplies and repays.
Repayment == INSTANCE LoanDesk WITH
    Collections <- {chog}, Amounts <- {1}, MaxDebt <- 1, MaxReloads <- 0

UsersInit ==
    /\ Init
    /\ user \in {"wizard", "twice", "repayment"}

OneClick == flows'[second] = Idle

\* Only the user who clicks twice disconnects.
Connected == me # None => me' = me

\* Only the wizard's user touches the form while a handler runs.
Undisturbed ==
    (flows' = flows /\ form' # form) => \A f \in Flows : flows[f] = Idle

UsersNext ==
    /\ \/ user = "wizard" /\ Wizard!Next /\ OneClick /\ Connected
       \/ user = "twice" /\ Twice!Next /\ Undisturbed
       \/ user = "repayment" /\ Repayment!Next /\ OneClick /\ Undisturbed /\ Connected
    /\ UNCHANGED user

UsersSpec == UsersInit /\ [][UsersNext]_<<vars, user>> /\ Fairness
=============================================================================
