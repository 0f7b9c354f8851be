------------------------------ MODULE MCMailbox ------------------------------
(***************************************************************************)
(* Small instances of Mailbox for TLC.                                     *)
(***************************************************************************)
EXTENDS Mailbox, TLC

\* Clients that may die, clients that may not, and threads are interchangeable.
\* Only for runs without liveness properties.
Symmetry == Permutations(Mortal) \cup Permutations(Clients \ Mortal)
                                 \cup Permutations(Threads)

=============================================================================
