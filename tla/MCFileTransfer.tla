--------------------------- MODULE MCFileTransfer ---------------------------
(***************************************************************************)
(* Texts for model checking FileTransfer with blocks of two bytes: empty,  *)
(* one whole block, and one whose first block ends like a padded one.      *)
(***************************************************************************)
EXTENDS FileTransfer, TLC

SomeData == {<< >>, <<4, 3>>, <<3, 1, 2>>}

\* Logins are interchangeable, and so are passwords.
UserSymmetry == Permutations(Login) \cup Permutations(Password)
=============================================================================
