----------------------------- MODULE MCFlashFs ------------------------------
(* A flash of a few blocks with room for the erase counts and one user file.  *)
EXTENDS FlashFs
=============================================================================
