------------------------------ MODULE MCAtmSha256 ------------------------------
(* Lengths for model-checking AtmSha256: no user name with every length of *)
(* a password up to two blocks, and user names and passwords that fill     *)
(* hash_input to the last byte, or not quite, or pass it.                  *)
EXTENDS AtmSha256

MCUserLengths == {0, 1, 440, 505}
MCWordLengths == 0 .. 130
===============================================================================
