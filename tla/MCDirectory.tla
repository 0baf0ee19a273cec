---------------------------- MODULE MCDirectory ----------------------------
(* Instance for TLC: the one service of the code and two requests.         *)
EXTENDS Directory
=============================================================================
