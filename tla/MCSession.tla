------------------------------ MODULE MCSession ------------------------------
(* Session for TLC: the connections are interchangeable, and so are the    *)
(* whiteboards.                                                            *)
EXTENDS Session, TLC

Symmetry == Permutations(Clients) \cup Permutations(Boards)
=============================================================================
