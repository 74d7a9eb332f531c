--------------------------- MODULE MCConnections ---------------------------
(* Instances of Connections for TLC: two descriptors, and more connections. *)
EXTENDS Connections, TLC

MCSettings ==
  [clients : {"any"}, sends : {{"ask", "garbage"}}, conns : {2}, threads : {1}, queue : {1}, wire : {2}]
    \union [clients : {"polite", "quiet"}, sends : {{"ask", "join", "enter"}},
            conns : {4}, threads : {2}, queue : {2}, wire : {1}]
ConnSymmetry == Permutations(Conns) \union Permutations(Workers)
=============================================================================
