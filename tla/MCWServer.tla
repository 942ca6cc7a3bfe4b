----------------------------- MODULE MCWServer ------------------------------
(* The web server with a few connections, for TLC.                         *)
EXTENDS WServer, TLC

(* The connections differ in nothing but their names. *)
Connections == Permutations(Conn)

=============================================================================
