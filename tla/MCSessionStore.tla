-------------------------- MODULE MCSessionStore ---------------------------
(* Small instance of SessionStore: s1 and s2 belong to clients that number *)
(* their requests from the same ids, s3 uses ids of its own.               *)
EXTENDS SessionStore, TLC

CONSTANTS s1, s2, s3

MCUsesId == (s1 :> {1, 2}) @@ (s2 :> {1, 2}) @@ (s3 :> {3, 4})
=============================================================================
