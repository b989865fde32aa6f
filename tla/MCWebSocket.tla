----------------------------- MODULE MCWebSocket -----------------------------
(***************************************************************************)
(* Sessions are interchangeable: the safety runs use that symmetry.        *)
(***************************************************************************)
EXTENDS WebSocketSessions, TLC

SessionSymmetry == Permutations(Sessions)
=============================================================================
