----------------------------- MODULE MCSession -----------------------------
(* Conversations of three messages of the kinds that meet different code.  *)
EXTENDS Session

MCKinds == {"PING", "WORK", "ABRT", "BACK", "BACKLINE"}

(* Three messages, as client.c sends; every kind occurs first or last.     *)
MCScripts ==
  [1 .. 3 -> MCKinds] \cup {<<k, "WORK", l>> : k \in Kinds, l \in {"BACKLINE", "JUNK"}}

=============================================================================
