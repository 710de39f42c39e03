---------------------------- MODULE MCLangServer ----------------------------
(* LangServer for TLC: three sessions, so that what is left of the first can *)
(* connect the client while the second starts, and be undone by the third.   *)
EXTENDS LangServer
=============================================================================
