---------------------------- MODULE MCLanguageServer ----------------------------
(* One file, opened, edited, closed and opened again. *)
EXTENDS LanguageServer
=============================================================================
