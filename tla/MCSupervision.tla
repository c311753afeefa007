---------------------------- MODULE MCSupervision ----------------------------
(* A prompt file that opens with a slash command, for Supervision.           *)
EXTENDS Supervision

MCPrompts == {<<"slash", "body">>}
=============================================================================
