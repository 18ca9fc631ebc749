---------------------------- MODULE MCAttachments ----------------------------
(* The instance of Attachments for TLC. *)
EXTENDS Attachments
=============================================================================
