-------------------------- MODULE MCApprovalInbox --------------------------
(* Two inbox threads; one of the reviewers is not on the allowlist.        *)
EXTENDS ApprovalInbox
=============================================================================
