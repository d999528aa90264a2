-------------------------- MODULE MCAuditPipeline ---------------------------
(***************************************************************************)
(* A small instance of AuditPipeline: a channel and batches small enough   *)
(* for four records to overflow them, and a webhook before the file, so    *)
(* that the consumer posts while the line is still to be written.          *)
(***************************************************************************)
EXTENDS AuditPipeline

WebhookFirst == <<"webhook", "file">>
=============================================================================
