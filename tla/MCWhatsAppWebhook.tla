------------------------- MODULE MCWhatsAppWebhook -------------------------
(* WhatsAppWebhook with EmailDrafts for TLC: messages are interchangeable. *)
EXTENDS WhatsAppWebhook, TLC

Everyone == Handler \cup Tool
MailSymmetry == Permutations(Message) \cup Permutations(Handler)
=============================================================================
