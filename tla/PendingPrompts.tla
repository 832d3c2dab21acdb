--------------------------- MODULE PendingPrompts ---------------------------
(***************************************************************************)
(* Pending prompts (storage/pending-prompt-store.ts): what an operator     *)
(* confirms before the agent gets it.  Operators on one prompt.            *)
(*                                                                         *)
(* previewPrompt and createClipboardHandoff are called by no route, so no  *)
(* prompt is ever `previewed'.                                             *)
(***************************************************************************)
PendingPromptStatus == {"absent", "draft", "confirmed", "sent", "failed", "cancelled"}

PendingPrompt == [status : PendingPromptStatus,
                  transport : {"managed-pty", "clipboard"}]

AbsentPending == [status |-> "absent", transport |-> "clipboard"]

createPendingPrompt(transport) == [status |-> "draft", transport |-> transport]

\* A failed prompt, too, may be confirmed: that is how it is retried.
canConfirmPrompt(prompt) == prompt.status \notin {"absent", "cancelled", "sent"}

confirmPrompt(prompt) == [prompt EXCEPT !.status = "confirmed"]

canSendPrompt(prompt) == prompt.status = "confirmed"

\* After the agent answered.
sentPrompt(prompt, ok) == [prompt EXCEPT !.status = IF ok THEN "sent" ELSE "failed"]

canCancelPrompt(prompt) == prompt.status \notin {"absent", "sent"}

cancelPrompt(prompt) == [prompt EXCEPT !.status = "cancelled"]
=============================================================================
