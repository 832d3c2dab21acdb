---------------------------- MODULE AgentReviews ----------------------------
(***************************************************************************)
(* Review requests (storage/pending-review-store.ts) and what a review     *)
(* command's output is worth (adapters/command-review-adapter.ts,          *)
(* review/review-result-parser.ts).  Operators on one review.              *)
(***************************************************************************)
EXTENDS Integers

ReviewStatus == {"absent", "previewed", "confirmed", "sent", "returned",
                 "cancelled", "failed"}

Review == [status : ReviewStatus]

AbsentReview == [status |-> "absent"]

\* createDraft and preview, one handler: no other sees the draft.
createReview == [status |-> "previewed"]

canConfirmReview(review) == review.status = "previewed"

confirmReview(review) == [review EXCEPT !.status = "confirmed"]

\* Faulty variant: a review that was sent can be sent again.
canSendReview_again(review) == review.status \in {"confirmed", "sent"}

canSendReview(review) == review.status = "confirmed"

sendReview(review) == [review EXCEPT !.status = "sent"]

\* A review that was sent cannot be cancelled.
canCancelReview(review) == review.status \in {"previewed", "confirmed"}

cancelReview(review) == [review EXCEPT !.status = "cancelled"]

canReturnResult(review) == review.status = "sent"

returnResult(review) == [review EXCEPT !.status = "returned"]

canFail(review) == review.status \notin {"absent", "returned", "failed"}

failReview(review) == IF canFail(review) THEN [review EXCEPT !.status = "failed"] ELSE review

-----------------------------------------------------------------------------

(* What a command may print: a result with or without a next prompt, a     *)
(* result that claims authority (confirmed, sent, ...), or something else; *)
(* bare, wrapped in an envelope, as the last of many events, or in noise.  *)
Bodies == {"result", "resultWithNext", "forbidden", "malformed"}

Stdout == [shape : {"bare", "envelope", "events", "noise"}, body : Bodies]

\* selectReviewText finds the text in every shape but noise.
selectReviewText(stdout) == IF stdout.shape = "noise" THEN "malformed" ELSE stdout.body

parseClaudeReviewResult(text) ==
    [ok |-> text \in {"result", "resultWithNext"}, next |-> text = "resultWithNext"]
=============================================================================
