---------------------------- MODULE MC_ApiRequest ----------------------------
(* ApiRequest with the default retryable sets and one status of each kind. *)
EXTENDS ApiRequest

MCStatuses == {200, 403, 404, 429, 501, 503}
MCRefusals == {403, 404, 429}
MCRetryableIdempotent == {429, 500, 502, 503, 504}
MCRetryableMutating == {429}
MCRetryAfter == {1, 90}
=============================================================================
