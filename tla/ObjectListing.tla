---------------------------- MODULE ObjectListing ----------------------------
(***************************************************************************)
(* ObjectStorageClient.list_objects (resources/object_storage.py): page    *)
(* after page of a bucket that other clients write to and delete from      *)
(* between two pages.                                                      *)
(*                                                                         *)
(* Keys are numbered in the order S3 lists them; Keys is the range that    *)
(* the prefix selects.  A continuation token is the last key the server    *)
(* has looked at.                                                          *)
(***************************************************************************)
EXTENDS Integers, Sequences, FiniteSets

CONSTANTS
    MaxKey,      \* the keys are 1 .. MaxKey
    PageSize,    \* the keys the server looks at for one page
    Limits,      \* the limit= arguments; NoLimit for none
    MaxChanges   \* a bound: changes to the bucket during one listing

ASSUME ListingAssumption ==
    /\ MaxKey \in Nat
    /\ PageSize \in Nat \ {0}
    /\ MaxChanges \in Nat
NoLimit == -1
ASSUME LimitAssumption == Limits \subseteq Nat \cup {NoLimit}

Keys == 1 .. MaxKey

VARIABLES
    limit,     \* the limit= argument
    pc,        \* "page" before a request, "done" after the call
    token,     \* ContinuationToken; 0 for none
    results,   \* the keys listed so far
    outcome,   \* how the call ended
    bucket,    \* the keys in the bucket now
    kept,      \* those that have been there since the call began
    changes    \* changes made so far

vars == <<limit, pc, token, results, outcome, bucket, kept, changes>>

Init ==
    /\ limit \in Limits
    /\ pc = "page"
    /\ token = 0
    /\ results = <<>>
    /\ outcome = "none"
    /\ bucket \in SUBSET Keys
    /\ kept = bucket
    /\ changes = 0

-----------------------------------------------------------------------------
(* The server (external).                                                  *)

\* The keys of the page that starts after t; it may hold none and still not be
\* the last one.
PageKeys(t) == {k \in bucket : t < k /\ k <= t + PageSize}
IsTruncated(t) == \E k \in bucket : k > t + PageSize

\* The contents of a page: its keys in order (there is one such sequence).
InOrder(S) ==
    {s \in [1 .. Cardinality(S) -> S] :
        /\ \A i, j \in DOMAIN s : i < j => s[i] < s[j]
        /\ \A k \in S : \E i \in DOMAIN s : s[i] = k}

Change ==
    /\ pc = "page" /\ changes < MaxChanges
    /\ changes' = changes + 1
    /\ \E k \in Keys :
          \/ /\ k \notin bucket
             /\ bucket' = bucket \cup {k}
             /\ UNCHANGED kept
          \/ /\ k \in bucket
             /\ bucket' = bucket \ {k}
             /\ kept' = kept \ {k}
    /\ UNCHANGED <<limit, pc, token, results, outcome>>

-----------------------------------------------------------------------------
(* The client.                                                             *)

\* Slip: the token of the first page is kept for all later ones.
NextTokenSlip(t) == IF t = 0 THEN PageSize ELSE t

NextToken(t) == t + PageSize

\* How many of a page's n keys are appended before the limit is found reached.
\* The check follows the append, so the first key is appended in any case.
Room(n) == IF limit = NoLimit THEN n
           ELSE IF Len(results) < limit THEN limit - Len(results) ELSE 1

\* Slip: reaching the limit leaves the loop over the page only.
FullSlip(n) == FALSE

\* The limit is found reached among a page's n keys.
Full(n) == limit # NoLimit /\ n > 0 /\ n >= Room(n)

\* Slip: a page without keys ends the listing.
LastPageSlip(t) == PageKeys(t) = {} \/ ~IsTruncated(t)

LastPage(t) == ~IsTruncated(t)

Page ==
    /\ pc = "page"
    /\ \E items \in InOrder(PageKeys(token)) :
          LET n == Len(items)
          IN  /\ results' = results \o SubSeq(items, 1, IF n < Room(n) THEN n ELSE Room(n))
              /\ \/ /\ Full(n) \/ LastPage(token)
                    /\ pc' = "done"
                    /\ outcome' = "listed"
                    /\ UNCHANGED token
                 \/ /\ ~Full(n) /\ ~LastPage(token)
                    /\ token' = NextToken(token)
                    /\ UNCHANGED <<pc, outcome>>
    /\ UNCHANGED <<limit, bucket, kept, changes>>

\* A page cannot be had: the error is wrapped and raised, the keys are lost.
PageFails ==
    /\ pc = "page"
    /\ pc' = "done"
    /\ outcome' = "raised"
    /\ UNCHANGED <<limit, token, results, bucket, kept, changes>>

Next == Change \/ Page \/ PageFails

Spec == Init /\ [][Next]_vars

-----------------------------------------------------------------------------
(* Properties. *)

Listed == {results[i] : i \in DOMAIN results}

\* The variables stay in their types.
TypeOK ==
    /\ limit \in Limits
    /\ pc \in {"page", "done"}
    /\ token \in 0 .. MaxKey + PageSize
    /\ results \in Seq(Keys)
    /\ outcome \in {"none", "listed", "raised"}
    /\ kept \subseteq bucket /\ bucket \subseteq Keys
    /\ changes \in 0 .. MaxChanges

\* The keys come in order and none twice, whatever changes between the pages.
InOrderOnce ==
    \A i, j \in DOMAIN results : i < j => results[i] < results[j]

\* A listing without a limit, or cut short by none, holds every key that stayed
\* in the bucket throughout: all pages are followed.
KeptAreListed ==
    outcome = "listed" /\ (limit = NoLimit \/ Len(results) < limit)
    => kept \subseteq Listed

\* A positive limit is never exceeded, though the bucket grows meanwhile; and a
\* listing that reaches it is cut at its end only: no key that stayed throughout
\* is missing before the last one listed.
CutAtTheEnd ==
    /\ limit > 0 => Len(results) <= limit
    /\ outcome = "listed" /\ results # <<>> =>
          \A k \in kept : k < results[Len(results)] => k \in Listed
=============================================================================
