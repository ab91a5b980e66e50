------------------------ MODULE ResourceClient_proofs ------------------------
(***************************************************************************)
(* Proofs about ResourceClient, for any number of scripts, calls, names    *)
(* and resources: its types; what create, delete and a NotFoundError       *)
(* promise however the calls interleave; what calls return when none has   *)
(* ended in doubt; and that ensure() then makes no duplicates one by one.  *)
(***************************************************************************)
EXTENDS ResourceClient, TLAPS

Seen == {"listed", "ready", "failed", "deleting", "gone"}
Built == {"ready", "deleting", "gone"}

\* What a script in a call relies on: who is looked at has been seen, and who is
\* fetched after a wait has been settled.
ScriptInv(s) ==
    /\ pc[s] # "idle" => call[s] \in Calls
    /\ pc[s] = "find" => call[s].kind = "ensure"
    /\ pc[s] = "post" => call[s].kind # "delete"
    /\ pc[s] \in {"put", "await_update"} => call[s].kind # "create"
    /\ pc[s] \in {"put", "delete", "await_update"} => life[ref[s]] \in Seen
    /\ pc[s] = "fetch" /\ call[s].wait =>
          /\ life[ref[s]] \in Seen
          /\ call[s].kind = "create" => life[ref[s]] \in Built

\* What the ends of its calls promise.
Promise(s) ==
    pc[s] = "idle" =>
        /\ outcome[s] \in {"resource", "operation", "not_found"} => ref[s] \in Ids
        /\ call[s].kind = "create" /\ call[s].wait /\ outcome[s] = "resource"
              => life[ref[s]] \in Built
        /\ call[s].wait /\ outcome[s] = "not_found" => life[ref[s]] \in {"gone", "failed"}
        /\ call[s].kind = "delete" /\ call[s].wait /\ outcome[s] = "operation"
              => life[ref[s]] = "gone"

\* The server's part of the types, and what is left on the wire.
ServerOK ==
    /\ life \in [Ids -> Lives]
    /\ name \in [Ids -> Spellings]
    /\ origin \in [Ids -> Kinds \cup {"none"}]
    /\ late \subseteq [kind : Kinds, name : Spellings, id : Ids \cup {NoId}]
    /\ \A r \in late : r.kind = "delete" => r.id \in Ids
    /\ undone \subseteq Scripts

IInv == TypeOK /\ ServerOK /\ \A s \in Scripts : ScriptInv(s) /\ Promise(s)

-----------------------------------------------------------------------------
(* The server. *)

\* A life goes one way: what has been seen, settled, or lost stays so.
Onward ==
    \A i \in Ids :
        /\ life[i] \in Seen => life'[i] \in Seen
        /\ life[i] \in Built => life'[i] \in Built
        /\ life[i] \in {"gone", "failed"} => life'[i] \in {"gone", "failed"}
        /\ life[i] = "gone" => life'[i] = "gone"

\* A POST concerns an id nobody has seen.
LEMMA AcceptFacts ==
    ASSUME ServerOK, NEW kind \in Kinds, NEW n \in Spellings, NEW i \in Ids,
           NEW l \in Lives, Accept(kind, n, i, l), late' \subseteq late
    PROVE  ServerOK' /\ Onward /\ life'[i] = l
<1>1. life[i] = "unused" /\ life' = [life EXCEPT ![i] = l]
  BY DEF Accept, Unused
<1>2. Onward /\ life'[i] = l
  BY <1>1 DEF Onward, Seen, Built, ServerOK
<1>3. ServerOK'
  BY <1>1 DEF Accept, ServerOK
<1> QED
  BY <1>2, <1>3

\* A DELETE concerns a resource that shows.
LEMMA RemoveFacts ==
    ASSUME ServerOK, NEW i \in Ids, NEW l \in {"deleting", "gone"}, Remove(i, l),
           late' \subseteq late
    PROVE  ServerOK' /\ Onward /\ life'[i] = l
<1>1. life[i] \in {"listed", "ready", "deleting"} /\ life' = [life EXCEPT ![i] = l]
      /\ UNCHANGED <<name, origin, undone>>
  BY DEF Remove, Visible
<1>2. Onward /\ life'[i] = l
  BY <1>1 DEF Onward, Seen, Built, ServerOK
<1>3. ServerOK'
  BY <1>1 DEF ServerOK, Lives
<1> QED
  BY <1>2, <1>3

\* The server's own steps.
LEMMA ServerFacts ==
    ASSUME ServerOK, Server
    PROVE  ServerOK' /\ Onward
<1>1. ASSUME Build PROVE ServerOK' /\ Onward
  <2>1. PICK i \in Ids :
           \/ life[i] = "building" /\ life' = [life EXCEPT ![i] = "listed"]
           \/ life[i] = "listed" /\ life' = [life EXCEPT ![i] = "ready"]
           \/ life[i] \in {"building", "listed"} /\ life' = [life EXCEPT ![i] = "failed"]
           \/ life[i] = "deleting" /\ life' = [life EXCEPT ![i] = "gone"]
    BY <1>1 DEF Build
  <2>2. UNCHANGED <<name, origin, late, undone>>
    BY <1>1 DEF Build
  <2>3. life' \in [Ids -> Lives]
    BY <2>1 DEF ServerOK, Lives
  <2> QED
    BY <2>1, <2>2, <2>3 DEF ServerOK, Onward, Seen, Built
<1>2. ASSUME LandLate PROVE ServerOK' /\ Onward
  <2>1. PICK r \in late :
           /\ late' = late \ {r}
           /\ \/ r.kind # "delete" /\ \E i \in Ids : Accept(r.kind, r.name, i, "building")
              \/ r.kind = "delete" /\ Remove(r.id, "deleting")
              \/ UNCHANGED <<life, name, origin, undone>>
    BY <1>2 DEF LandLate
  <2>2. r.kind \in Kinds /\ r.name \in Spellings /\ (r.kind = "delete" => r.id \in Ids)
        /\ late' \subseteq late
    BY <2>1 DEF ServerOK
  <2>3. CASE r.kind # "delete" /\ \E i \in Ids : Accept(r.kind, r.name, i, "building")
    BY <2>2, <2>3, AcceptFacts DEF Lives
  <2>4. CASE r.kind = "delete" /\ Remove(r.id, "deleting")
    BY <2>2, <2>4, RemoveFacts
  <2>5. CASE UNCHANGED <<life, name, origin, undone>>
    BY <2>2, <2>5 DEF ServerOK, Onward
  <2> QED
    BY <2>1, <2>3, <2>4, <2>5
<1>3. ASSUME DeletionFails PROVE ServerOK' /\ Onward
  <2>1. PICK i \in Ids : life[i] = "deleting" /\ life' = [life EXCEPT ![i] = "ready"]
                         /\ undone' = undone \cup Deleters(i)
    BY <1>3 DEF DeletionFails
  <2>2. UNCHANGED <<name, origin, late>> /\ Deleters(i) \subseteq Scripts
    BY <1>3 DEF DeletionFails, Deleters
  <2> QED
    BY <2>1, <2>2 DEF ServerOK, Lives, Onward, Seen, Built
<1> QED
  BY <1>1, <1>2, <1>3 DEF Server

-----------------------------------------------------------------------------
(* The scripts. *)

\* A script keeps what it relies on while the others and the server go on.
LEMMA OthersKeep ==
    ASSUME IInv, Onward, NEW t \in Scripts,
           pc'[t] = pc[t], call'[t] = call[t], ref'[t] = ref[t], outcome'[t] = outcome[t]
    PROVE  ScriptInv(t)' /\ Promise(t)'
<1>1. ScriptInv(t) /\ Promise(t) /\ TypeOK
  BY DEF IInv
<1>2. ref[t] \in Ids =>
         /\ life[ref[t]] \in Seen => life'[ref[t]] \in Seen
         /\ life[ref[t]] \in Built => life'[ref[t]] \in Built
         /\ life[ref[t]] \in {"gone", "failed"} => life'[ref[t]] \in {"gone", "failed"}
         /\ life[ref[t]] = "gone" => life'[ref[t]] = "gone"
  BY DEF Onward
<1>3. pc[t] \in {"put", "delete", "fetch", "await_update"} => ref[t] \in Ids
  BY <1>1 DEF TypeOK, Awaiting
<1>4. ScriptInv(t)'
  BY <1>1, <1>2, <1>3 DEF ScriptInv
<1>5. Promise(t)'
  BY <1>1, <1>2 DEF Promise
<1> QED
  BY <1>4, <1>5

\* Only script s has moved.
LEMMA OneMoves ==
    ASSUME IInv, ServerOK', Onward, NEW s \in Scripts,
           TypeOK', ScriptInv(s)', Promise(s)',
           \A t \in Scripts \ {s} : /\ pc'[t] = pc[t] /\ call'[t] = call[t]
                                    /\ ref'[t] = ref[t] /\ outcome'[t] = outcome[t]
    PROVE  IInv'
<1>1. \A t \in Scripts \ {s} : ScriptInv(t)' /\ Promise(t)'
  BY OthersKeep
<1> QED
  BY <1>1 DEF IInv

\* A call may end with an outcome that is true of the resource it refers to.
LEMMA EndKeeps ==
    ASSUME IInv, ServerOK', Onward, NEW s \in Scripts, NEW o \in Outcomes \ {"resource"},
           NEW unsure \in BOOLEAN, End(s, o, unsure),
           o \in {"operation", "not_found"} => ref[s] \in Ids,
           o = "not_found" /\ call[s].wait => life'[ref[s]] \in {"gone", "failed"},
           o = "operation" /\ call[s].kind = "delete" /\ call[s].wait
               => life'[ref[s]] = "gone"
    PROVE  IInv'
<1>1. /\ pc' = [pc EXCEPT ![s] = "idle"] /\ outcome' = [outcome EXCEPT ![s] = o]
      /\ doubt' = (doubt \/ unsure) /\ UNCHANGED <<call, ref, calls, overlap>>
  BY DEF End
<1>2. TypeOK /\ pc'[s] = "idle" /\ outcome'[s] = o
  BY <1>1 DEF IInv, TypeOK
<1>3. TypeOK'
  BY <1>1, <1>2 DEF TypeOK, ServerOK, Awaiting
<1>4. ScriptInv(s)'
  BY <1>2 DEF ScriptInv
<1>5. Promise(s)'
  BY <1>1, <1>2 DEF Promise
<1> QED
  BY <1>1, <1>2, <1>3, <1>4, <1>5, OneMoves DEF TypeOK

\* A call may return a resource, which create() has awaited.
LEMMA ReturnKeeps ==
    ASSUME IInv, ServerOK', Onward, NEW s \in Scripts, NEW i \in Ids,
           NEW unsure \in BOOLEAN, Return(s, i, unsure),
           call[s].kind = "create" /\ call[s].wait => life'[i] \in Built
    PROVE  IInv'
<1>1. /\ pc' = [pc EXCEPT ![s] = "idle"] /\ outcome' = [outcome EXCEPT ![s] = "resource"]
      /\ ref' = [ref EXCEPT ![s] = i]
      /\ doubt' = (doubt \/ unsure) /\ UNCHANGED <<call, calls, overlap>>
  BY DEF Return
<1>2. TypeOK /\ pc'[s] = "idle" /\ outcome'[s] = "resource" /\ ref'[s] = i
  BY <1>1 DEF IInv, TypeOK
<1>3. TypeOK'
  BY <1>1, <1>2 DEF TypeOK, ServerOK, Awaiting, Outcomes
<1>4. ScriptInv(s)'
  BY <1>2 DEF ScriptInv
<1>5. Promise(s)'
  BY <1>1, <1>2 DEF Promise
<1> QED
  BY <1>1, <1>2, <1>3, <1>4, <1>5, OneMoves DEF TypeOK

\* A call may go on to its next step.
LEMMA GoToKeeps ==
    ASSUME IInv, ServerOK', Onward, NEW s \in Scripts, pc[s] # "idle",
           NEW step \in {"post", "put", "fetch"} \cup Awaiting,
           NEW i \in Ids \cup {NoId}, GoTo(s, step, i),
           step # "post" => i \in Ids,
           step = "post" => call[s].kind # "delete",
           step \in {"put", "await_update"} => call[s].kind # "create" /\ life'[i] \in Seen,
           step = "fetch" /\ call[s].wait =>
               /\ life'[i] \in Seen
               /\ call[s].kind = "create" => life'[i] \in Built
    PROVE  IInv'
<1>1. /\ pc' = [pc EXCEPT ![s] = step] /\ ref' = [ref EXCEPT ![s] = i]
      /\ UNCHANGED <<call, outcome, calls, doubt, overlap>>
  BY DEF GoTo
<1>2. TypeOK /\ pc'[s] = step /\ ref'[s] = i /\ step \notin {"idle", "find", "delete"}
  BY <1>1 DEF IInv, TypeOK, Awaiting
<1>3. TypeOK'
  BY <1>1, <1>2 DEF TypeOK, ServerOK, Awaiting
<1>4. ScriptInv(s)'
  BY <1>1, <1>2 DEF IInv, ScriptInv
<1>5. Promise(s)'
  BY <1>2 DEF Promise
<1> QED
  BY <1>1, <1>2, <1>3, <1>4, <1>5, OneMoves DEF TypeOK

\* What holds of a step that leaves the server alone.
LEMMA ServerStays ==
    ASSUME IInv, UNCHANGED server
    PROVE  ServerOK' /\ Onward /\ life' = life
  BY DEF IInv, server, ServerOK, Onward

-----------------------------------------------------------------------------
(* The steps of a script. *)

\* A call begins on nothing, or on a resource that shows.
LEMMA BeginKeeps ==
    ASSUME IInv, NEW s \in Scripts, Begin(s)
    PROVE  IInv'
<1>1. PICK c \in Calls :
         /\ IF c.kind \in {"update", "delete"} THEN c.id # NoId /\ Visible(c.id)
            ELSE c.id = NoId
         /\ call' = [call EXCEPT ![s] = c]
         /\ pc' = [pc EXCEPT ![s] = FirstStep[c.kind]]
         /\ ref' = [ref EXCEPT ![s] = c.id]
  BY DEF Begin
<1>2. /\ outcome' = [outcome EXCEPT ![s] = "none"] /\ calls' = calls + 1
      /\ overlap' = (overlap \/ \E t \in Scripts : pc[t] # "idle")
      /\ UNCHANGED <<life, name, origin, late, doubt>> /\ undone' \subseteq undone
      /\ calls < MaxCalls \/ calls < MaxMixed
  BY DEF Begin
<1>3. /\ c.kind \in Kinds /\ c.kind \in {"ensure", "create", "update", "delete"}
      /\ c.id \in Ids \cup {NoId}
  BY KindAssumption DEF Calls
<1>4. \/ c.kind = "ensure" /\ FirstStep[c.kind] = "find"
      \/ c.kind = "create" /\ FirstStep[c.kind] = "post"
      \/ c.kind = "update" /\ FirstStep[c.kind] = "put"
      \/ c.kind = "delete" /\ FirstStep[c.kind] = "delete"
  BY <1>3 DEF FirstStep
<1>5. TypeOK /\ ServerOK' /\ Onward
  BY <1>2 DEF IInv, ServerOK, Onward
<1>6. /\ pc'[s] = FirstStep[c.kind] /\ call'[s] = c /\ ref'[s] = c.id
      /\ pc'[s] \in {"put", "delete"} => c.id \in Ids /\ life'[c.id] \in Seen
  BY <1>1, <1>2, <1>3, <1>4, <1>5 DEF TypeOK, Visible, Seen
<1>7. TypeOK'
  <2>1. calls' \in 0 .. MaxCalls
    BY <1>2, <1>5, BoundAssumption DEF TypeOK
  <2>2. overlap' \in BOOLEAN /\ doubt' \in BOOLEAN
    BY <1>2, <1>5 DEF TypeOK
  <2>3. pc' \in [Scripts -> {"idle", "find", "post", "put", "delete", "fetch"} \cup Awaiting]
    BY <1>1, <1>4, <1>5 DEF TypeOK
  <2>4. \A t \in Scripts : pc'[t] \in {"put", "delete", "fetch"} \cup Awaiting => ref'[t] \in Ids
    BY <1>1, <1>4, <1>5, <1>6 DEF TypeOK, Awaiting
  <2>5. /\ call' \in [Scripts -> Calls \cup {NoCall}]
        /\ ref' \in [Scripts -> Ids \cup {NoId}]
        /\ outcome' \in [Scripts -> Outcomes]
    BY <1>1, <1>2, <1>3, <1>5 DEF TypeOK, Outcomes
  <2> QED
    BY <1>5, <2>1, <2>2, <2>3, <2>4, <2>5 DEF TypeOK, ServerOK
<1>8. ScriptInv(s)' /\ Promise(s)'
  BY <1>4, <1>6 DEF ScriptInv, Promise
<1> QED
  BY <1>1, <1>2, <1>5, <1>7, <1>8, OneMoves DEF TypeOK

\* The lookup of ensure().
LEMMA FindKeeps ==
    ASSUME IInv, NEW s \in Scripts, FindAdopts(s) \/ FindMisses(s)
    PROVE  IInv'
<1>1. pc[s] = "find" /\ call[s].kind = "ensure" /\ UNCHANGED server
  BY DEF FindAdopts, FindMisses, IInv, ScriptInv
<1>2. ServerOK' /\ Onward /\ life' = life
  BY <1>1, ServerStays
<1>3. CASE FindAdopts(s)
  <2>1. PICK i \in Matches(s) :
           IF call[s].update THEN GoTo(s, "put", i) ELSE Return(s, i, FALSE)
    BY <1>3 DEF FindAdopts
  <2>2. i \in Ids /\ life'[i] \in Seen
    BY <1>2 DEF Matches, Visible, Seen
  <2>3. CASE GoTo(s, "put", i)
    BY <1>1, <1>2, <2>2, <2>3, GoToKeeps
  <2>4. CASE Return(s, i, FALSE)
    BY <1>1, <1>2, <2>2, <2>4, ReturnKeeps
  <2> QED
    BY <2>1, <2>3, <2>4
<1>4. CASE FindMisses(s)
  BY <1>1, <1>2, <1>4, GoToKeeps DEF FindMisses
<1> QED
  BY <1>3, <1>4

\* The errors of a request, and NotFoundError.
LEMMA FailKeeps ==
    ASSUME IInv, NEW s \in Scripts, RequestFails(s) \/ Missing(s)
    PROVE  IInv'
<1>1. UNCHANGED server
  BY DEF RequestFails, Missing
<1>2. ServerOK' /\ Onward /\ life' = life
  BY <1>1, ServerStays
<1>3. CASE RequestFails(s)
  <2> DEFINE unsure == pc[s] = "fetch" /\ ~call[s].wait
  <2>1. "error" \in Outcomes \ {"resource"} /\ unsure \in BOOLEAN
    BY DEF Outcomes
  <2>2. End(s, "error", unsure)
    BY <1>3 DEF RequestFails
  <2> HIDE DEF unsure
  <2> QED
    BY <1>2, <2>1, <2>2, EndKeeps
<1>4. CASE Missing(s)
  <2> DEFINE unsure == pc[s] = "fetch" /\ ~call[s].wait
  <2>1. "not_found" \in Outcomes \ {"resource"} /\ unsure \in BOOLEAN
    BY DEF Outcomes
  <2>2. End(s, "not_found", unsure) /\ pc[s] \in {"put", "delete", "fetch"} /\ ~Visible(ref[s])
    BY <1>4 DEF Missing
  <2>3. ref[s] \in Ids /\ (call[s].wait => life[ref[s]] \in Seen)
    BY <2>2 DEF IInv, TypeOK, ScriptInv
  <2>4. call[s].wait => life'[ref[s]] \in {"gone", "failed"}
    BY <1>2, <2>2, <2>3 DEF Visible, Seen
  <2> HIDE DEF unsure
  <2> QED
    BY <1>2, <2>1, <2>2, <2>3, <2>4, EndKeeps
<1> QED
  BY <1>3, <1>4

\* The answers to a POST and a PUT.
LEMMA AnswerKeeps ==
    ASSUME IInv, NEW s \in Scripts, PostAnswered(s) \/ PutAnswered(s)
    PROVE  IInv'
<1>1. call[s] \in Calls /\ TypeOK /\ ServerOK /\ pc[s] # "idle"
  BY DEF PostAnswered, PutAnswered, IInv, ScriptInv
<1>2. call[s].kind \in Kinds /\ call[s].name \in Spellings
  BY <1>1 DEF Calls
<1>3. CASE PostAnswered(s)
  <2>1. PICK i \in Ids :
           \/ /\ Accept(call[s].kind, call[s].name, i, "building")
              /\ AfterMutation(s, "await_create", i)
           \/ /\ Accept(call[s].kind, call[s].name, i, "ready")
              /\ Return(s, i, FALSE)
    BY <1>3 DEF PostAnswered
  <2>2. late' \subseteq late
    BY <1>3 DEF PostAnswered
  <2>3. CASE Accept(call[s].kind, call[s].name, i, "building")
             /\ AfterMutation(s, "await_create", i)
    <3>1. ServerOK' /\ Onward
      BY <1>1, <1>2, <2>2, <2>3, AcceptFacts DEF Lives
    <3>2. CASE call[s].wait /\ GoTo(s, "await_create", i)
      BY <1>1, <3>1, <3>2, GoToKeeps DEF Awaiting
    <3>3. CASE ~call[s].wait /\ GoTo(s, "fetch", i)
      BY <1>1, <3>1, <3>3, GoToKeeps
    <3> QED
      BY <2>3, <3>2, <3>3 DEF AfterMutation
  <2>4. CASE Accept(call[s].kind, call[s].name, i, "ready") /\ Return(s, i, FALSE)
    <3>1. ServerOK' /\ Onward /\ life'[i] \in Built
      BY <1>1, <1>2, <2>2, <2>4, AcceptFacts DEF Lives, Built
    <3> QED
      BY <2>4, <3>1, ReturnKeeps
  <2> QED
    BY <2>1, <2>3, <2>4
<1>4. CASE PutAnswered(s)
  <2>1. /\ pc[s] = "put" /\ UNCHANGED server /\ call[s].kind # "create"
        /\ ref[s] \in Ids /\ life[ref[s]] \in Seen
    BY <1>1, <1>4 DEF PutAnswered, IInv, ScriptInv, TypeOK
  <2>2. ServerOK' /\ Onward /\ life' = life
    BY <2>1, ServerStays
  <2>3. CASE call[s].wait /\ GoTo(s, "await_update", ref[s])
    BY <1>1, <2>1, <2>2, <2>3, GoToKeeps DEF Awaiting
  <2>4. CASE ~call[s].wait /\ GoTo(s, "fetch", ref[s])
    BY <1>1, <2>1, <2>2, <2>4, GoToKeeps
  <2>5. CASE Return(s, ref[s], FALSE)
    BY <2>1, <2>2, <2>5, ReturnKeeps
  <2> QED
    BY <1>4, <2>3, <2>4, <2>5 DEF PutAnswered, AfterMutation
<1> QED
  BY <1>3, <1>4

\* The answers to a DELETE.
LEMMA DeleteKeeps ==
    ASSUME IInv, NEW s \in Scripts, DeleteAnswered(s) \/ DeleteRetried(s)
    PROVE  IInv'
<1>1. /\ pc[s] = "delete" /\ late' \subseteq late /\ ServerOK /\ ref[s] \in Ids
  BY DEF DeleteAnswered, DeleteRetried, IInv, TypeOK
<1>2. {"operation", "not_found"} \subseteq Outcomes \ {"resource"}
  BY DEF Outcomes
<1>3. CASE Remove(ref[s], "gone") /\ End(s, "operation", FALSE)
  BY <1>1, <1>2, <1>3, RemoveFacts, EndKeeps
<1>4. CASE Remove(ref[s], "gone") /\ End(s, "not_found", FALSE)
  BY <1>1, <1>2, <1>4, RemoveFacts, EndKeeps
<1>5. CASE Remove(ref[s], "deleting") /\ call[s].wait /\ GoTo(s, "await_delete", ref[s])
  <2>1. ServerOK' /\ Onward
    BY <1>1, <1>5, RemoveFacts
  <2> QED
    BY <1>1, <1>5, <2>1, GoToKeeps DEF Awaiting
<1>6. CASE Remove(ref[s], "deleting") /\ ~call[s].wait /\ End(s, "operation", TRUE)
  <2>1. ServerOK' /\ Onward
    BY <1>1, <1>6, RemoveFacts
  <2> QED
    BY <1>1, <1>2, <1>6, <2>1, EndKeeps
<1> QED
  BY <1>3, <1>4, <1>5, <1>6 DEF DeleteAnswered, DeleteRetried

\* A request that is left on the wire.
LEMMA UnknownKeeps ==
    ASSUME IInv, NEW s \in Scripts, PostUnknown(s) \/ DeleteUnknown(s)
    PROVE  IInv'
<1>1. /\ pc[s] \in {"post", "delete"} /\ LeaveLate(s)
      /\ call[s] \in Calls /\ TypeOK /\ ServerOK
      /\ call[s].kind = "delete" => ref[s] \in Ids
  BY DEF PostUnknown, DeleteUnknown, IInv, TypeOK, ScriptInv
<1>2. /\ late' = late \cup {[kind |-> call[s].kind, name |-> call[s].name, id |-> ref[s]]}
      /\ UNCHANGED <<life, name, origin, undone>> /\ End(s, "unknown", TRUE)
  BY <1>1 DEF LeaveLate
<1>3. ServerOK' /\ Onward
  BY <1>1, <1>2 DEF ServerOK, TypeOK, Calls, Onward
<1>4. "unknown" \in Outcomes \ {"resource"}
  BY DEF Outcomes
<1> QED
  BY <1>2, <1>3, <1>4, EndKeeps

\* The end of a wait, and the fetch.
LEMMA AwaitKeeps ==
    ASSUME IInv, NEW s \in Scripts,
           AwaitSucceeds(s) \/ AwaitFails(s) \/ AwaitGivesUp(s) \/ FetchReturns(s)
    PROVE  IInv'
<1>1. /\ UNCHANGED server /\ pc[s] \in Awaiting \cup {"fetch"} /\ ref[s] \in Ids
      /\ TypeOK /\ ScriptInv(s)
  BY DEF AwaitSucceeds, AwaitFails, AwaitGivesUp, FetchReturns, IInv, TypeOK, Awaiting
<1>2. ServerOK' /\ Onward /\ life' = life
  BY <1>1, ServerStays
<1>3. {"operation", "operation_error", "gave_up"} \subseteq Outcomes \ {"resource"}
  BY DEF Outcomes
<1>4. CASE AwaitSucceeds(s)
  <2>1. /\ Succeeded(s) /\ pc[s] \in Awaiting
        /\ IF pc[s] = "await_delete" THEN End(s, "operation", FALSE)
           ELSE GoTo(s, "fetch", ref[s])
    BY <1>4 DEF AwaitSucceeds
  <2>2. CASE pc[s] = "await_delete"
    <3>1. life'[ref[s]] = "gone"
      BY <1>2, <2>1, <2>2 DEF Succeeded
    <3> QED
      BY <1>1, <1>2, <1>3, <2>1, <2>2, <3>1, EndKeeps
  <2>3. CASE pc[s] # "await_delete"
    <3>1. /\ life'[ref[s]] \in Seen
          /\ call[s].kind = "create" => life'[ref[s]] \in Built
      BY <1>1, <1>2, <2>1, <2>3 DEF Succeeded, ScriptInv, Seen, Built, Awaiting
    <3> QED
      BY <1>1, <1>2, <2>1, <2>3, <3>1, GoToKeeps DEF Awaiting
  <2> QED
    BY <2>2, <2>3
<1>5. CASE AwaitFails(s)
  BY <1>2, <1>3, <1>5, EndKeeps DEF AwaitFails
<1>6. CASE AwaitGivesUp(s)
  BY <1>2, <1>3, <1>6, EndKeeps DEF AwaitGivesUp
<1>7. CASE FetchReturns(s)
  <2> DEFINE unsure == ~call[s].wait
  <2>1. unsure \in BOOLEAN /\ Return(s, ref[s], unsure) /\ pc[s] = "fetch"
    BY <1>7 DEF FetchReturns
  <2>2. call[s].kind = "create" /\ call[s].wait => life'[ref[s]] \in Built
    BY <1>1, <1>2, <2>1 DEF ScriptInv
  <2> HIDE DEF unsure
  <2> QED
    BY <1>1, <1>2, <2>1, <2>2, ReturnKeeps
<1> QED
  BY <1>4, <1>5, <1>6, <1>7

-----------------------------------------------------------------------------
(* The theorems. *)

\* The invariant holds of every behaviour of the scripts.
THEOREM Invariance == Spec => []IInv
<1>1. Init => IInv
  <2> SUFFICES ASSUME Init PROVE IInv
    OBVIOUS
  <2>1. AnyName \in Spellings
    BY NameAssumption DEF AnyName
  <2>2. ServerOK
    BY <2>1 DEF Init, ServerOK, Lives
  <2>3. TypeOK
    <3>1. /\ call \in [Scripts -> Calls \cup {NoCall}]
          /\ ref \in [Scripts -> Ids \cup {NoId}]
          /\ outcome \in [Scripts -> Outcomes]
      BY DEF Init, Outcomes
    <3>2. /\ pc \in [Scripts -> {"idle"}]
          /\ \A s \in Scripts : pc[s] = "idle"
      BY DEF Init
    <3>3. pc \in [Scripts -> {"idle", "find", "post", "put", "delete", "fetch"} \cup Awaiting]
      BY <3>2
    <3>4. calls \in 0 .. MaxCalls /\ doubt \in BOOLEAN /\ overlap \in BOOLEAN
      <4>1. calls = 0 /\ doubt = FALSE /\ overlap = FALSE
        BY Zenon DEF Init
      <4>2. calls \in 0 .. MaxCalls
        BY <4>1, BoundAssumption
      <4>3. doubt \in BOOLEAN /\ overlap \in BOOLEAN
        BY <4>1, Zenon
      <4> QED
        BY <4>2, <4>3
    <3>5. \A s \in Scripts :
             pc[s] \in {"put", "delete", "fetch"} \cup Awaiting => ref[s] \in Ids
      BY <3>2 DEF Awaiting
    <3>6. /\ life \in [Ids -> Lives]
          /\ name \in [Ids -> Spellings]
          /\ origin \in [Ids -> Kinds \cup {"none"}]
          /\ late \subseteq [kind : Kinds, name : Spellings, id : Ids \cup {NoId}]
          /\ undone \subseteq Scripts
      BY <2>2 DEF ServerOK
    <3> QED
      BY <3>1, <3>3, <3>4, <3>5, <3>6, Zenon DEF TypeOK
  <2>4. \A s \in Scripts : pc[s] = "idle" /\ outcome[s] = "none"
    BY DEF Init
  <2> QED
    BY <2>2, <2>3, <2>4 DEF IInv, ScriptInv, Promise
<1>2. IInv /\ [Next]_vars => IInv'
  <2> SUFFICES ASSUME IInv, [Next]_vars PROVE IInv'
    OBVIOUS
  <2>1. CASE Server
    <3>1. ServerOK' /\ Onward
      BY <2>1, ServerFacts DEF IInv
    <3>2. UNCHANGED <<pc, call, ref, outcome, calls, doubt, overlap>>
      BY <2>1 DEF Server, Build, DeletionFails, LandLate
    <3>3. TypeOK'
      BY <3>1, <3>2 DEF IInv, TypeOK, ServerOK
    <3>4. \A t \in Scripts : ScriptInv(t)' /\ Promise(t)'
      BY <3>1, <3>2, OthersKeep
    <3> QED
      BY <3>1, <3>3, <3>4 DEF IInv
  <2>2. ASSUME NEW s \in Scripts, Begin(s) PROVE IInv'
    BY <2>2, BeginKeeps
  <2>3. ASSUME NEW s \in Scripts, Script(s) PROVE IInv'
    BY <2>3, FindKeeps, FailKeeps, AnswerKeeps, DeleteKeeps, UnknownKeeps, AwaitKeeps
    DEF Script
  <2>4. CASE UNCHANGED vars
    BY <2>4 DEF vars, IInv, TypeOK, ServerOK, ScriptInv, Promise
  <2> QED
    BY <2>1, <2>2, <2>3, <2>4 DEF Next
<1> QED
  BY <1>1, <1>2, PTL DEF Spec

\* The variables stay in their types; what acts on a resource knows its id.
THEOREM TypeCorrect == Spec => []TypeOK
  BY Invariance, PTL DEF IInv

\* A create that waits returns only what has been built.
THEOREM CreatesAreSettled == Spec => []CreateReturnsSettled
<1>1. IInv => CreateReturnsSettled
  BY DEF IInv, Promise, Built, CreateReturnsSettled
<1> QED
  BY Invariance, <1>1, PTL

\* NotFoundError tells of a resource that is no more, not of one to come.
THEOREM AbsenceIsReal == Spec => []NotFoundMeansRemoved
<1>1. IInv => NotFoundMeansRemoved
  BY DEF IInv, Promise, NotFoundMeansRemoved
<1> QED
  BY Invariance, <1>1, PTL

\* What a delete that waits returns from is gone, and stays so; a deletion that fails
\* on the server is raised.
THEOREM DeletionsAreFinal == Spec => []DeleteIsFinal
<1>1. IInv => DeleteIsFinal
  BY DEF IInv, Promise, DeleteIsFinal
<1> QED
  BY Invariance, <1>1, PTL

-----------------------------------------------------------------------------
(* Calls that have all ended settled: whatever is under way has an owner. *)

Unsettled == {"building", "listed", "deleting"}
Live == {"building", "listed", "ready", "deleting"}

\* The script is in the call that will see this life settled, or will end in doubt.
Settles(s, l) ==
    IF l = "deleting" THEN pc[s] = "await_delete" /\ s \notin undone
    ELSE pc[s] = "await_create" \/ (pc[s] = "fetch" /\ ~call[s].wait)

\* A deletion that has failed concerns who awaits it.  Without doubt, no request is
\* left on the wire and each resource under way is that of a call that runs.
OwnedInv ==
    /\ \A s \in undone : pc[s] \in {"idle", "await_delete"}
    /\ ~doubt =>
        /\ late = {}
        /\ \A i \in Ids : life[i] \in Unsettled =>
              \E s \in Scripts : ref[s] = i /\ Settles(s, life[i])

OwnInv == IInv /\ OwnedInv

\* Only script s moves, inside its call or to its end.
Moves(s) ==
    /\ \A t \in Scripts \ {s} : pc'[t] = pc[t]
    /\ call' = call /\ overlap' = overlap
    /\ doubt => doubt'

\* Each of the three ends of a step is such a move; and an end in doubt is one.
LEMMA EndMoves ==
    ASSUME IInv, NEW s \in Scripts, NEW o, NEW u, End(s, o, u)
    PROVE  Moves(s) /\ pc'[s] = "idle" /\ (u => doubt')
<1>1. /\ pc' = [pc EXCEPT ![s] = "idle"] /\ UNCHANGED <<call, ref, calls, overlap>>
      /\ DOMAIN pc = Scripts
  BY DEF IInv, TypeOK, End
<1>2. (doubt => doubt') /\ (u => doubt')
  BY Zenon DEF End
<1> QED
  BY <1>1, <1>2 DEF Moves

LEMMA ReturnMoves ==
    ASSUME IInv, NEW s \in Scripts, NEW i, NEW u, Return(s, i, u)
    PROVE  Moves(s) /\ pc'[s] = "idle" /\ (u => doubt')
<1>1. /\ pc' = [pc EXCEPT ![s] = "idle"] /\ UNCHANGED <<call, calls, overlap>>
      /\ DOMAIN pc = Scripts
  BY DEF IInv, TypeOK, Return
<1>2. (doubt => doubt') /\ (u => doubt')
  BY Zenon DEF Return
<1> QED
  BY <1>1, <1>2 DEF Moves

LEMMA GoToMoves ==
    ASSUME IInv, NEW s \in Scripts, NEW step, NEW i, GoTo(s, step, i)
    PROVE  Moves(s) /\ pc'[s] = step /\ ref'[s] = i /\ doubt' = doubt
  BY DEF IInv, TypeOK, GoTo, Moves

\* A step of s that leaves the server alone, in which s does not leave a resource
\* that it owns, or leaves in doubt.
LEMMA OwnersStay ==
    ASSUME OwnInv, NEW s \in Scripts, life' = life, late' = late, undone' \subseteq undone,
           s \in undone' => pc'[s] = "idle",
           \A t \in Scripts \ {s} : pc'[t] = pc[t] /\ ref'[t] = ref[t] /\ call'[t] = call[t],
           doubt => doubt',
           ~doubt' => \A i \in Ids : ref[s] = i /\ life[i] \in Unsettled => ~Settles(s, life[i])
    PROVE  OwnedInv'
<1>1. \A t \in undone' : pc'[t] \in {"idle", "await_delete"}
  BY DEF OwnInv, OwnedInv, IInv, TypeOK
<1>2. ASSUME ~doubt', NEW i \in Ids, life'[i] \in Unsettled
      PROVE  \E t \in Scripts : ref'[t] = i /\ Settles(t, life[i])'
  <2>1. PICK t \in Scripts : ref[t] = i /\ Settles(t, life[i])
    BY <1>2 DEF OwnInv, OwnedInv
  <2>2. t # s
    BY <1>2, <2>1
  <2> QED
    BY <2>1, <2>2 DEF Settles
<1> QED
  BY <1>1, <1>2 DEF OwnInv, OwnedInv

\* A step of s that changes the life of i, which is nobody's, or becomes that of s.
LEMMA OwnerChanges ==
    ASSUME OwnInv, NEW s \in Scripts, NEW i \in Ids, late' = late, undone' = undone,
           \A j \in Ids \ {i} : life'[j] = life[j],
           pc[s] \in {"post", "delete"},
           \A t \in Scripts \ {s} : pc'[t] = pc[t] /\ ref'[t] = ref[t] /\ call'[t] = call[t],
           doubt => doubt',
           ~doubt' /\ life'[i] \in Unsettled => ref'[s] = i /\ Settles(s, life[i])'
    PROVE  OwnedInv'
<1>1. s \notin undone
  BY DEF OwnInv, OwnedInv
<1>2. \A t \in undone' : pc'[t] \in {"idle", "await_delete"}
  BY <1>1 DEF OwnInv, OwnedInv, IInv, TypeOK
<1>3. ASSUME ~doubt', NEW j \in Ids \ {i}, life'[j] \in Unsettled
      PROVE  \E t \in Scripts : ref'[t] = j /\ Settles(t, life[j])'
  <2>1. PICK t \in Scripts : ref[t] = j /\ Settles(t, life[j])
    BY <1>3 DEF OwnInv, OwnedInv
  <2>2. t # s
    BY <2>1 DEF Settles
  <2> QED
    BY <1>3, <2>1, <2>2 DEF Settles
<1> QED
  BY <1>2, <1>3 DEF OwnInv, OwnedInv

\* What the ends of a step leave of the other scripts.
LEMMA OthersStay ==
    ASSUME IInv, NEW s \in Scripts,
           \/ \E o, u : End(s, o, u)
           \/ \E i, u : Return(s, i, u)
           \/ \E step, i : GoTo(s, step, i)
    PROVE  \A t \in Scripts \ {s} : pc'[t] = pc[t] /\ ref'[t] = ref[t] /\ call'[t] = call[t]
  BY DEF IInv, TypeOK, End, Return, GoTo

\* The steps that leave the server alone.
LEMMA QuietOwned ==
    ASSUME OwnInv, NEW s \in Scripts,
           \/ FindAdopts(s) \/ FindMisses(s) \/ RequestFails(s) \/ Missing(s)
           \/ PutAnswered(s) \/ AwaitSucceeds(s) \/ AwaitFails(s) \/ AwaitGivesUp(s)
           \/ FetchReturns(s)
    PROVE  OwnedInv'
<1>1. UNCHANGED server /\ IInv
  BY DEF FindAdopts, FindMisses, RequestFails, Missing, PutAnswered, AwaitSucceeds,
     AwaitFails, AwaitGivesUp, FetchReturns, OwnInv
<1>2. UNCHANGED <<life, late, undone>>
  BY <1>1 DEF server
<1>3. \/ \E o, u : End(s, o, u)
      \/ \E i, u : Return(s, i, u)
      \/ \E step, i : GoTo(s, step, i)
  BY DEF FindAdopts, FindMisses, RequestFails, Missing, PutAnswered, AwaitSucceeds,
     AwaitFails, AwaitGivesUp, FetchReturns, AfterMutation
<1>4. \A t \in Scripts \ {s} : pc'[t] = pc[t] /\ ref'[t] = ref[t] /\ call'[t] = call[t]
  BY <1>1, <1>3, OthersStay
<1>5. doubt => doubt'
  BY <1>1, <1>3, EndMoves, ReturnMoves, GoToMoves DEF Moves
<1>6. s \in undone => pc'[s] = "idle"
  <2>1. ASSUME s \in undone PROVE pc[s] = "await_delete"
    BY <2>1 DEF OwnInv, OwnedInv, FindAdopts, FindMisses, RequestFails, Missing, PutAnswered,
       AwaitSucceeds, AwaitFails, AwaitGivesUp, FetchReturns, Awaiting
  <2>2. ASSUME pc[s] = "await_delete" PROVE \E o, u : End(s, o, u)
    BY <2>2 DEF FindAdopts, FindMisses, RequestFails, Missing, PutAnswered,
       AwaitSucceeds, AwaitFails, AwaitGivesUp, FetchReturns
  <2> QED
    BY <1>1, <2>1, <2>2, EndMoves
<1>7. ASSUME ~doubt', NEW i \in Ids, ref[s] = i, life[i] \in Unsettled, Settles(s, life[i])
      PROVE  FALSE
  <2>1. pc[s] \in {"await_create", "await_delete", "fetch"}
    BY <1>7 DEF Settles
  <2>2. CASE RequestFails(s) \/ Missing(s)
    <3>1. pc[s] = "fetch" /\ ~call[s].wait
      BY <1>7, <2>1, <2>2 DEF RequestFails, Missing, Settles
    <3>2. doubt'
      BY <1>1, <2>2, <3>1, EndMoves DEF RequestFails, Missing
    <3> QED
      BY <1>7, <3>2
  <2>3. CASE AwaitSucceeds(s)
    BY <1>7, <2>3 DEF AwaitSucceeds, Succeeded, Settles, Awaiting, Unsettled
  <2>4. CASE AwaitFails(s)
    BY <1>7, <2>4 DEF AwaitFails, Settles, Unsettled
  <2>5. CASE AwaitGivesUp(s)
    BY <1>1, <1>7, <2>5, EndMoves DEF AwaitGivesUp
  <2>6. CASE FetchReturns(s)
    <3>1. ~call[s].wait
      BY <1>7, <2>6 DEF FetchReturns, Settles
    <3>2. doubt'
      BY <1>1, <2>6, <3>1, ReturnMoves DEF FetchReturns
    <3> QED
      BY <1>7, <3>2
  <2> QED
    BY <2>1, <2>2, <2>3, <2>4, <2>5, <2>6 DEF FindAdopts, FindMisses, PutAnswered
<1> QED
  BY <1>2, <1>4, <1>5, <1>6, <1>7, OwnersStay

\* The answers to a POST and a DELETE: the call owns what it has set under way.
LEMMA AnswersOwned ==
    ASSUME OwnInv, NEW s \in Scripts,
           PostAnswered(s) \/ DeleteAnswered(s) \/ DeleteRetried(s)
    PROVE  OwnedInv'
<1>1. /\ late' = late /\ undone' = undone /\ IInv /\ pc[s] \in {"post", "delete"}
      /\ life \in [Ids -> Lives]
  BY DEF OwnInv, IInv, ServerOK, PostAnswered, DeleteAnswered, DeleteRetried, Accept, Remove
<1>2. \/ \E o, u : End(s, o, u)
      \/ \E i, u : Return(s, i, u)
      \/ \E step, i : GoTo(s, step, i)
  BY DEF PostAnswered, DeleteAnswered, DeleteRetried, AfterMutation
<1>3. \A t \in Scripts \ {s} : pc'[t] = pc[t] /\ ref'[t] = ref[t] /\ call'[t] = call[t]
  BY <1>1, <1>2, OthersStay
<1>4. (doubt => doubt') /\ call' = call
  BY <1>1, <1>2, EndMoves, ReturnMoves, GoToMoves DEF Moves
<1>5. s \notin undone
  BY <1>1 DEF OwnInv, OwnedInv
<1>6. CASE PostAnswered(s)
  <2>1. PICK i \in Ids :
           \/ /\ Accept(call[s].kind, call[s].name, i, "building")
              /\ AfterMutation(s, "await_create", i)
           \/ /\ Accept(call[s].kind, call[s].name, i, "ready")
              /\ Return(s, i, FALSE)
    BY <1>6 DEF PostAnswered
  <2>2. /\ \A j \in Ids \ {i} : life'[j] = life[j]
        /\ \/ life'[i] = "ready"
           \/ life'[i] = "building" /\ AfterMutation(s, "await_create", i)
    BY <1>1, <2>1 DEF Accept
  <2>3. life'[i] \in Unsettled => ref'[s] = i /\ Settles(s, life[i])'
    <3>1. ASSUME AfterMutation(s, "await_create", i)
          PROVE  ref'[s] = i /\ pc'[s] = IF call[s].wait THEN "await_create" ELSE "fetch"
      BY <1>1, <3>1, GoToMoves DEF AfterMutation
    <3> QED
      BY <1>4, <2>2, <3>1 DEF Settles, Unsettled
  <2> QED
    BY <1>1, <1>3, <1>4, <2>2, <2>3, OwnerChanges
<1>7. CASE DeleteAnswered(s) \/ DeleteRetried(s)
  <2>1. PICK i \in Ids : i = ref[s]
    BY <1>1, <1>7 DEF DeleteAnswered, DeleteRetried, IInv, TypeOK
  <2>2. PICK l \in {"gone", "deleting"} :
           /\ Remove(i, l)
           /\ l = "deleting" => \/ GoTo(s, "await_delete", i)
                                \/ End(s, "operation", TRUE)
    BY <1>7, <2>1 DEF DeleteAnswered, DeleteRetried
  <2>3. life'[i] = l /\ \A j \in Ids \ {i} : life'[j] = life[j]
    BY <1>1, <2>2 DEF Remove
  <2>4. ASSUME ~doubt', l = "deleting" PROVE ref'[s] = i /\ pc'[s] = "await_delete"
    <3>1. GoTo(s, "await_delete", i)
      BY <1>1, <2>2, <2>4, EndMoves
    <3> QED
      BY <1>1, <3>1, GoToMoves
  <2>5. ~doubt' /\ life'[i] \in Unsettled => ref'[s] = i /\ Settles(s, life[i])'
    BY <1>1, <1>5, <2>3, <2>4 DEF Settles, Unsettled
  <2> QED
    BY <1>1, <1>3, <1>4, <2>3, <2>5, OwnerChanges
<1> QED
  BY <1>6, <1>7

\* The server goes on with what is under way, which stays its owner's.
LEMMA ServerOwned ==
    ASSUME OwnInv, Server
    PROVE  OwnedInv'
<1>1. UNCHANGED <<pc, call, ref, doubt>> /\ life \in [Ids -> Lives]
  BY DEF Server, Build, DeletionFails, LandLate, OwnInv, IInv, ServerOK
<1>2. CASE Build
  <2>1. PICK i \in Ids :
           /\ \A j \in Ids \ {i} : life'[j] = life[j]
           /\ life'[i] \in Unsettled => life[i] = "building" /\ life'[i] = "listed"
    BY <1>1, <1>2 DEF Build, Unsettled
  <2>2. UNCHANGED <<late, undone>>
    BY <1>2 DEF Build
  <2>3. ASSUME ~doubt, NEW j \in Ids, life'[j] \in Unsettled
        PROVE  \E s \in Scripts : ref'[s] = j /\ Settles(s, life[j])'
    <3>1. PICK s \in Scripts : ref[s] = j /\ Settles(s, life[j])
      BY <2>1, <2>3 DEF OwnInv, OwnedInv, Unsettled
    <3> QED
      BY <1>1, <2>1, <2>2, <2>3, <3>1 DEF Settles
  <2> QED
    BY <1>1, <2>2, <2>3 DEF OwnInv, OwnedInv
<1>3. CASE DeletionFails
  <2>1. PICK i \in Ids : /\ life[i] = "deleting" /\ life' = [life EXCEPT ![i] = "ready"]
                         /\ undone' = undone \cup Deleters(i) /\ late' = late
    BY <1>3 DEF DeletionFails
  <2>2. \A s \in undone' : pc'[s] \in {"idle", "await_delete"}
    BY <1>1, <2>1 DEF OwnInv, OwnedInv, Deleters
  <2>3. ASSUME ~doubt, NEW j \in Ids, life'[j] \in Unsettled
        PROVE  \E s \in Scripts : ref'[s] = j /\ Settles(s, life[j])'
    <3>1. j # i /\ life'[j] = life[j]
      BY <1>1, <2>1, <2>3 DEF Unsettled
    <3>2. PICK s \in Scripts : ref[s] = j /\ Settles(s, life[j])
      BY <2>3, <3>1 DEF OwnInv, OwnedInv
    <3> QED
      BY <1>1, <2>1, <3>1, <3>2 DEF Settles, Deleters
  <2> QED
    BY <1>1, <2>1, <2>2, <2>3 DEF OwnInv, OwnedInv
<1>4. CASE LandLate
  <2>1. late # {} /\ UNCHANGED undone
    BY <1>4 DEF LandLate, Accept, Remove
  <2> QED
    BY <1>1, <2>1 DEF OwnInv, OwnedInv
<1> QED
  BY <1>2, <1>3, <1>4 DEF Server

\* Whatever calls run at the same time, what is under way is owned.
THEOREM OwnedInvariance == Spec => []OwnInv
<1>1. Init => OwnedInv
  BY DEF Init, OwnedInv, Unsettled
<1>2. OwnInv /\ [Next]_vars => OwnedInv'
  <2> SUFFICES ASSUME OwnInv, [Next]_vars PROVE OwnedInv'
    OBVIOUS
  <2>1. CASE Server
    BY <2>1, ServerOwned
  <2>2. ASSUME NEW s \in Scripts, Begin(s) PROVE OwnedInv'
    <3>1. /\ pc[s] = "idle" /\ UNCHANGED <<life, late, doubt>> /\ undone' = undone \ {s}
      BY <2>2 DEF Begin
    <3>2. \A t \in Scripts \ {s} : pc'[t] = pc[t] /\ ref'[t] = ref[t] /\ call'[t] = call[t]
      BY <2>2 DEF Begin, OwnInv, IInv, TypeOK
    <3>3. \A i \in Ids : ~Settles(s, life[i])
      BY <3>1 DEF Settles
    <3> QED
      BY <3>1, <3>2, <3>3, OwnersStay
  <2>3. ASSUME NEW s \in Scripts, Script(s) PROVE OwnedInv'
    <3>1. ASSUME PostUnknown(s) \/ DeleteUnknown(s) PROVE OwnedInv'
      <4>1. /\ pc[s] \in {"post", "delete"} /\ End(s, "unknown", TRUE) /\ UNCHANGED undone
            /\ IInv
        BY <3>1 DEF PostUnknown, DeleteUnknown, LeaveLate, OwnInv
      <4>2. doubt' /\ \A t \in Scripts \ {s} : pc'[t] = pc[t]
        BY <4>1, EndMoves DEF Moves
      <4> QED
        BY <4>1, <4>2 DEF OwnInv, OwnedInv, IInv, TypeOK
    <3> QED
      BY <2>3, <3>1, QuietOwned, AnswersOwned DEF Script
  <2>4. CASE UNCHANGED vars
    BY <2>4 DEF vars, OwnInv, OwnedInv, Settles
  <2> QED
    BY <2>1, <2>2, <2>3, <2>4 DEF Next
<1> QED
  BY <1>1, <1>2, Invariance, PTL DEF Spec, OwnInv

-----------------------------------------------------------------------------
(* Calls that run one after the other, as well.                            *)

\* No resource that lives, or is about to, has the name of the call.
NameIsFree(s) ==
    \A i \in Ids : life[i] \in Live => Canon[name[i]] # Canon[call[s].name]

\* Resource j was made by an ensure() although there was one of its name; either may
\* be being deleted, for the deletion may fail.
Twins(i, j) ==
    /\ i < j /\ origin[j] = "ensure" /\ Canon[name[i]] = Canon[name[j]]
    /\ life[i] \in Live /\ life[j] \in Live

\* At most one call runs; what an ensure is about to create is not there.
AloneInv ==
    ~doubt /\ ~overlap =>
        /\ \A s, t \in Scripts : pc[s] # "idle" /\ pc[t] # "idle" => s = t
        /\ \A s \in Scripts : pc[s] = "post" /\ call[s].kind = "ensure" => NameIsFree(s)
        /\ \A i, j \in Ids : ~Twins(i, j)

\* Ids are drawn in their order.
DrawnInOrder == \A i, j \in Ids : i < j /\ life[i] = "unused" => life[j] = "unused"

AdoptInv == OwnInv /\ DrawnInOrder /\ AloneInv

\* What the script in a call can rely on when it is alone.
LEMMA AloneFacts ==
    ASSUME AdoptInv, ~doubt, ~overlap, NEW s \in Scripts, pc[s] # "idle"
    PROVE  /\ late = {}
           /\ \A t \in Scripts \ {s} : pc[t] = "idle"
           /\ \A i \in Ids : life[i] \in Unsettled => ref[s] = i /\ Settles(s, life[i])
           /\ \A i, j \in Ids : ~Twins(i, j)
<1>1. \A t \in Scripts, l \in Lives : Settles(t, l) => pc[t] # "idle"
  BY DEF Settles
<1>2. \A i \in Ids : life[i] \in Lives
  BY DEF AdoptInv, OwnInv, IInv, ServerOK
<1> QED
  BY <1>1, <1>2 DEF AdoptInv, AloneInv, OwnInv, OwnedInv

\* In every other step of a call, nothing is under way.
LEMMA NothingUnderWay ==
    ASSUME AdoptInv, ~doubt, ~overlap, NEW s \in Scripts,
           pc[s] \notin {"idle", "await_create", "await_delete"},
           pc[s] = "fetch" => call[s].wait
    PROVE  \A i \in Ids : life[i] \notin Unsettled
  BY AloneFacts DEF Settles

\* A step of a call that leaves the server alone.
LEMMA SettledStep ==
    ASSUME AdoptInv, NEW s \in Scripts, pc[s] # "idle", Moves(s), UNCHANGED server,
           ~doubt' /\ ~overlap /\ pc'[s] = "post" /\ call[s].kind = "ensure" => NameIsFree(s)
    PROVE  DrawnInOrder' /\ AloneInv'
<1>1. UNCHANGED <<life, name, origin>>
  BY DEF server
<1>2. DrawnInOrder'
  BY <1>1 DEF AdoptInv, DrawnInOrder
<1>3. ASSUME ~doubt', ~overlap' PROVE AloneInv'
  <2>1. ~doubt /\ ~overlap
    BY <1>3 DEF Moves
  <2>2. /\ \A t \in Scripts \ {s} : pc'[t] = "idle"
        /\ \A i, j \in Ids : ~Twins(i, j)
    BY <2>1, AloneFacts DEF Moves
  <2>3. \A i, j \in Ids : ~Twins(i, j)'
    BY <1>1, <2>2 DEF Twins
  <2>4. \A t \in Scripts : pc'[t] = "post" /\ call'[t].kind = "ensure" => NameIsFree(t)'
    BY <1>1, <1>3, <2>1, <2>2 DEF NameIsFree, Moves
  <2> QED
    BY <2>2, <2>3, <2>4 DEF AloneInv
<1> QED
  BY <1>2, <1>3 DEF AloneInv

\* A step that ends in doubt owes nothing but the order of the ids.
LEMMA DoubtfulStep == doubt' => AloneInv'
  BY DEF AloneInv
-----------------------------------------------------------------------------
(* The steps of the scripts and of the server, seen so. *)

\* A call begins when nothing is under way, or no call is alone any more.
LEMMA BeginAlone ==
    ASSUME AdoptInv, NEW s \in Scripts, Begin(s)
    PROVE  DrawnInOrder' /\ AloneInv'
<1>1. PICK c \in Calls : /\ call' = [call EXCEPT ![s] = c]
                         /\ pc' = [pc EXCEPT ![s] = FirstStep[c.kind]]
  BY DEF Begin
<1>2. /\ overlap' = (overlap \/ \E t \in Scripts : pc[t] # "idle")
      /\ UNCHANGED <<life, name, origin, late, doubt>>
  BY DEF Begin
<1>3. c.kind \in {"ensure", "create", "update", "delete"}
  BY KindAssumption DEF Calls
<1>4. pc'[s] = "post" => call'[s].kind # "ensure"
  BY <1>1, <1>3 DEF AdoptInv, OwnInv, IInv, TypeOK, FirstStep
<1>5. DrawnInOrder'
  BY <1>2 DEF AdoptInv, DrawnInOrder
<1>6. ASSUME ~doubt', ~overlap' PROVE AloneInv'
  <2>1. ~overlap /\ \A t \in Scripts : pc[t] = "idle"
    BY <1>2, <1>6, Zenon
  <2>2. ~doubt
    BY <1>2, <1>6
  <2>3. \A i, j \in Ids : ~Twins(i, j)
    BY <2>1, <2>2 DEF AdoptInv, AloneInv
  <2>4. \A t \in Scripts \ {s} : pc'[t] = "idle"
    BY <1>1, <2>1 DEF AdoptInv, OwnInv, IInv, TypeOK
  <2>5. \A i, j \in Ids : ~Twins(i, j)'
    BY <1>2, <2>3 DEF Twins
  <2> QED
    BY <1>4, <2>4, <2>5 DEF AloneInv
<1> QED
  BY <1>5, <1>6 DEF AloneInv

\* The steps that leave the server alone.
LEMMA QuietAlone ==
    ASSUME AdoptInv, NEW s \in Scripts,
           \/ FindAdopts(s) \/ FindMisses(s) \/ RequestFails(s) \/ Missing(s)
           \/ PutAnswered(s) \/ AwaitSucceeds(s) \/ AwaitFails(s) \/ AwaitGivesUp(s)
           \/ FetchReturns(s)
    PROVE  DrawnInOrder' /\ AloneInv'
<1>1. UNCHANGED server
  BY DEF FindAdopts, FindMisses, RequestFails, Missing, PutAnswered, AwaitSucceeds,
     AwaitFails, AwaitGivesUp, FetchReturns
<1>2. IInv
  BY DEF AdoptInv, OwnInv
<1>3. CASE FindAdopts(s)
  <2>1. pc[s] = "find" /\ Moves(s) /\ pc'[s] # "post"
    <3>1. PICK i \in Matches(s) :
             IF call[s].update THEN GoTo(s, "put", i) ELSE Return(s, i, FALSE)
      BY <1>3 DEF FindAdopts
    <3>2. CASE GoTo(s, "put", i)
      BY <1>2, <1>3, <3>2, GoToMoves DEF FindAdopts
    <3>3. CASE Return(s, i, FALSE)
      BY <1>2, <1>3, <3>3, ReturnMoves DEF FindAdopts
    <3> QED
      BY <3>1, <3>2, <3>3
  <2> QED
    BY <1>1, <2>1, SettledStep DEF Moves
<1>4. CASE FindMisses(s)
  <2>1. pc[s] = "find" /\ Moves(s) /\ Matches(s) = {}
    BY <1>2, <1>4, GoToMoves DEF FindMisses
  <2>2. ASSUME ~doubt', ~overlap PROVE NameIsFree(s)
    <3>1. \A i \in Ids : life[i] \notin Unsettled
      BY <2>1, <2>2, NothingUnderWay DEF Moves
    <3> QED
      BY <2>1, <3>1 DEF Matches, Visible, SameName, NameIsFree, Live, Unsettled
  <2> QED
    BY <1>1, <2>1, <2>2, SettledStep DEF Moves
<1>5. CASE RequestFails(s) \/ Missing(s)
  <2>1. /\ pc[s] \in {"find", "post", "put", "delete", "fetch"}
        /\ Moves(s) /\ pc'[s] = "idle"
        /\ pc[s] = "fetch" /\ ~call[s].wait => doubt'
    BY <1>2, <1>5, EndMoves DEF RequestFails, Missing
  <2> QED
    BY <1>1, <2>1, SettledStep DEF Moves
<1>6. CASE PutAnswered(s)
  <2>1. pc[s] = "put" /\ Moves(s) /\ pc'[s] # "post"
    <3>1. CASE GoTo(s, "await_update", ref[s]) \/ GoTo(s, "fetch", ref[s])
      BY <1>2, <1>6, <3>1, GoToMoves DEF PutAnswered
    <3>2. CASE Return(s, ref[s], FALSE)
      BY <1>2, <1>6, <3>2, ReturnMoves DEF PutAnswered
    <3> QED
      BY <1>6, <3>1, <3>2 DEF PutAnswered, AfterMutation
  <2> QED
    BY <1>1, <2>1, SettledStep DEF Moves
<1>7. CASE AwaitSucceeds(s) \/ AwaitFails(s)
  <2>1. pc[s] \in Awaiting /\ Moves(s) /\ pc'[s] # "post"
    <3>1. pc[s] \in Awaiting
      BY <1>7 DEF AwaitSucceeds, AwaitFails, Awaiting
    <3>2. CASE GoTo(s, "fetch", ref[s])
      BY <1>2, <3>1, <3>2, GoToMoves
    <3>3. CASE End(s, "operation", FALSE) \/ End(s, "operation_error", FALSE)
      BY <1>2, <3>1, <3>3, EndMoves
    <3> QED
      BY <1>7, <3>2, <3>3 DEF AwaitSucceeds, AwaitFails
  <2> QED
    BY <1>1, <2>1, SettledStep DEF Awaiting
<1>8. CASE AwaitGivesUp(s)
  <2>1. doubt'
    BY <1>2, <1>8, EndMoves DEF AwaitGivesUp
  <2>2. DrawnInOrder'
    BY <1>1 DEF server, AdoptInv, DrawnInOrder
  <2> QED
    BY <2>1, <2>2, DoubtfulStep
<1>9. CASE FetchReturns(s)
  <2>1. pc[s] = "fetch" /\ Moves(s) /\ pc'[s] = "idle" /\ (~call[s].wait => doubt')
    BY <1>2, <1>9, ReturnMoves DEF FetchReturns
  <2> QED
    BY <1>1, <2>1, SettledStep DEF Moves
<1> QED
  BY <1>3, <1>4, <1>5, <1>6, <1>7, <1>8, <1>9
\* A resource is made by the call that is alone: none has a later id, and one of an
\* ensure has a name that is free.
LEMMA AcceptAlone ==
    ASSUME AdoptInv, NEW s \in Scripts, pc[s] = "post", NEW i \in Ids,
           NEW l \in {"building", "ready"}, Accept(call[s].kind, call[s].name, i, l),
           Moves(s), pc'[s] # "post"
    PROVE  DrawnInOrder' /\ AloneInv'
<1>1. /\ life[i] = "unused" /\ \A j \in Ids : life[j] = "unused" => i <= j
      /\ life'[i] = l /\ name'[i] = call[s].name /\ origin'[i] = call[s].kind
      /\ \A j \in Ids \ {i} : /\ life'[j] = life[j] /\ name'[j] = name[j]
                              /\ origin'[j] = origin[j]
  BY DEF Accept, Unused, AdoptInv, OwnInv, IInv, ServerOK
<1>2. DrawnInOrder'
  BY <1>1 DEF AdoptInv, DrawnInOrder, Ids
<1>3. ASSUME ~doubt', ~overlap' PROVE AloneInv'
  <2>1. ~doubt /\ ~overlap
    BY <1>3 DEF Moves
  <2>2. /\ \A t \in Scripts \ {s} : pc'[t] = "idle"
        /\ \A a, b \in Ids : ~Twins(a, b)
    BY <2>1, AloneFacts DEF Moves
  <2>3. call[s].kind = "ensure" => NameIsFree(s)
    BY <2>1 DEF AdoptInv, AloneInv
  <2>4. ASSUME NEW a \in Ids, NEW b \in Ids, Twins(a, b)' PROVE FALSE
    <3>1. /\ a < b /\ origin'[b] = "ensure" /\ Canon[name'[a]] = Canon[name'[b]]
          /\ life'[a] \in Live /\ life'[b] \in Live
      BY <2>4 DEF Twins
    <3>2. CASE a = i
      BY <1>1, <3>1, <3>2 DEF AdoptInv, DrawnInOrder, Ids, Live
    <3>3. CASE b = i
      <4>1. a \in Ids \ {i}
        BY <3>1, <3>3 DEF Ids
      <4> QED
        BY <1>1, <2>3, <3>1, <3>3, <4>1 DEF NameIsFree
    <3>4. CASE a # i /\ b # i
      BY <1>1, <2>2, <3>1, <3>4 DEF Twins
    <3> QED
      BY <3>2, <3>3, <3>4
  <2> QED
    BY <2>2, <2>4 DEF AloneInv
<1> QED
  BY <1>2, <1>3 DEF AloneInv

\* A resource is removed by the call that is alone.
LEMMA RemoveAlone ==
    ASSUME AdoptInv, NEW s \in Scripts, pc[s] = "delete", ref[s] \in Ids,
           NEW l \in {"deleting", "gone"}, Remove(ref[s], l), Moves(s),
           pc'[s] # "post"
    PROVE  DrawnInOrder' /\ AloneInv'
<1>1. /\ life[ref[s]] \in Live /\ life'[ref[s]] = l /\ UNCHANGED <<name, origin>>
      /\ \A j \in Ids \ {ref[s]} : life'[j] = life[j]
  BY DEF Remove, Visible, Live, AdoptInv, OwnInv, IInv, ServerOK
<1>2. DrawnInOrder'
  BY <1>1 DEF AdoptInv, DrawnInOrder, Live
<1>3. ASSUME ~doubt', ~overlap' PROVE AloneInv'
  <2>1. ~doubt /\ ~overlap
    BY <1>3 DEF Moves
  <2>2. /\ \A t \in Scripts \ {s} : pc'[t] = "idle"
        /\ \A a, b \in Ids : ~Twins(a, b)
    BY <2>1, AloneFacts DEF Moves
  <2>3. \A a, b \in Ids : ~Twins(a, b)'
    BY <1>1, <2>2 DEF Twins
  <2> QED
    BY <2>2, <2>3 DEF AloneInv
<1> QED
  BY <1>2, <1>3 DEF AloneInv

\* The answers to a POST and a DELETE.
LEMMA AnswersAlone ==
    ASSUME AdoptInv, NEW s \in Scripts,
           PostAnswered(s) \/ DeleteAnswered(s) \/ DeleteRetried(s)
    PROVE  DrawnInOrder' /\ AloneInv'
<1>1. IInv
  BY DEF AdoptInv, OwnInv
<1>2. CASE PostAnswered(s)
  <2>1. PICK i \in Ids :
           \/ /\ Accept(call[s].kind, call[s].name, i, "building")
              /\ AfterMutation(s, "await_create", i)
           \/ /\ Accept(call[s].kind, call[s].name, i, "ready")
              /\ Return(s, i, FALSE)
    BY <1>2 DEF PostAnswered
  <2>2. pc[s] = "post"
    BY <1>2 DEF PostAnswered
  <2>3. CASE Accept(call[s].kind, call[s].name, i, "building")
             /\ AfterMutation(s, "await_create", i)
    <3>1. Moves(s) /\ pc'[s] \in {"await_create", "fetch"}
      BY <1>1, <2>3, GoToMoves DEF AfterMutation
    <3> QED
      BY <2>2, <2>3, <3>1, AcceptAlone
  <2>4. CASE Accept(call[s].kind, call[s].name, i, "ready") /\ Return(s, i, FALSE)
    <3>1. Moves(s) /\ pc'[s] = "idle"
      BY <1>1, <2>4, ReturnMoves
    <3> QED
      BY <1>1, <2>2, <2>4, <3>1, AcceptAlone
  <2> QED
    BY <2>1, <2>3, <2>4
<1>3. CASE DeleteAnswered(s) \/ DeleteRetried(s)
  <2>1. pc[s] = "delete" /\ ref[s] \in Ids
    BY <1>1, <1>3 DEF DeleteAnswered, DeleteRetried, IInv, TypeOK
  <2>2. CASE Remove(ref[s], "gone")
             /\ (End(s, "operation", FALSE) \/ End(s, "not_found", FALSE))
    <3>1. Moves(s) /\ pc'[s] = "idle"
      BY <1>1, <2>2, EndMoves
    <3> QED
      BY <1>1, <2>1, <2>2, <3>1, RemoveAlone
  <2>3. CASE Remove(ref[s], "deleting") /\ GoTo(s, "await_delete", ref[s])
    <3>1. Moves(s) /\ pc'[s] = "await_delete"
      BY <1>1, <2>3, GoToMoves
    <3> QED
      BY <1>1, <2>1, <2>3, <3>1, RemoveAlone
  <2>4. CASE Remove(ref[s], "deleting") /\ End(s, "operation", TRUE)
    <3>1. Moves(s) /\ pc'[s] = "idle"
      BY <1>1, <2>4, EndMoves
    <3> QED
      BY <1>1, <2>1, <2>4, <3>1, RemoveAlone
  <2> QED
    BY <1>3, <2>2, <2>3, <2>4 DEF DeleteAnswered, DeleteRetried
<1> QED
  BY <1>2, <1>3

\* A request left on the wire leaves its caller in doubt.
LEMMA UnknownAlone ==
    ASSUME AdoptInv, NEW s \in Scripts, PostUnknown(s) \/ DeleteUnknown(s)
    PROVE  DrawnInOrder' /\ AloneInv'
<1>1. End(s, "unknown", TRUE) /\ UNCHANGED life
  BY DEF PostUnknown, DeleteUnknown, LeaveLate
<1>2. doubt'
  BY <1>1, EndMoves DEF AdoptInv, OwnInv
<1>3. DrawnInOrder'
  BY <1>1 DEF AdoptInv, DrawnInOrder
<1> QED
  BY <1>2, <1>3, DoubtfulStep

\* The server goes on with what is under way, and makes nothing of its own.
LEMMA ServerAlone ==
    ASSUME AdoptInv, Server
    PROVE  DrawnInOrder' /\ AloneInv'
<1>1. UNCHANGED <<pc, call, doubt, overlap>> /\ life \in [Ids -> Lives]
  BY DEF Server, Build, DeletionFails, LandLate, AdoptInv, OwnInv, IInv, ServerOK
<1>2. CASE Build \/ DeletionFails
  <2>1. PICK i \in Ids :
           /\ life[i] \in Live /\ life'[i] # "unused"
           /\ \A j \in Ids \ {i} : life'[j] = life[j]
    BY <1>1, <1>2 DEF Build, DeletionFails, Live
  <2>2. UNCHANGED <<name, origin>>
    BY <1>2 DEF Build, DeletionFails
  <2>3. DrawnInOrder'
    BY <2>1 DEF AdoptInv, DrawnInOrder, Live
  <2>4. \A j \in Ids : life'[j] \in Live => life[j] \in Live
    BY <2>1
  <2>5. AloneInv'
    BY <1>1, <2>2, <2>4 DEF AdoptInv, AloneInv, NameIsFree, Twins
  <2> QED
    BY <2>3, <2>5
<1>3. CASE LandLate
  <2>1. late # {}
    BY <1>3 DEF LandLate
  <2>2. DrawnInOrder'
    <3>1. PICK r \in late :
             \/ \E i \in Ids : Accept(r.kind, r.name, i, "building")
             \/ r.kind = "delete" /\ Remove(r.id, "deleting")
             \/ UNCHANGED life
      BY <1>3 DEF LandLate
    <3>2. ASSUME NEW i \in Ids, Accept(r.kind, r.name, i, "building") PROVE DrawnInOrder'
      BY <1>1, <3>2 DEF Accept, Unused, AdoptInv, DrawnInOrder, Ids
    <3>3. ASSUME r.kind = "delete", Remove(r.id, "deleting") PROVE DrawnInOrder'
      BY <1>1, <3>3 DEF Remove, Visible, AdoptInv, DrawnInOrder
    <3>4. CASE UNCHANGED life
      BY <3>4 DEF AdoptInv, DrawnInOrder
    <3> QED
      BY <3>1, <3>2, <3>3, <3>4
  <2> QED
    BY <1>1, <2>1, <2>2 DEF AdoptInv, OwnInv, OwnedInv, AloneInv
<1> QED
  BY <1>2, <1>3 DEF Server

\* The invariant with what holds of calls that run one after the other.
THEOREM AloneInvariance == Spec => []AdoptInv
<1>1. Init => DrawnInOrder /\ AloneInv
  BY DEF Init, DrawnInOrder, AloneInv, Twins, Live
<1>2. AdoptInv /\ [Next]_vars => DrawnInOrder' /\ AloneInv'
  <2> SUFFICES ASSUME AdoptInv, [Next]_vars PROVE DrawnInOrder' /\ AloneInv'
    OBVIOUS
  <2>1. CASE Server
    BY <2>1, ServerAlone
  <2>2. ASSUME NEW s \in Scripts, Begin(s) PROVE DrawnInOrder' /\ AloneInv'
    BY <2>2, BeginAlone
  <2>3. ASSUME NEW s \in Scripts, Script(s) PROVE DrawnInOrder' /\ AloneInv'
    BY <2>3, QuietAlone, AnswersAlone, UnknownAlone DEF Script
  <2>4. CASE UNCHANGED vars
    BY <2>4 DEF vars, AdoptInv, DrawnInOrder, AloneInv, NameIsFree, Twins
  <2> QED
    BY <2>1, <2>2, <2>3, <2>4 DEF Next
<1> QED
  BY <1>1, <1>2, OwnedInvariance, PTL DEF Spec, AdoptInv

\* ensure() never makes a second resource of a name, under any spelling, as long as
\* the calls run one after the other and have all ended settled.
THEOREM EnsuresAdopt == Spec => []EnsureAdopts
<1>1. AdoptInv => EnsureAdopts
  BY DEF AdoptInv, AloneInv, EnsureAdopts, Duplicate, Twins, Live
<1> QED
  BY AloneInvariance, <1>1, PTL

-----------------------------------------------------------------------------
(* What a call returns, whatever calls run at the same time. *)

\* A resource that shows is ready, or is that of another call, which runs on.
LEMMA ReadyOrWorked ==
    ASSUME OwnInv, NEW s \in Scripts, NEW i \in Ids, NEW u \in BOOLEAN, Return(s, i, u),
           life' = life, Visible(i), ~doubt',
           pc[s] \notin {"await_create", "await_delete"},
           pc[s] = "fetch" => call[s].wait
    PROVE  life'[ref'[s]] = "ready" \/ \E t \in Scripts : Working(t, ref[s])'
<1>1. /\ ref'[s] = i /\ ~doubt /\ IInv
      /\ \A t \in Scripts \ {s} : pc'[t] = pc[t] /\ ref'[t] = ref[t] /\ call'[t] = call[t]
  BY ReturnMoves DEF Moves, Return, OwnInv, IInv, TypeOK
<1>2. CASE life[i] = "ready"
  BY <1>1, <1>2
<1>3. CASE life[i] \in Unsettled
  <2>1. PICK t \in Scripts : ref[t] = i /\ Settles(t, life[i])
    BY <1>1, <1>3 DEF OwnInv, OwnedInv
  <2>2. t # s
    BY <2>1 DEF Settles
  <2>3. Working(t, ref[s])'
    BY <1>1, <2>1, <2>2 DEF Working, Settles
  <2> QED
    BY <2>3
<1> QED
  BY <1>2, <1>3 DEF Visible, Unsettled

\* The steps that return a resource.
LEMMA ReturnedIsReady ==
    ASSUME OwnInv, NEW s \in Scripts, Script(s), pc'[s] = "idle",
           outcome'[s] = "resource", ~doubt'
    PROVE  life'[ref'[s]] = "ready" \/ \E t \in Scripts : Working(t, ref[s])'
<1>1. IInv /\ outcome \in [Scripts -> Outcomes]
  BY DEF OwnInv, IInv, TypeOK
<1>2. ASSUME NEW step \in {"post", "put", "fetch"} \cup Awaiting, NEW i, GoTo(s, step, i)
      PROVE  FALSE
  BY <1>1, <1>2, GoToMoves DEF Awaiting
<1>3. ASSUME NEW o \in Outcomes \ {"resource"}, NEW u, End(s, o, u) PROVE FALSE
  BY <1>1, <1>3 DEF End
<1>4. CASE FindAdopts(s)
  <2>1. PICK i \in Matches(s) :
           IF call[s].update THEN GoTo(s, "put", i) ELSE Return(s, i, FALSE)
    BY <1>4 DEF FindAdopts
  <2>2. /\ i \in Ids /\ Visible(i) /\ Return(s, i, FALSE) /\ pc[s] = "find"
        /\ life' = life
    BY <1>2, <1>4, <2>1 DEF Matches, FindAdopts, server
  <2> QED
    BY <2>2, ReadyOrWorked
<1>5. CASE PostAnswered(s)
  <2>1. PICK i \in Ids :
           \/ AfterMutation(s, "await_create", i)
           \/ /\ Accept(call[s].kind, call[s].name, i, "ready")
              /\ Return(s, i, FALSE)
    BY <1>5 DEF PostAnswered
  <2>2. Accept(call[s].kind, call[s].name, i, "ready") /\ Return(s, i, FALSE)
    BY <1>2, <2>1 DEF AfterMutation, Awaiting
  <2> QED
    BY <1>1, <2>2 DEF Accept, Return, IInv, TypeOK, ServerOK
<1>6. CASE PutAnswered(s)
  <2>1. PICK i \in Ids : i = ref[s]
    BY <1>1, <1>6 DEF PutAnswered, IInv, TypeOK
  <2>2. Return(s, i, FALSE) /\ Visible(i) /\ pc[s] = "put" /\ life' = life
    BY <1>2, <1>6, <2>1 DEF PutAnswered, AfterMutation, Awaiting, server
  <2> QED
    BY <2>2, ReadyOrWorked
<1>7. CASE FetchReturns(s)
  <2>1. PICK i \in Ids : i = ref[s]
    BY <1>1, <1>7 DEF FetchReturns, IInv, TypeOK
  <2>2. PICK u \in BOOLEAN : u <=> ~call[s].wait
    OBVIOUS
  <2>3. Return(s, i, u) /\ Visible(i) /\ pc[s] = "fetch" /\ life' = life
    BY <1>7, <2>1, <2>2 DEF FetchReturns, Return, server
  <2>4. call[s].wait
    BY <1>1, <2>2, <2>3, ReturnMoves
  <2> QED
    BY <2>3, <2>4, ReadyOrWorked
<1>8. CASE RequestFails(s) \/ Missing(s) \/ PostUnknown(s) \/ DeleteUnknown(s)
  BY <1>3, <1>8 DEF RequestFails, Missing, PostUnknown, DeleteUnknown, LeaveLate, Outcomes
<1>9. CASE FindMisses(s) \/ DeleteAnswered(s) \/ DeleteRetried(s)
  BY <1>2, <1>3, <1>9 DEF FindMisses, DeleteAnswered, DeleteRetried, Awaiting, Outcomes
<1>10. CASE AwaitSucceeds(s) \/ AwaitFails(s) \/ AwaitGivesUp(s)
  BY <1>2, <1>3, <1>10 DEF AwaitSucceeds, AwaitFails, AwaitGivesUp, Outcomes
<1> QED
  BY <1>4, <1>5, <1>6, <1>7, <1>8, <1>9, <1>10 DEF Script

\* Whatever ensure(), create() and update() return is ready, or is what a call that
\* runs at the same time is creating or deleting, as long as none has ended in doubt.
THEOREM ResourcesAreReady == Spec => ReturnsReady
<1> DEFINE Ready(s) ==
        pc[s] # "idle" /\ pc'[s] = "idle" /\ outcome'[s] = "resource" /\ ~doubt'
        => life'[ref'[s]] = "ready" \/ \E t \in Scripts : Working(t, ref[s])'
<1>1. ASSUME OwnInv, [Next]_vars, NEW s \in Scripts PROVE Ready(s)
  <2>1. ASSUME NEW t \in Scripts, Begin(t) PROVE Ready(s)
    <3>1. t = s => pc[s] = "idle"
      BY <2>1 DEF Begin
    <3>2. t # s => pc'[s] = pc[s]
      BY <1>1, <2>1 DEF Begin, OwnInv, IInv, TypeOK
    <3> QED
      BY <3>1, <3>2
  <2>2. ASSUME NEW t \in Scripts, Script(t), t # s PROVE pc'[s] = pc[s]
    BY <1>1, <2>2 DEF OwnInv, IInv, TypeOK, Script, FindAdopts, FindMisses, RequestFails,
       PostAnswered, PostUnknown, PutAnswered, Missing, DeleteAnswered, DeleteUnknown,
       DeleteRetried, AwaitSucceeds, AwaitFails, AwaitGivesUp, FetchReturns, LeaveLate,
       AfterMutation, GoTo, Return, End
  <2>3. CASE Script(s)
    BY <1>1, <2>3, ReturnedIsReady
  <2>4. CASE Server \/ UNCHANGED vars
    BY <2>4 DEF Server, Build, DeletionFails, LandLate, vars
  <2> QED
    BY <1>1, <2>1, <2>2, <2>3, <2>4 DEF Next
<1>2. OwnInv /\ [Next]_vars
      => [\A s \in Scripts :
             pc[s] # "idle" /\ pc'[s] = "idle" /\ outcome'[s] = "resource" /\ ~doubt'
             => \/ life'[ref'[s]] = "ready"
                \/ \E t \in Scripts : Working(t, ref[s])']_vars
  BY <1>1
<1> QED
  BY OwnedInvariance, <1>2, PTL DEF Spec, ReturnsReady
=============================================================================
