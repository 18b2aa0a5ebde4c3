-------------------------- MODULE RequestLifetime --------------------------
(***************************************************************************)
(* Client requests over the provider runtime: api/routes.py,               *)
(* api/handlers/, application/execution.py, api/response_streams.py, and   *)
(* the usage record of core/usage_tracking.py.                             *)
(*                                                                         *)
(* A request retains a generation, opens a stream over a provider (or over *)
(* the local web tools), answers with it, and gives the generation back    *)
(* when the body is closed.  The body is a chain of asynchronous iterators *)
(* and "open" until the innermost one is closed; an exception or a         *)
(* cancellation that leaves the chain has closed it on its way.            *)
(***************************************************************************)
EXTENDS ProviderGenerations, Sequences

VARIABLE request       \* each request: its place, API, body and usage records

reqVars == <<request>>

\* "json" is a Messages request with stream false, "probe" a test_provider call.
Wire == {"messages", "json", "responses", "probe"}
RequestPlace == {"new", "starting", "streaming", "failing", "cleaning",
                 "releasing", "done"}
BodyState == {"none", "open", "complete", "failed", "interrupted"}
RecordStatus == {"success", "error", "cancelled"}
NewRequest == [pc |-> "new", wire |-> "messages", body |-> "none", usage |-> <<>>]

RequestInit == request = [r \in Requests |-> NewRequest]

-----------------------------------------------------------------------------
\* UsageTrackingStream._finalize: the first outcome is the one recorded.
Finalize(rec, status) ==
  IF rec.usage = <<>> THEN [rec EXCEPT !.usage = <<status>>] ELSE rec

\* Mutant of CloseBody: closing always records a cancellation.
CloseBodyAnyway(rec) ==
  [rec EXCEPT !.body = IF rec.body = "open" THEN "interrupted" ELSE rec.body,
              !.usage = <<"cancelled">>]

\* UsageTrackingStream.aclose, reached when an open chain is closed.
CloseBody(rec) ==
  Finalize([rec EXCEPT !.body = IF rec.body = "open" THEN "interrupted" ELSE rec.body],
           "cancelled")

\* How the upstream can end a body that is being iterated, and what
\* UsageTrackingStream.__anext__ records of it.
Completed(rec) == Finalize([rec EXCEPT !.body = "complete"], "success")
Raised(rec) == Finalize([rec EXCEPT !.body = "failed"], "error")
Interrupted(rec) == Finalize([rec EXCEPT !.body = "interrupted"], "cancelled")

\* The Responses adapter returns at the terminal event: it closes an upstream
\* that has not been read to its end.
Exhausted(rec) ==
  IF rec.wire = "responses"
  THEN [Finalize(rec, "cancelled") EXCEPT !.body = "complete"]
  ELSE Completed(rec)

-----------------------------------------------------------------------------
\* acquire() refuses while the manager is closing.
Refused(r) ==
  /\ request[r].pc = "new" /\ (closing \/ closed)
  /\ request' = [request EXCEPT ![r].pc = "done"]
  /\ UNCHANGED genVars

\* Answered before any stream exists: the request or its routing is invalid, the
\* provider is unknown or rejects it in preflight.
Rejects(r) ==
  /\ request[r].pc = "new" /\ task[Startup].stage # "none"
  /\ request' = [request EXCEPT ![r].pc = "done"]
  /\ \E clients \in AtMostOne : Glimpse(clients)

\* A local optimization answers with a message and records it at once.
Optimizes(r) ==
  /\ request[r].pc = "new" /\ task[Startup].stage # "none"
  /\ request' = [request EXCEPT ![r].pc = "done", ![r].usage = <<"success">>]
  /\ Glimpse({})

\* ProviderExecutor.stream, or the local web tools, which need no client and
\* serve the Messages API only.
Opens(r, wire, clients) ==
  /\ request[r].pc = "new" /\ task[Startup].stage # "none"
  /\ wire = "responses" => clients # {}
  /\ request' = [request EXCEPT ![r].pc = "starting", ![r].wire = wire,
                                ![r].body = "open"]
  /\ Retain(r, clients)

\* The first chunk has arrived: ManagedStreamingResponse now owns the body and
\* the lease.
FirstChunk(r) ==
  /\ request[r].pc = "starting" /\ request[r].wire \in {"messages", "responses"}
  /\ \E rec \in {request[r]} \cup
               (IF request[r].wire = "responses" THEN {Completed(request[r])} ELSE {}) :
       request' = [request EXCEPT ![r] = [rec EXCEPT !.pc = "streaming"]]
  /\ UNCHANGED genVars

\* The stream raised, or ended, before its first chunk (a Responses stream never
\* ends without one): the close of the body is awaited in a task of its own,
\* then an error is answered.
StartFails(r) ==
  /\ request[r].pc = "starting" /\ request[r].wire \in {"messages", "responses"}
  /\ \E rec \in {Raised(request[r]), Interrupted(request[r])} \cup
               (IF request[r].wire = "messages" THEN {Completed(request[r])} ELSE {}) :
       request' = [request EXCEPT ![r] = [rec EXCEPT !.pc = "failing"]]
  /\ UNCHANGED genVars

FailureAnswered(r) ==
  /\ request[r].pc = "failing"
  /\ request' = [request EXCEPT ![r] = [CloseBody(request[r]) EXCEPT !.pc = "done"]]
  /\ Release(r, {})

\* aggregate_anthropic_sse_to_message: the whole stream, then one answer.
Aggregates(r) ==
  /\ request[r].pc = "starting" /\ request[r].wire = "json"
  /\ \E rec \in {Completed(request[r]), Raised(request[r]), Interrupted(request[r])} :
       request' = [request EXCEPT ![r] = [rec EXCEPT !.pc = "done"]]
  /\ Release(r, {})

\* The body ended, a failure became a terminal frame, or the client went away:
\* while the next chunk was awaited, or while one was being sent, which leaves
\* the chain open.
StreamingEnds(r) ==
  /\ request[r].pc = "streaming"
  /\ \E rec \in {request[r]} \cup
               (IF request[r].body = "open"
                THEN {Exhausted(request[r]), Completed(request[r]), Raised(request[r]),
                      Interrupted(request[r])}
                ELSE {}) :
       request' = [request EXCEPT ![r] = [rec EXCEPT !.pc = "cleaning"]]
  /\ UNCHANGED genVars

\* ManagedStreamingResponse._cleanup, a task that a cancelled caller keeps
\* waiting for: the body first, then the lease.
CleanupClosesBody(r) ==
  /\ request[r].pc = "cleaning"
  /\ request' = [request EXCEPT ![r] = [CloseBody(request[r]) EXCEPT !.pc = "releasing"]]
  /\ UNCHANGED genVars

\* Mutant of CleanupReleases: the lease is not given back.
CleanupDrops(r) ==
  /\ request[r].pc = "releasing"
  /\ request' = [request EXCEPT ![r].pc = "done"]
  /\ UNCHANGED genVars

CleanupReleases(r) ==
  /\ request[r].pc = "releasing"
  /\ request' = [request EXCEPT ![r].pc = "done"]
  /\ Release(r, {})

\* ApplicationRuntime.test_provider lists one provider's models.
ProbeBegins(r, p) ==
  /\ request[r].pc = "new" /\ task[Startup].stage # "none"
  /\ request' = [request EXCEPT ![r].pc = "starting", ![r].wire = "probe"]
  /\ Retain(r, {p})

ProbeEnds(r, p, listed) ==
  /\ request[r].pc = "starting" /\ request[r].wire = "probe"
  /\ p \in gen[lease[r]].clients
  /\ request' = [request EXCEPT ![r].pc = "done"]
  /\ Release(r, IF listed THEN {p} ELSE {})

RequestStep(r) ==
  \/ Refused(r) \/ Rejects(r) \/ Optimizes(r)
  \/ \E wire \in Wire \ {"probe"}, clients \in AtMostOne : Opens(r, wire, clients)
  \/ FirstChunk(r) \/ StartFails(r) \/ FailureAnswered(r)
  \/ Aggregates(r)
  \/ StreamingEnds(r) \/ CleanupClosesBody(r) \/ CleanupReleases(r)
  \/ \E p \in Providers : ProbeBegins(r, p)
  \/ \E p \in Providers, listed \in BOOLEAN : ProbeEnds(r, p, listed)

\* The runtime's own steps, which move no request.
RuntimeStep ==
  /\ \/ Start
     \/ \E g \in Generations : CleanupEnds(g)
     \/ \E t \in Tasks : TaskStep(t)
     \/ \E o \in AdminOps : AdminStep(o)
     \/ CloseStep
     \/ ReadCatalog
     \/ \E p \in Accounts : AccountTurns(p)
  /\ UNCHANGED request

RequestNext == RuntimeStep \/ \E r \in Requests : RequestStep(r)

serviceVars == <<genVars, request>>
ServiceInit == GenInit /\ RequestInit
ServiceSpec == ServiceInit /\ [][RequestNext]_serviceVars

\* The event loop runs every step that is ready.  Upstream reads have timeouts,
\* so a body ends; nothing makes a client send a request or an administrator act.
Ending(r) ==
  \/ FirstChunk(r) \/ StartFails(r) \/ FailureAnswered(r) \/ Aggregates(r)
  \/ StreamingEnds(r) \/ CleanupClosesBody(r) \/ CleanupReleases(r)
  \/ \E p \in Providers, listed \in BOOLEAN : ProbeEnds(r, p, listed)

AdminGoesOn(o) ==
  admin[o].pc # "idle" /\ AdminStep(o) /\ UNCHANGED request

CloseGoesOn ==
  (CloseBegins \/ CloseRetires \/ CloseDrained \/ CloseEnds) /\ UNCHANGED request

ServiceFairness ==
  /\ \A r \in Requests : WF_serviceVars(Ending(r))
  /\ \A g \in Generations : WF_serviceVars(CleanupEnds(g) /\ UNCHANGED request)
  /\ \A t \in Tasks : WF_serviceVars(TaskStep(t) /\ UNCHANGED request)
  /\ \A o \in AdminOps : WF_serviceVars(AdminGoesOn(o))
  /\ WF_serviceVars(CloseGoesOn)

FairServiceSpec == ServiceSpec /\ ServiceFairness

-----------------------------------------------------------------------------
Outcome(body) ==
  IF body = "complete" THEN "success" ELSE IF body = "failed" THEN "error" ELSE "cancelled"

\* While the body of a request is open its generation is retained and its
\* clients live, also through a failed start, a disconnect and the cleanup; a
\* request that is over retains nothing, and if it is a Messages request that
\* opened a stream it leaves exactly one usage record, which says how the
\* stream ended.
RecordedOnce ==
  \A r \in Requests :
    /\ request[r] \in [pc : RequestPlace, wire : Wire, body : BodyState, usage : {<<>>} \cup {<<s>> : s \in RecordStatus}]
    /\ request[r].body = "open" =>
         lease[r] # NoGeneration /\ ~gen[lease[r]].closed /\ ~gen[lease[r]].cleaning
    /\ request[r].pc = "done" =>
         /\ lease[r] = NoGeneration
         /\ request[r].body # "none" =>
              /\ request[r].body # "open"
              /\ request[r].wire # "responses" => request[r].usage = <<Outcome(request[r].body)>>

\* A stream that completed is recorded as a success, whatever its API:
\* "the finalized guard keeps the record at its earlier status (success/error)
\* when closing follows completion".
CompletionIsRecorded ==
  \A r \in Requests : request[r].body = "complete" => request[r].usage = <<"success">>

\* A retired generation is closed in the end, unless a cleanup failed or the
\* close() that should do it was given up.
RetiredCloses ==
  \A g \in Generations :
    gen[g].retired ~> (gen[g].closed \/ faults > 0 \/ (closing /\ closer.pc = "idle"))

\* close() waits for the requests it finds, and comes to its end.
ShutdownEnds == closing ~> closer.pc = "idle"
=============================================================================
