----------------------------- MODULE StubIngest ------------------------------
(***************************************************************************)
(* stub-ingest, the ingest server that the integration tests of            *)
(* php-analyze post to (crates/stub-ingest/src/main.rs): one thread that   *)
(* receives a request, handles it and answers it before it receives the    *)
(* next.  A batch is stored before it is answered, and --simulate-slow     *)
(* sleeps between the two, so that the client may be gone when the answer  *)
(* comes.                                                                  *)
(*                                                                         *)
(* A request is a record of its method, path, headers and body, and of the *)
(* client it is from, with its address.  The body is the map its bytes     *)
(* decode to (see Wire), or Truncated when the connection breaks before    *)
(* its end.  The mutexes are not modelled: only this thread takes them,    *)
(* and none of the sections they guard can panic.                          *)
(***************************************************************************)
EXTENDS Wire, FiniteSets, SequencesExt

CONSTANTS
    AuthToken,      \* --auth-token
    CaptureDirs,    \* what --capture-dir may be: "unset", "usable", "unusable"
    AnswerStatuses, \* what --respond-with may be
    Truncated

ASSUME StubAssumption ==
    /\ CaptureDirs \subseteq {"unset", "usable", "unusable"}
    /\ AnswerStatuses \subseteq 100..599

VARIABLES
    args,               \* the parsed command line
    store,              \* the batches /debug/batches shows
    last_headers,       \* at most one: the headers of the last ingest request
    connections,        \* the source addresses of ingest requests
    capture_counter,    \* CAPTURE_COUNTER
    captured,           \* the files in the capture directory, in order of writing
    serving,            \* at most one: the request being answered, and its status
    accepted            \* history: every batch ever stored

stub_vars == <<args, store, last_headers, connections, capture_counter, captured,
               serving, accepted>>

\* validate_capture_dir comes before bind: with an unusable directory the
\* process exits and nothing listens.
Listening == args.capture_dir # "unusable"

StubInit ==
    /\ args \in [capture_dir : CaptureDirs, respond_with : AnswerStatuses]
    /\ store = <<>> /\ last_headers = <<>> /\ connections = {}
    /\ capture_counter = 0 /\ captured = <<>>
    /\ serving = <<>> /\ accepted = <<>>

-----------------------------------------------------------------------------
(* dispatch and the handlers.                                              *)

\* The thread takes a request for this method and path, having answered the
\* one before.
Routed(rq, method, path) ==
    /\ Listening /\ serving = <<>>
    /\ rq.method = method /\ rq.path = path

Answers(rq, status) == serving' = <<[to |-> rq.from, status |-> status]>>

ReadOnly == UNCHANGED <<args, store, last_headers, connections, capture_counter, captured,
                        accepted>>

\* The headers and the connection are noted before anything is validated.
IngestReceived(rq) ==
    /\ Routed(rq, "POST", "/v1/ingest")
    /\ last_headers' = <<rq.headers>>
    /\ connections' = connections \cup {rq.from.addr}
    /\ UNCHANGED args

validate_bearer(headers) == headers.authorization = AuthToken
validate_content_type(headers) == headers.content_type = MEDIA_TYPE
BodyDecodes(rq) == rq.body # Truncated /\ Decodes(rq.body)

Valid(rq) ==
    validate_bearer(rq.headers) /\ validate_content_type(rq.headers) /\ BodyDecodes(rq)

IngestRejected(rq) ==
    /\ IngestReceived(rq)
    /\ ~Valid(rq)
    /\ Answers(rq, CASE ~validate_bearer(rq.headers) -> 401
                     [] validate_bearer(rq.headers) /\ ~validate_content_type(rq.headers) -> 415
                     [] OTHER -> 400)
    /\ UNCHANGED <<store, capture_counter, captured, accepted>>

\* Mutant: a batch whose capture failed is stored all the same.
StoredThoughNotCaptured(rq) ==
    /\ IngestReceived(rq)
    /\ Valid(rq) /\ args.capture_dir = "usable"
    /\ capture_counter' = capture_counter + 1
    /\ store' = Append(store, rq.body) /\ accepted' = Append(accepted, rq.body)
    /\ Answers(rq, 500)
    /\ UNCHANGED captured

\* write_captured_batch fails: its number is used up, the batch is not stored.
IngestCaptureFails(rq) ==
    /\ IngestReceived(rq)
    /\ Valid(rq) /\ args.capture_dir = "usable"
    /\ capture_counter' = capture_counter + 1
    /\ Answers(rq, 500)
    /\ UNCHANGED <<store, captured, accepted>>

IngestStored(rq) ==
    /\ IngestReceived(rq)
    /\ Valid(rq)
    /\ IF args.capture_dir = "usable"
       THEN /\ capture_counter' = capture_counter + 1
            /\ captured' = Append(captured, [number |-> capture_counter + 1, body |-> rq.body])
       ELSE UNCHANGED <<capture_counter, captured>>
    /\ store' = Append(store, rq.body) /\ accepted' = Append(accepted, rq.body)
    /\ Answers(rq, args.respond_with)

DebugRead(rq) ==
    /\ \/ Routed(rq, "GET", "/debug/batches") /\ Answers(rq, 200)
       \/ Routed(rq, "GET", "/debug/connection_count") /\ Answers(rq, 200)
       \/ /\ Routed(rq, "GET", "/debug/last_request_headers")
          /\ Answers(rq, IF last_headers = <<>> THEN 404 ELSE 200)
    /\ ReadOnly

\* The captured files and their numbering stay.
DebugReset(rq) ==
    /\ Routed(rq, "POST", "/debug/reset")
    /\ store' = <<>> /\ last_headers' = <<>> /\ connections' = {}
    /\ Answers(rq, 200)
    /\ UNCHANGED <<args, capture_counter, captured, accepted>>

Routes == {<<"POST", "/v1/ingest">>, <<"GET", "/debug/batches">>,
           <<"GET", "/debug/last_request_headers">>, <<"GET", "/debug/connection_count">>,
           <<"POST", "/debug/reset">>}

NotRouted(rq) ==
    /\ <<rq.method, rq.path>> \notin Routes
    /\ Routed(rq, rq.method, rq.path)
    /\ Answers(rq, IF rq.path = "/v1/ingest" THEN 405 ELSE 404)
    /\ ReadOnly

Dispatch(rq) ==
    \/ IngestRejected(rq) \/ IngestCaptureFails(rq) \/ IngestStored(rq)
    \/ DebugRead(rq) \/ DebugReset(rq) \/ NotRouted(rq)

\* After the sleep.  What the client makes of it is its own affair.
Respond ==
    /\ serving # <<>>
    /\ serving' = <<>>
    /\ ReadOnly

-----------------------------------------------------------------------------
(* The server by itself, for any requests whatever.                        *)

CONSTANT StubRequests

StubNext == Respond \/ \E rq \in StubRequests : Dispatch(rq)

StubSpec == StubInit /\ [][StubNext]_stub_vars

\* "successful capture = successful store" (main.rs): the files hold, in the
\* order of their numbers, exactly the batches stored since the process
\* started, whatever writes failed and however often the store was reset; the
\* store is what came since the last reset.
CapturedIsStored ==
    /\ args.capture_dir = "usable" =>
        /\ Len(captured) = Len(accepted)
        /\ \A i \in DOMAIN captured : captured[i].body = accepted[i]
    /\ \A i, j \in DOMAIN captured : i < j => captured[i].number < captured[j].number
    /\ \A i \in DOMAIN captured : captured[i].number <= capture_counter
    /\ Len(store) <= Len(accepted)
    /\ \A i \in DOMAIN store : store[i] = accepted[Len(accepted) - Len(store) + i]

\* What the debug endpoints show goes together: a stored batch came over a
\* counted connection, after headers were noted, and a reset forgets all three.
DebugViewsAgree ==
    /\ store # <<>> => last_headers # <<>>
    /\ last_headers = <<>> <=> connections = {}

\* The server's records of what it was sent agree: the files with the store,
\* and the debug pages with each other.
StoreConsistent == CapturedIsStored /\ DebugViewsAgree

=============================================================================
