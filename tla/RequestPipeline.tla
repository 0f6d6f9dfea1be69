-------------------------- MODULE RequestPipeline --------------------------
(***************************************************************************)
(* One HTTP request on its way through the ASGI stack that create_app      *)
(* builds: in through the middleware, out again with a response message or *)
(* an exception, and through every finally block on the way.  A response   *)
(* message passes the send wrappers of all enclosing layers at once; the   *)
(* call stack unwinds afterwards, layer by layer, and can still fail.      *)
(*                                                                         *)
(* A request has its own task and its own context variables, so requests   *)
(* do not meet here.                                                       *)
(***************************************************************************)
EXTENDS Naturals, Sequences

CONSTANT NULL

\* setup_middleware's effective order, with Starlette's two own layers and
\* Dishka's request scope.  GZip changes no status and none of these headers.
Layers == <<"server_error", "cors", "context", "trusted_host", "security", "body_cap",
            "container", "exceptions", "router">>

Depth(layer) == CHOOSE d \in 1..Len(Layers) : Layers[d] = layer

VARIABLES
    conf,    \* settings the stack is built from
    rq,      \* the request, and what its endpoint will do
    depth,   \* the layer that runs, as an index into Layers; 0 when all returned
    inward,  \* TRUE on the way in
    raised,  \* the exception that propagates, or NULL
    bound,   \* structlog's contextvar request_id
    state,   \* scope["state"]["request_id"]
    sent,    \* responses handed to the server
    logs     \* log events: name, request id they carry, status they tell

vars == <<conf, rq, depth, inward, raised, bound, state, sent, logs>>

At(layer, in) == depth = Depth(layer) /\ inward = in

\* Settings, as far as the stack depends on them.
Settings == [production : BOOLEAN, debug : BOOLEAN, any_host : BOOLEAN,
             cors : {"none", "listed", "wildcard"}]

\* Mutant: the validator does not look at APP__DEBUG.
UnsafeButDebug(c) == c.production /\ (c.cors = "wildcard" \/ c.any_host)

\* _reject_unsafe_production_config: the application does not start with these
\* (nor with a weak JWT secret, which the stack does not see).
Unsafe(c) == c.production /\ (c.debug \/ c.cors = "wildcard" \/ c.any_host)

Cors == conf.cors # "none"
-----------------------------------------------------------------------------
(* Errors and their representation.                                        *)

\* type(exc).__mro__, cut at DomainError.  PolicyError stands for an error a
\* project adds without an entry, ExpiredLinkError for one that has a mapped parent.
Mro ==
    [UserNotFoundError |-> <<"UserNotFoundError", "DomainError">>,
     EmailAlreadyExistsError |-> <<"EmailAlreadyExistsError", "DomainError">>,
     InvalidCredentialsError |-> <<"InvalidCredentialsError", "DomainError">>,
     InvalidTokenError |-> <<"InvalidTokenError", "DomainError">>,
     TokenExpiredError |-> <<"TokenExpiredError", "InvalidTokenError", "DomainError">>,
     ValidationError |-> <<"ValidationError", "DomainError">>,
     PolicyError |-> <<"PolicyError", "DomainError">>,
     ExpiredLinkError |-> <<"ExpiredLinkError", "TokenExpiredError", "InvalidTokenError",
                            "DomainError">>]

\* _ERROR_MAP: status and problem type.
ErrorMap ==
    [UserNotFoundError |-> [status |-> 404, type |-> "user-not-found"],
     EmailAlreadyExistsError |-> [status |-> 409, type |-> "email-already-exists"],
     InvalidCredentialsError |-> [status |-> 401, type |-> "invalid-credentials"],
     InvalidTokenError |-> [status |-> 401, type |-> "invalid-token"],
     TokenExpiredError |-> [status |-> 401, type |-> "token-expired"],
     ValidationError |-> [status |-> 422, type |-> "validation-error"]]

\* Mutant: the mapping is looked up for the class itself, not its parents.
SpecForClass(e) ==
    IF e \in DOMAIN ErrorMap THEN ErrorMap[e] ELSE [status |-> 400, type |-> "domain-error"]

\* _spec_for: the first class of the MRO that has an entry decides.
SpecFor(e) ==
    LET mapped == {i \in 1..Len(Mro[e]) : Mro[e][i] \in DOMAIN ErrorMap}
    IN  IF mapped = {} THEN [status |-> 400, type |-> "domain-error"]
        ELSE ErrorMap[Mro[e][CHOOSE i \in mapped : \A j \in mapped : i <= j]]

\* What an endpoint, its dependencies or the router do with the request.
Returned == [kind : {"return"}]
HttpErrors == [kind : {"HTTPException"}, status : {401, 404, 405, 413, 429}]
DomainErrors == [kind : {"DomainError"}, class : DOMAIN Mro]
Others == [kind : {"RequestValidationError", "Exception"}]
Endings == Returned \cup HttpErrors \cup DomainErrors \cup Others

\* None is neither an exception nor a request id.
ASSUME PipelineAssumption == NULL \notin Endings \cup {"well-formed", "malformed", "uuid4"}

\* A response as an inner layer builds it: no wrapper has touched it yet.
Response(status, type, problem) ==
    [status |-> status, type |-> type, problem |-> problem, request_id |-> NULL,
     security |-> FALSE, hsts |-> FALSE, authenticate |-> FALSE]

\* Mutant: only the context middleware's send path stamps the id.
ProblemResponseUnstamped(status, type) ==
    [Response(status, type, TRUE) EXCEPT !.authenticate = (status = 401)]

\* _problem_response: WWW-Authenticate on 401, and the id from scope["state"].
ProblemResponse(status, type) ==
    [Response(status, type, TRUE) EXCEPT !.authenticate = (status = 401),
                                         !.request_id = state]

\* Mutant: the HTTPException handler answers with FastAPI's own JSON body.
HandledPlainHttp(e) ==
    CASE e.kind = "DomainError" -> ProblemResponse(SpecFor(e.class).status,
                                                   SpecFor(e.class).type)
      [] e.kind = "HTTPException" -> Response(e.status, "detail", FALSE)
      [] e.kind = "RequestValidationError" -> ProblemResponse(422, "request-validation-error")

\* The handlers register_exception_handlers installs in ExceptionMiddleware.
Handled(e) ==
    CASE e.kind = "DomainError" -> ProblemResponse(SpecFor(e.class).status,
                                                   SpecFor(e.class).type)
      [] e.kind = "HTTPException" -> ProblemResponse(e.status, "http-error")
      [] e.kind = "RequestValidationError" -> ProblemResponse(422, "request-validation-error")

\* The send wrappers around a layer that answers: setdefault, so an id or header
\* that is there already stays.
Stamped(response, d) ==
    [response EXCEPT
       !.request_id = IF d > Depth("context") /\ @ = NULL THEN state ELSE @,
       !.security = @ \/ d > Depth("security"),
       !.hsts = @ \/ (d > Depth("security") /\ conf.production)]

\* Mutant: an inbound id is trusted as it is.
ResolveTrusting(raw) == IF raw = NULL THEN "uuid4" ELSE raw

\* _resolve_request_id: an id that does not look like one is replaced.
ResolveRequestId(raw) == IF raw = "well-formed" THEN raw ELSE "uuid4"
-----------------------------------------------------------------------------
\* A request is oversized if its route reads a body that is over the cap.
Init ==
    /\ conf \in {c \in Settings : ~Unsafe(c)}
    /\ rq \in [preflight : BOOLEAN, host_allowed : BOOLEAN, oversized : BOOLEAN,
               id : {NULL, "well-formed", "malformed"}, ending : Endings]
    /\ conf.any_host => rq.host_allowed
    /\ depth = 1 /\ inward = TRUE
    /\ raised = NULL /\ bound = NULL /\ state = NULL
    /\ sent = <<>> /\ logs = <<>>

Fixed == UNCHANGED <<conf, rq>>

\* A layer that only passes the request on.
GoIn == depth' = depth + 1 /\ UNCHANGED <<inward, raised>>

\* A layer answers and returns; exceptions are over.
Answer(response) ==
    /\ sent' = Append(sent, Stamped(response, depth))
    /\ depth' = depth - 1 /\ inward' = FALSE /\ raised' = NULL

\* A layer raises e.
Raise(e) == depth' = depth - 1 /\ inward' = FALSE /\ raised' = e

\* ServerErrorMiddleware, SecurityHeaders and the request scope wrap what is inside.
PassIn ==
    /\ inward /\ Layers[depth] \in {"server_error", "security", "body_cap", "container",
                                    "exceptions"}
    /\ GoIn
    /\ UNCHANGED <<bound, state, sent, logs>> /\ Fixed

\* CORSMiddleware answers a preflight itself, in plain text.
CorsIn ==
    /\ At("cors", TRUE)
    /\ IF Cors /\ rq.preflight
       THEN \E status \in {200, 400} : Answer(Response(status, "text", FALSE))
       ELSE GoIn /\ UNCHANGED sent
    /\ UNCHANGED <<bound, state, logs>> /\ Fixed

\* RequestContextMiddleware before it calls the inner application.
ContextIn ==
    /\ At("context", TRUE)
    /\ state' = ResolveRequestId(rq.id)
    /\ bound' = ResolveRequestId(rq.id)
    /\ GoIn
    /\ UNCHANGED <<sent, logs>> /\ Fixed

\* TrustedHostMiddleware refuses a host in plain text.
TrustedHostIn ==
    /\ At("trusted_host", TRUE)
    /\ IF rq.host_allowed THEN GoIn /\ UNCHANGED sent
                          ELSE Answer(Response(400, "text", FALSE))
    /\ UNCHANGED <<bound, state, logs>> /\ Fixed

\* The route runs.  Reading a body over the cap raises out of limited_receive.
RouterIn ==
    /\ At("router", TRUE)
    /\ \/ rq.oversized /\ Raise([kind |-> "HTTPException", status |-> 413]) /\ UNCHANGED sent
       \/ ~rq.oversized /\ rq.ending.kind = "return" /\ Answer(Response(200, "json", FALSE))
       \/ ~rq.oversized /\ rq.ending.kind # "return" /\ Raise(rq.ending) /\ UNCHANGED sent
    /\ UNCHANGED <<bound, state, logs>> /\ Fixed

\* ExceptionMiddleware turns what it has a handler for into a response.
ExceptionsOut ==
    /\ At("exceptions", FALSE)
    /\ IF raised # NULL /\ raised.kind # "Exception"
       THEN /\ Answer(Handled(raised))
            /\ logs' = IF raised.kind = "DomainError"
                       THEN Append(logs, [event |-> "request.domain_error", id |-> bound,
                                          status |-> SpecFor(raised.class).status])
                       ELSE logs
       ELSE Raise(raised) /\ UNCHANGED <<sent, logs>>
    /\ UNCHANGED <<bound, state>> /\ Fixed

\* Leaving the request scope closes the session, which can fail.
ContainerOut ==
    /\ At("container", FALSE)
    /\ \/ Raise(raised)
       \/ Raise([kind |-> "Exception"])
    /\ UNCHANGED <<bound, state, sent, logs>> /\ Fixed

PassOut ==
    /\ ~inward /\ depth > 0 /\ Layers[depth] \in {"body_cap", "security", "trusted_host", "cors"}
    /\ Raise(raised)
    /\ UNCHANGED <<bound, state, sent, logs>> /\ Fixed

\* Mutant: the status variable starts at 200.
ObservedStatusOptimistic == IF sent = <<>> THEN 200 ELSE sent[Len(sent)].status

\* The status its send wrapper saw, or the 500 it assumes.
ObservedStatus == IF sent = <<>> THEN 500 ELSE sent[Len(sent)].status

\* RequestContextMiddleware's finally block.
ContextOut ==
    /\ At("context", FALSE)
    /\ logs' = Append(logs, [event |-> "http.request", id |-> state,
                             status |-> ObservedStatus])
    /\ bound' = NULL
    /\ Raise(raised)
    /\ UNCHANGED <<state, sent>> /\ Fixed

\* The 500 for an unhandled error: a traceback page in debug mode, else the
\* catch-all handler's problem.
ServerError ==
    IF conf.debug THEN Response(500, "traceback", FALSE)
                  ELSE ProblemResponse(500, "about:blank")

\* Mutant: the catch-all answers although a response has started.
UnhandledAnswerAlways == Append(sent, Stamped(ServerError, depth))

\* It is sent unless a response has started.
UnhandledAnswer == IF sent = <<>> THEN <<Stamped(ServerError, depth)>> ELSE sent

\* ServerErrorMiddleware calls _unhandled_exception_handler unless in debug mode,
\* answers and re-raises to the server.
ServerErrorOut ==
    /\ At("server_error", FALSE)
    /\ Raise(raised)
    /\ IF raised = NULL THEN UNCHANGED <<sent, logs>>
       ELSE /\ logs' = IF conf.debug THEN logs
                       ELSE Append(logs, [event |-> "request.unhandled_error", id |-> bound,
                                          status |-> 500])
            /\ sent' = UnhandledAnswer
    /\ UNCHANGED <<bound, state>> /\ Fixed

Next ==
    \/ PassIn \/ CorsIn \/ ContextIn \/ TrustedHostIn \/ RouterIn
    \/ ExceptionsOut \/ ContainerOut \/ PassOut \/ ContextOut \/ ServerErrorOut

Spec == Init /\ [][Next]_vars
-----------------------------------------------------------------------------
Done == depth = 0
Answers == {sent[i] : i \in 1..Len(sent)}
Logged(event) == {i \in 1..Len(logs) : logs[i].event = event}

\* Every request is answered exactly once, also when closing its session fails
\* after the response has been sent.
AnsweredOnce == Len(sent) <= 1 /\ (Done => Len(sent) = 1)

\* Unless debug mode replaces the answer, a request that got past CORS is answered
\* with its correlation id, on every path out of the stack including the catch-all
\* 500, and the id is the client's own only if that was well formed.  What the
\* layers inside SecurityHeaders answered also has the security headers.
AnswersCarryRequestId ==
    (state # NULL /\ ~conf.debug) => \A answer \in Answers :
        /\ answer.request_id = state /\ state \in {"well-formed", "uuid4"}
        /\ (rq.host_allowed /\ answer.status # 500)
              => answer.security /\ (answer.hsts <=> conf.production)

\* The request ends in a token or credential error, or in one derived from those.
AuthError ==
    /\ rq.ending.kind = "DomainError"
    /\ \E i \in 1..Len(Mro[rq.ending.class]) :
          Mro[rq.ending.class][i] \in {"InvalidTokenError", "InvalidCredentialsError"}

\* Any error that comes from the routed application is problem+json.  So is the
\* catch-all 500 unless debug mode replaces it, which "APP__DEBUG must be false in
\* production" (config.py:116) keeps out of production.  "subclasses inherit their
\* parent's mapping via MRO lookup" (exception_handlers.py:5): an authentication
\* error, or one derived from it, is a 401 with a challenge, unless the body was
\* over the cap or an unrelated failure replaced it.
RoutedErrorsAreProblems ==
    \A answer \in Answers :
        (/\ answer.status >= 400 /\ rq.host_allowed /\ ~(Cors /\ rq.preflight)
         /\ answer.status = 500 => ~conf.debug \/ conf.production)
            => /\ answer.problem
               /\ (AuthError /\ answer.status \notin {413, 500})
                     => answer.status = 401 /\ answer.authenticate

\* The access log has one entry per request that got past CORS, with the status
\* and the id the client was sent, whether the stack unwound normally or not
\* (a traceback page of debug mode has no id).
AccessLogAgrees ==
    (Done /\ state # NULL) =>
        \E i \in 1..Len(logs) : /\ Logged("http.request") = {i}
                                /\ logs[i].status = sent[1].status
                                /\ logs[i].id = sent[1].request_id \/ conf.debug
-----------------------------------------------------------------------------
(* What the documentation says and the stack does not do.                  *)

\* "Unhandled exceptions are logged with the bound request id"
\* (exception_handlers.py:10).
UnhandledErrorsAreTraceable ==
    \A i \in Logged("request.unhandled_error") : logs[i].id # NULL
=============================================================================
