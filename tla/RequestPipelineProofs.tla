----------------------- MODULE RequestPipelineProofs -----------------------
(***************************************************************************)
(* Proofs about RequestPipeline.                                           *)
(*                                                                         *)
(* PipelineInv follows a request in and out again.  On the way in nothing  *)
(* has been sent or raised, and the id exists from the context layer on.   *)
(* On the way out there is an answer or an exception, and inside the       *)
(* exception layer not both, so that nobody answers twice and somebody     *)
(* does.  Every answer is good when it is sent, by the layer that sends    *)
(* it, and the access log has been written with the status that was or     *)
(* will be sent.                                                           *)
(***************************************************************************)
EXTENDS RequestPipeline, SequenceTheorems, TLAPS

(* The stack.                                                              *)

\* The layers, outermost first.
LEMMA Nesting ==
  /\ Len(Layers) = 9
  /\ Layers[1] = "server_error" /\ Layers[2] = "cors" /\ Layers[3] = "context"
  /\ Layers[4] = "trusted_host" /\ Layers[5] = "security" /\ Layers[6] = "body_cap"
  /\ Layers[7] = "container" /\ Layers[8] = "exceptions" /\ Layers[9] = "router"
  BY DEF Layers

\* A layer is where it is.
LEMMA DepthIs ==
  ASSUME NEW d \in 1..9
  PROVE  Depth(Layers[d]) = d
  <1>1. \A e \in 1..9 : Layers[e] = Layers[d] => e = d
    BY Nesting
  <1>2. Depth(Layers[d]) \in 1..9 /\ Layers[Depth(Layers[d])] = Layers[d]
    BY Nesting DEF Depth
  <1> QED
    BY <1>1, <1>2

\* The depths of the layers that act.
LEMMA Depths ==
  /\ Depth("server_error") = 1 /\ Depth("cors") = 2 /\ Depth("context") = 3
  /\ Depth("trusted_host") = 4 /\ Depth("security") = 5 /\ Depth("container") = 7
  /\ Depth("exceptions") = 8 /\ Depth("router") = 9
  BY DepthIs, Nesting

(* Errors and responses.                                                   *)

\* A class with an entry of its own gets that entry.
LEMMA MappedItself ==
  ASSUME NEW e, e \in DOMAIN ErrorMap, Len(Mro[e]) \in Nat \ {0}, Mro[e][1] = e
  PROVE  SpecFor(e) = ErrorMap[e]
  <1> DEFINE mapped == {i \in 1..Len(Mro[e]) : Mro[e][i] \in DOMAIN ErrorMap}
             first == CHOOSE i \in mapped : \A j \in mapped : i <= j
  <1>1. 1 \in mapped /\ \A j \in mapped : j \in Nat /\ 1 <= j
    OBVIOUS
  <1>2. first \in mapped /\ \A j \in mapped : first <= j
    BY <1>1
  <1>3. first = 1
    BY <1>1, <1>2
  <1> QED
    BY <1>1, <1>3 DEF SpecFor

\* Which classes there are, and which are authentication errors.
AuthClasses == {"InvalidCredentialsError", "InvalidTokenError", "TokenExpiredError",
                "ExpiredLinkError"}

\* An authentication error, or one derived from it, is a 401.
LEMMA AuthErrorsAre401 ==
  ASSUME NEW e \in AuthClasses
  PROVE  SpecFor(e).status = 401
  <1>1. CASE e = "InvalidCredentialsError"
    <2>1. Len(Mro[e]) \in Nat \ {0} /\ Mro[e][1] = e
      BY <1>1 DEF Mro
    <2>2. e \in DOMAIN ErrorMap /\ ErrorMap[e].status = 401
      BY <1>1 DEF ErrorMap
    <2> QED
      BY <2>1, <2>2, MappedItself
  <1>2. CASE e = "InvalidTokenError"
    <2>1. Len(Mro[e]) \in Nat \ {0} /\ Mro[e][1] = e
      BY <1>2 DEF Mro
    <2>2. e \in DOMAIN ErrorMap /\ ErrorMap[e].status = 401
      BY <1>2 DEF ErrorMap
    <2> QED
      BY <2>1, <2>2, MappedItself
  <1>3. CASE e = "TokenExpiredError"
    <2>1. Len(Mro[e]) \in Nat \ {0} /\ Mro[e][1] = e
      BY <1>3 DEF Mro
    <2>2. e \in DOMAIN ErrorMap /\ ErrorMap[e].status = 401
      BY <1>3 DEF ErrorMap
    <2> QED
      BY <2>1, <2>2, MappedItself
  <1>4. CASE e = "ExpiredLinkError"
    <2> DEFINE mapped == {i \in 1..Len(Mro[e]) : Mro[e][i] \in DOMAIN ErrorMap}
               first == CHOOSE i \in mapped : \A j \in mapped : i <= j
    <2>1. /\ Len(Mro[e]) = 4 /\ Mro[e][1] = "ExpiredLinkError"
          /\ Mro[e][2] = "TokenExpiredError"
      BY <1>4 DEF Mro
    <2>2. 1 \notin mapped /\ 2 \in mapped /\ \A j \in mapped : j \in Nat /\ 1 <= j
      BY <2>1 DEF ErrorMap
    <2>3. \A j \in mapped : 2 <= j
      BY <2>2
    <2>4. first \in mapped /\ \A j \in mapped : first <= j
      BY <2>2, <2>3
    <2>5. first = 2
      BY <2>2, <2>3, <2>4
    <2>6. SpecFor(e) = ErrorMap["TokenExpiredError"]
      BY <2>1, <2>2, <2>5 DEF SpecFor
    <2> QED
      BY <2>6 DEF ErrorMap
  <1> QED
    BY <1>1, <1>2, <1>3, <1>4 DEF AuthClasses

\* The classes that are authentication errors.
LEMMA AuthErrorIs ==
  ASSUME rq.ending \in Endings, AuthError
  PROVE  rq.ending.class \in AuthClasses
  <1> DEFINE c == rq.ending.class
  <1>1. c \in DOMAIN Mro
    BY DEF AuthError, Endings, Returned, HttpErrors, DomainErrors, Others
  <1>2. \E i \in 1..Len(Mro[c]) : Mro[c][i] \in {"InvalidTokenError", "InvalidCredentialsError"}
    BY DEF AuthError
  <1> HIDE DEF c
  <1>3. c \in {"UserNotFoundError", "EmailAlreadyExistsError", "ValidationError", "PolicyError"}
        \/ c \in AuthClasses
    BY <1>1 DEF Mro, AuthClasses
  <1>4. CASE c \in {"UserNotFoundError", "EmailAlreadyExistsError", "ValidationError",
                    "PolicyError"}
    <2>1. Len(Mro[c]) = 2 /\ Mro[c][1] = c /\ Mro[c][2] = "DomainError"
      BY <1>4 DEF Mro
    <2>2. \A i \in 1..2 : i = 1 \/ i = 2
      OBVIOUS
    <2> QED
      BY <1>2, <1>4, <2>1, <2>2
  <1> QED
    BY <1>3, <1>4 DEF c

\* Responses, with other fields in S.
Responses(S) == [status : S, type : S, problem : BOOLEAN, request_id : S,
                 security : BOOLEAN, hsts : BOOLEAN, authenticate : BOOLEAN]

\* What the send wrappers leave of a response.
LEMMA StampedIs ==
  ASSUME NEW S, NEW r \in Responses(S), NEW d \in Nat, conf.production \in BOOLEAN,
         NEW a, a = Stamped(r, d)
  PROVE  /\ a.status = r.status /\ a.problem = r.problem /\ a.authenticate = r.authenticate
         /\ a.request_id = IF d > 3 /\ r.request_id = NULL THEN state ELSE r.request_id
         /\ d > 5 => a.security
         /\ (d > 5 /\ r.hsts = FALSE) => (a.hsts <=> conf.production)
  BY Depths DEF Stamped, Responses

\* A response that is not a problem.
Plain(status, type) == Response(status, type, FALSE)

\* It has the id once it has passed the context layer.
LEMMA ResponseIs ==
  ASSUME NEW status, NEW type, NEW d \in Nat, NEW a,
         a = Stamped(Plain(status, type), d), conf.production \in BOOLEAN
  PROVE  /\ a.status = status
         /\ d > 3 => a.request_id = state
         /\ d > 5 => a.security /\ (a.hsts <=> conf.production)
  <1>1. PICK r : a = Stamped(r, d) /\ r = Plain(status, type)
    OBVIOUS
  <1>2. PICK S : S = {status, type, NULL}
    OBVIOUS
  <1>3. FALSE \in BOOLEAN
    OBVIOUS
  <1>4. r \in Responses(S) /\ r.status = status /\ r.request_id = NULL /\ r.hsts = FALSE
    BY <1>1, <1>2 DEF Plain, Response, Responses
  <1>5. /\ a.status = r.status
        /\ a.request_id = IF d > 3 /\ r.request_id = NULL THEN state ELSE r.request_id
        /\ d > 5 => a.security
        /\ (d > 5 /\ r.hsts = FALSE) => (a.hsts <=> conf.production)
    BY <1>1, <1>4, StampedIs
  <1> QED
    BY <1>4, <1>5

\* A problem carries the id wherever it is sent from.
LEMMA ProblemIs ==
  ASSUME NEW status, NEW type, NEW d \in Nat, NEW a,
         a = Stamped(ProblemResponse(status, type), d), conf.production \in BOOLEAN
  PROVE  /\ a.status = status /\ a.problem /\ (a.authenticate <=> status = 401)
         /\ a.request_id = state
         /\ d > 5 => a.security /\ (a.hsts <=> conf.production)
  <1>1. TRUE \in BOOLEAN /\ (status = 401) \in BOOLEAN
    OBVIOUS
  <1>2. PICK auth \in BOOLEAN : auth = (status = 401)
    BY <1>1
  <1>3. PICK S : S = {status, type, NULL, state}
    OBVIOUS
  <1>4. PICK r : r = Response(status, type, TRUE)
    OBVIOUS
  <1>5. {status, type, NULL} \subseteq S /\ state \in S
    BY <1>3
  <1>6. r \in Responses(S) /\ r.status = status /\ r.problem = TRUE /\ r.hsts = FALSE
    BY <1>4, <1>5 DEF Response, Responses
  <1>7. PICK q : a = Stamped(q, d) /\ q = ProblemResponse(status, type)
    OBVIOUS
  <1>8. q = [r EXCEPT !.authenticate = auth, !.request_id = state]
    BY <1>2, <1>4, <1>7, Zenon DEF ProblemResponse
  <1>9. /\ q \in Responses(S) /\ q.status = r.status /\ q.problem = r.problem
        /\ q.request_id = state /\ q.hsts = r.hsts /\ q.authenticate = auth
    BY <1>5, <1>6, <1>8 DEF Responses
  <1>10. /\ a.status = q.status /\ a.problem = q.problem /\ a.authenticate = q.authenticate
         /\ a.request_id = IF d > 3 /\ q.request_id = NULL THEN state ELSE q.request_id
         /\ d > 5 => a.security
         /\ (d > 5 /\ q.hsts = FALSE) => (a.hsts <=> conf.production)
    BY <1>7, <1>9, Depths DEF Stamped, Responses
  <1>11. a.request_id = state /\ a.status = status
    BY <1>6, <1>9, <1>10
  <1>12. a.problem
    BY <1>6, <1>9, <1>10
  <1>13. a.authenticate <=> status = 401
    <2>1. a.authenticate = q.authenticate /\ q.authenticate = auth
      BY <1>9, <1>10, Zenon
    <2>2. a.authenticate = (status = 401)
      BY <1>2, <2>1, Zenon
    <2> QED
      BY <2>2, Zenon
  <1>14. d > 5 => a.security /\ (a.hsts <=> conf.production)
    BY <1>6, <1>9, <1>10
  <1> QED
    BY <1>11, <1>12, <1>13, <1>14

\* The first response.
LEMMA FirstAnswer ==
  ASSUME NEW x
  PROVE  Append(<<>>, x) = <<x>>
  OBVIOUS

(* Log entries.                                                            *)

\* The access log entries of a list of events.
Entries(s) == {i \in 1..Len(s) : s[i].event = "http.request"}

\* A list with an event appended to it.
LEMMA AppendIs ==
  ASSUME NEW S, NEW s \in Seq(S), NEW e, NEW t, t = Append(s, e)
  PROVE  /\ t \in Seq(S \cup {e}) /\ Len(t) = Len(s) + 1 /\ Len(s) \in Nat
         /\ t[Len(s) + 1] = e
  <1>1. s \in Seq(S \cup {e}) /\ e \in S \cup {e} /\ Len(s) \in Nat
    OBVIOUS
  <1> QED
    BY <1>1

\* What was there is still there.
LEMMA AppendKeeps ==
  ASSUME NEW S, NEW s \in Seq(S), NEW e, NEW t, t = Append(s, e)
  PROVE  \A i \in 1..Len(s) : t[i] = s[i]
  <1>1. s \in Seq(S \cup {e}) /\ e \in S \cup {e}
    OBVIOUS
  <1> QED
    BY <1>1

\* The positions in it.
LEMMA AppendDomain ==
  ASSUME NEW S, NEW s \in Seq(S), NEW e, NEW t, t = Append(s, e)
  PROVE  /\ \A i \in 1..Len(t) : i \in 1..Len(s) \/ i = Len(s) + 1
         /\ Len(s) + 1 \in 1..Len(t) /\ \A i \in 1..Len(s) : i \in 1..Len(t)
  <1>1. Len(t) = Len(s) + 1 /\ Len(s) \in Nat
    OBVIOUS
  <1> QED
    BY <1>1

\* An entry appended is one more.
LEMMA EntryAppended ==
  ASSUME NEW S, NEW s \in Seq(S), NEW e, NEW t, t = Append(s, e), e.event = "http.request"
  PROVE  Entries(t) = Entries(s) \cup {Len(s) + 1}
  <1>1. t[Len(s) + 1] = e /\ \A i \in 1..Len(s) : t[i] = s[i]
    <2>1. s \in Seq(S \cup {e}) /\ e \in S \cup {e}
      OBVIOUS
    <2> QED
      BY <2>1
  <1>2. /\ \A i \in 1..Len(t) : i \in 1..Len(s) \/ i = Len(s) + 1
        /\ Len(s) + 1 \in 1..Len(t) /\ \A i \in 1..Len(s) : i \in 1..Len(t)
    BY AppendDomain, Zenon
  <1> QED
    BY <1>1, <1>2 DEF Entries

\* Another event changes none.
LEMMA OtherAppended ==
  ASSUME NEW S, NEW s \in Seq(S), NEW e, NEW t, t = Append(s, e), e.event # "http.request"
  PROVE  Entries(t) = Entries(s)
  <1>1. t[Len(s) + 1] = e /\ \A i \in 1..Len(s) : t[i] = s[i]
    <2>1. s \in Seq(S \cup {e}) /\ e \in S \cup {e}
      OBVIOUS
    <2> QED
      BY <2>1
  <1>2. /\ \A i \in 1..Len(t) : i \in 1..Len(s) \/ i = Len(s) + 1
        /\ Len(s) + 1 \in 1..Len(t) /\ \A i \in 1..Len(s) : i \in 1..Len(t)
    BY AppendDomain, Zenon
  <1> QED
    BY <1>1, <1>2 DEF Entries
-----------------------------------------------------------------------------
(* The invariant.                                                          *)

TooLarge == [kind |-> "HTTPException", status |-> 413]

\* What AnswersCarryRequestId and RoutedErrorsAreProblems say of one answer.
CarriesId(a) ==
    (state # NULL /\ ~conf.debug) =>
        /\ a.request_id = state
        /\ (rq.host_allowed /\ a.status # 500)
              => a.security /\ (a.hsts <=> conf.production)

IsProblem(a) ==
    (/\ a.status >= 400 /\ rq.host_allowed /\ ~(Cors /\ rq.preflight)
     /\ a.status = 500 => ~conf.debug \/ conf.production)
        => /\ a.problem
           /\ (AuthError /\ a.status \notin {413, 500})
                 => a.status = 401 /\ a.authenticate

\* What never changes, and the types of what does.
Typed ==
    /\ conf \in Settings /\ ~Unsafe(conf)
    /\ rq.ending \in Endings
    /\ depth \in 0..9 /\ inward \in BOOLEAN
    /\ state \in {NULL, "well-formed", "uuid4"}

\* Nothing has happened on the way in, but that the context layer gave an id.
WayIn ==
    /\ inward = TRUE => depth > 0 /\ sent = <<>> /\ raised = NULL /\ (depth <= 3 => state = NULL)
    /\ depth > 3 => state # NULL

\* On the way out there is an answer or an exception, and inside the exception
\* layer only one of the two.
WayOut ==
    /\ inward = FALSE => depth < 9 /\ (sent = <<>> => raised # NULL /\ depth > 0)
    /\ depth = 8 /\ inward = FALSE =>
          \/ raised = NULL
          \/ sent = <<>> /\ raised = TooLarge
          \/ sent = <<>> /\ raised = rq.ending /\ rq.ending.kind # "return"

\* There is at most one answer.
Answered == sent = <<>> \/ \E a : sent = <<a>> /\ CarriesId(a) /\ IsProblem(a)

\* The context layer logs once, on the way out, what the client was or will be sent.
LogAgrees ==
    /\ \E S : logs \in Seq(S)
    /\ inward = TRUE \/ depth >= 3 => Entries(logs) = {}
    /\ inward = FALSE /\ depth < 3 /\ state # NULL =>
          \E i \in 1..Len(logs) : /\ Entries(logs) = {i}
                                  /\ logs[i].id = state /\ logs[i].status = ObservedStatus

PipelineInv == Typed /\ WayIn /\ WayOut /\ Answered /\ LogAgrees
-----------------------------------------------------------------------------
\* A request that has just arrived.
LEMMA InitPipeline == Init => PipelineInv
  <1> SUFFICES ASSUME Init PROVE PipelineInv
    OBVIOUS
  <1>1. Typed
    BY DEF Init, Typed
  <1>2. WayIn /\ WayOut /\ Answered
    BY DEF Init, WayIn, WayOut, Answered
  <1>3. LogAgrees
    BY DEF Init, LogAgrees, Entries
  <1> QED
    BY <1>1, <1>2, <1>3 DEF PipelineInv

\* Settings, request and id stay what they are.
LEMMA StaysTyped ==
  ASSUME Typed, depth' \in 0..9, inward' \in BOOLEAN, UNCHANGED state, Fixed
  PROVE  Typed'
  <1>1. (~Unsafe(conf))' /\ conf' \in Settings
    BY DEF Typed, Fixed, Unsafe
  <1> QED
    BY <1>1 DEF Typed, Fixed

\* What was sent stays good as long as the request keeps its id.
LEMMA StaysAnswered ==
  ASSUME Answered, UNCHANGED <<sent, state>>, Fixed
  PROVE  Answered'
  <1>1. \A a : CarriesId(a)' <=> CarriesId(a)
    BY DEF CarriesId, Fixed
  <1>2. \A a : IsProblem(a)' <=> IsProblem(a)
    BY DEF IsProblem, AuthError, Cors, Fixed
  <1> QED
    BY <1>1, <1>2 DEF Answered

\* A good answer is sent.
LEMMA SendsGood ==
  ASSUME NEW a, sent' = <<a>>, CarriesId(a), IsProblem(a), UNCHANGED state, Fixed
  PROVE  Answered' /\ sent' # <<>>
  <1>1. CarriesId(a)' /\ IsProblem(a)'
    BY DEF CarriesId, IsProblem, AuthError, Cors, Fixed
  <1> QED
    BY <1>1 DEF Answered

\* Logs, answer and id stay as they are.
LEMMA StaysLogged ==
  ASSUME LogAgrees, UNCHANGED <<sent, state, logs>>,
         (inward = TRUE \/ depth >= 3)' => inward = TRUE \/ depth >= 3,
         (inward = FALSE /\ depth < 3 /\ state # NULL)' => inward = FALSE /\ depth < 3 /\ state # NULL
  PROVE  LogAgrees'
  BY DEF LogAgrees, ObservedStatus, Entries

\* Going in past a layer that does nothing.
LEMMA PassInStep ==
  ASSUME PipelineInv, PassIn
  PROVE  PipelineInv'
  <1>1. inward = TRUE /\ inward' = TRUE /\ depth \in 1..9 /\ depth' = depth + 1
        /\ UNCHANGED <<raised, state, sent, logs, conf, rq>>
    BY DEF PipelineInv, Typed, WayIn, PassIn, GoIn, Fixed
  <1>2. depth \notin {3, 9}
    BY <1>1, Nesting DEF PassIn
  <1>3. Typed' /\ WayIn' /\ WayOut'
    BY <1>1, <1>2 DEF PipelineInv, Typed, WayIn, WayOut
  <1>4. Answered' /\ LogAgrees'
    BY <1>1, StaysAnswered, StaysLogged DEF PipelineInv, Fixed
  <1> QED
    BY <1>3, <1>4 DEF PipelineInv

\* CORS answers a preflight, or passes the request on.
LEMMA CorsInStep ==
  ASSUME PipelineInv, CorsIn
  PROVE  PipelineInv'
  <1>1. /\ depth = 2 /\ inward = TRUE /\ UNCHANGED <<state, logs, conf, rq>>
        /\ sent = <<>> /\ raised = NULL /\ state = NULL
    BY Depths DEF PipelineInv, WayIn, CorsIn, At, Fixed
  <1>2. CASE GoIn /\ UNCHANGED sent
    <2>1. Typed' /\ WayIn' /\ WayOut'
      BY <1>1, <1>2 DEF PipelineInv, Typed, WayIn, WayOut, GoIn
    <2>2. Answered' /\ LogAgrees'
      BY <1>1, <1>2, StaysAnswered, StaysLogged DEF PipelineInv, Fixed, GoIn
    <2> QED
      BY <2>1, <2>2 DEF PipelineInv
  <1>3. ASSUME NEW status \in {200, 400}, Cors, rq.preflight,
               Answer(Response(status, "text", FALSE))
        PROVE  PipelineInv'
    <2>1. PICK a : sent' = <<a>>
      <3>1. sent' = Append(sent, Stamped(Response(status, "text", FALSE), depth))
        BY <1>3 DEF Answer
      <3> QED
        BY <1>1, <3>1, FirstAnswer, Zenon
    <2>2. depth' = 1 /\ inward' = FALSE /\ raised' = NULL
      BY <1>1, <1>3 DEF Answer
    <2>3. CarriesId(a) /\ IsProblem(a)
      BY <1>1, <1>3 DEF CarriesId, IsProblem
    <2>4. Answered' /\ sent' # <<>>
      BY <1>1, <2>1, <2>3, SendsGood DEF Fixed
    <2>5. Typed' /\ WayIn' /\ WayOut'
      <3>1. Typed'
        <4>1. inward' \in BOOLEAN
          BY <2>2
        <4>2. depth' \in 0..9
          BY <2>2
        <4> QED
          BY <1>1, <4>1, <4>2, StaysTyped DEF PipelineInv, Fixed
      <3>2. WayIn'
        BY <1>1, <2>2 DEF WayIn
      <3>3. WayOut'
        BY <1>1, <2>2, <2>4 DEF WayOut
      <3> QED
        BY <3>1, <3>2, <3>3
    <2>6. LogAgrees'
      BY <1>1, <2>2 DEF PipelineInv, LogAgrees
    <2> QED
      BY <2>4, <2>5, <2>6 DEF PipelineInv
  <1>4. \/ GoIn /\ UNCHANGED sent
        \/ Cors /\ rq.preflight
           /\ \E status \in {200, 400} : Answer(Response(status, "text", FALSE))
    BY DEF CorsIn
  <1> QED
    BY <1>2, <1>3, <1>4

\* The context layer gives the request an id.
LEMMA ContextInStep ==
  ASSUME PipelineInv, ContextIn
  PROVE  PipelineInv'
  <1>1. /\ depth = 3 /\ inward = TRUE /\ depth' = 4 /\ inward' = TRUE
        /\ UNCHANGED <<raised, sent, logs, conf, rq>>
        /\ sent = <<>> /\ raised = NULL /\ state = NULL
    BY Depths DEF PipelineInv, WayIn, ContextIn, GoIn, At, Fixed
  <1>2. state' \in {"well-formed", "uuid4"} /\ state' # NULL
    BY PipelineAssumption DEF ContextIn, ResolveRequestId
  <1>3. Typed' /\ WayIn' /\ WayOut'
    BY <1>1, <1>2 DEF PipelineInv, Typed, WayIn, WayOut
  <1>4. Answered' /\ LogAgrees'
    BY <1>1 DEF PipelineInv, Answered, LogAgrees
  <1> QED
    BY <1>3, <1>4 DEF PipelineInv

\* A host that is not allowed is refused.
LEMMA TrustedHostInStep ==
  ASSUME PipelineInv, TrustedHostIn
  PROVE  PipelineInv'
  <1>1. /\ depth = 4 /\ inward = TRUE /\ UNCHANGED <<state, logs, conf, rq>>
        /\ sent = <<>> /\ raised = NULL /\ state # NULL
    BY Depths DEF PipelineInv, WayIn, TrustedHostIn, At, Fixed
  <1>2. CASE GoIn /\ UNCHANGED sent
    <2>1. Typed' /\ WayIn' /\ WayOut'
      BY <1>1, <1>2 DEF PipelineInv, Typed, WayIn, WayOut, GoIn
    <2>2. Answered' /\ LogAgrees'
      BY <1>1, <1>2, StaysAnswered, StaysLogged DEF PipelineInv, Fixed, GoIn
    <2> QED
      BY <2>1, <2>2 DEF PipelineInv
  <1>3. CASE ~rq.host_allowed /\ Answer(Response(400, "text", FALSE))
    <2>1. PICK a : sent' = <<a>> /\ a = Stamped(Response(400, "text", FALSE), depth)
      BY <1>1, <1>3, FirstAnswer, Zenon DEF Answer
    <2>2. depth' = 3 /\ inward' = FALSE /\ raised' = NULL
      BY <1>1, <1>3 DEF Answer
    <2>3. a.request_id = state
      <3>1. conf.production \in BOOLEAN
        BY DEF PipelineInv, Typed, Settings
      <3>2. PICK d \in Nat : d = depth /\ d > 3
        BY <1>1
      <3>3. PICK type : type = "text"
        OBVIOUS
      <3>4. PICK status : status = 400
        OBVIOUS
      <3>5. a = Stamped(Plain(status, type), d)
        BY <2>1, <3>2, <3>3, <3>4, Zenon DEF Plain
      <3>6. d > 3 => a.request_id = state
        BY <3>1, <3>5, ResponseIs
      <3> QED
        BY <3>2, <3>6
    <2>4. CarriesId(a) /\ IsProblem(a)
      BY <1>3, <2>3 DEF CarriesId, IsProblem
    <2>5. Answered' /\ sent' # <<>>
      BY <1>1, <2>1, <2>4, SendsGood DEF Fixed
    <2>6. Typed' /\ WayIn' /\ WayOut'
      <3>1. Typed'
        <4>1. inward' \in BOOLEAN
          BY <2>2
        <4>2. depth' \in 0..9
          BY <2>2
        <4> QED
          BY <1>1, <4>1, <4>2, StaysTyped DEF PipelineInv, Fixed
      <3>2. WayIn'
        BY <1>1, <2>2 DEF WayIn
      <3>3. WayOut'
        BY <1>1, <2>2, <2>5 DEF WayOut
      <3> QED
        BY <3>1, <3>2, <3>3
    <2>7. LogAgrees'
      BY <1>1, <2>2 DEF PipelineInv, LogAgrees
    <2> QED
      BY <2>5, <2>6, <2>7 DEF PipelineInv
  <1>4. (GoIn /\ UNCHANGED sent) \/ (~rq.host_allowed /\ Answer(Response(400, "text", FALSE)))
    BY DEF TrustedHostIn
  <1> QED
    BY <1>2, <1>3, <1>4

\* The route returns a response, or raises what it will raise.
LEMMA RouterInStep ==
  ASSUME PipelineInv, RouterIn
  PROVE  PipelineInv'
  <1>1. /\ depth = 9 /\ inward = TRUE /\ UNCHANGED <<state, logs, conf, rq>>
        /\ sent = <<>> /\ raised = NULL /\ state # NULL
    BY Depths DEF PipelineInv, WayIn, RouterIn, At, Fixed
  <1>2. rq.ending # NULL /\ TooLarge # NULL /\ TooLarge \in Endings
    BY PipelineAssumption DEF PipelineInv, Typed, TooLarge, Endings, HttpErrors
  <1>3. ASSUME NEW e, e = TooLarge \/ (e = rq.ending /\ rq.ending.kind # "return"),
               Raise(e), UNCHANGED sent
        PROVE  PipelineInv'
    <2>1. depth' = 8 /\ inward' = FALSE /\ raised' = e /\ sent' = <<>> /\ e # NULL
      BY <1>1, <1>2, <1>3 DEF Raise
    <2>2. Typed' /\ WayIn' /\ WayOut'
      <3>1. Typed'
        <4>1. inward' \in BOOLEAN
          BY <2>1
        <4>2. depth' \in 0..9
          BY <2>1
        <4> QED
          BY <1>1, <4>1, <4>2, StaysTyped DEF PipelineInv, Fixed
      <3>2. WayIn'
        BY <1>1, <2>1 DEF WayIn
      <3>3. WayOut'
        BY <1>1, <1>3, <2>1 DEF WayOut
      <3> QED
        BY <3>1, <3>2, <3>3
    <2>3. Answered' /\ LogAgrees'
      BY <1>1, <2>1 DEF PipelineInv, Answered, LogAgrees
    <2> QED
      BY <2>2, <2>3 DEF PipelineInv
  <1>4. CASE Answer(Response(200, "json", FALSE))
    <2>1. PICK a : sent' = <<a>> /\ a = Stamped(Response(200, "json", FALSE), depth)
      BY <1>1, <1>4, FirstAnswer, Zenon DEF Answer
    <2>2. depth' = 8 /\ inward' = FALSE /\ raised' = NULL
      BY <1>1, <1>4 DEF Answer
    <2>3. a.request_id = state /\ a.status = 200 /\ a.security /\ (a.hsts <=> conf.production)
      <3>1. conf.production \in BOOLEAN
        BY DEF PipelineInv, Typed, Settings
      <3>2. PICK d \in Nat : d = depth /\ d > 3 /\ d > 5
        BY <1>1
      <3>3. PICK type : type = "json"
        OBVIOUS
      <3>4. PICK status : status = 200
        OBVIOUS
      <3>5. a = Stamped(Plain(status, type), d)
        BY <2>1, <3>2, <3>3, <3>4, Zenon DEF Plain
      <3>6. /\ a.status = status
            /\ d > 3 => a.request_id = state
            /\ d > 5 => a.security /\ (a.hsts <=> conf.production)
        BY <3>1, <3>5, ResponseIs
      <3> QED
        BY <3>2, <3>4, <3>6
    <2>4. CarriesId(a) /\ IsProblem(a)
      BY <2>3 DEF CarriesId, IsProblem
    <2>5. Answered' /\ sent' # <<>>
      BY <1>1, <2>1, <2>4, SendsGood DEF Fixed
    <2>6. Typed' /\ WayIn' /\ WayOut'
      <3>1. Typed'
        <4>1. inward' \in BOOLEAN
          BY <2>2
        <4>2. depth' \in 0..9
          BY <2>2
        <4> QED
          BY <1>1, <4>1, <4>2, StaysTyped DEF PipelineInv, Fixed
      <3>2. WayIn'
        BY <1>1, <2>2 DEF WayIn
      <3>3. WayOut'
        BY <1>1, <2>2, <2>5 DEF WayOut
      <3> QED
        BY <3>1, <3>2, <3>3
    <2>7. LogAgrees'
      BY <1>1, <2>2 DEF PipelineInv, LogAgrees
    <2> QED
      BY <2>5, <2>6, <2>7 DEF PipelineInv
  <1> QED
    BY <1>3, <1>4 DEF RouterIn, TooLarge

\* An error of the routed application is answered with its problem.
LEMMA HandledIs ==
  ASSUME rq.ending \in Endings, NEW e,
         e = TooLarge \/ (e = rq.ending /\ rq.ending.kind # "return"), e.kind # "Exception"
  PROVE  \E status, type :
            /\ Handled(e) = ProblemResponse(status, type)
            /\ (AuthError /\ status \notin {413, 500}) => status = 401
  <1>1. CASE e = TooLarge
    <2>1. e.kind = "HTTPException" /\ e.status = 413
      BY <1>1 DEF TooLarge
    <2>2. Handled(e) = ProblemResponse(413, "http-error")
      BY <2>1 DEF Handled
    <2> QED
      BY <2>2
  <1>2. CASE e = rq.ending
    <2>1. e.kind \in {"DomainError", "HTTPException", "RequestValidationError"}
      BY <1>1, <1>2 DEF Endings, Returned, HttpErrors, DomainErrors, Others, TooLarge
    <2>2. CASE e.kind = "DomainError"
      <3>1. Handled(e) = ProblemResponse(SpecFor(e.class).status, SpecFor(e.class).type)
        BY <2>2 DEF Handled
      <3>2. AuthError => SpecFor(e.class).status = 401
        BY <1>2, AuthErrorIs, AuthErrorsAre401
      <3> QED
        BY <3>1, <3>2
    <2>3. CASE e.kind = "HTTPException"
      <3>1. Handled(e) = ProblemResponse(e.status, "http-error")
        BY <2>3 DEF Handled
      <3>2. ~AuthError
        BY <1>2, <2>3 DEF AuthError
      <3> QED
        BY <3>1, <3>2
    <2>4. CASE e.kind = "RequestValidationError"
      <3>1. Handled(e) = ProblemResponse(422, "request-validation-error")
        BY <2>4 DEF Handled
      <3>2. ~AuthError
        BY <1>2, <2>4 DEF AuthError
      <3> QED
        BY <3>1, <3>2
    <2> QED
      BY <2>1, <2>2, <2>3, <2>4
  <1> QED
    BY <1>1, <1>2

\* A layer returns or raises on the way out, inside or outside the context layer,
\* and neither answers nor logs.
LEMMA PassesOut ==
  ASSUME PipelineInv, NEW e, inward = FALSE, depth \in {1, 2, 4, 5, 6, 7, 8}, Raise(e),
         UNCHANGED <<state, sent, logs>>, Fixed, e = NULL => raised = NULL,
         depth = 1 => sent # <<>>
  PROVE  PipelineInv'
  <1>1. depth' = depth - 1 /\ inward' = FALSE /\ raised' = e
    BY DEF Raise
  <1>2. inward' \in BOOLEAN
    BY <1>1
  <1>3. depth' \in 0..9 /\ depth' < 8
    BY <1>1
  <1>4. Typed'
    BY <1>2, <1>3, StaysTyped DEF PipelineInv
  <1>5. WayIn'
    BY <1>1 DEF PipelineInv, WayIn
  <1>6. WayOut'
    BY <1>1, <1>3 DEF PipelineInv, WayOut
  <1>7. (depth' >= 3 => depth >= 3) /\ (depth' < 3 => depth < 3)
    BY <1>1
  <1>8. LogAgrees'
    BY <1>1, <1>7, StaysLogged DEF PipelineInv
  <1> QED
    BY <1>4, <1>5, <1>6, <1>8, StaysAnswered DEF PipelineInv

\* The layers that do nothing on the way out, and the closing of the session.
LEMMA PassOutStep ==
  ASSUME PipelineInv, PassOut \/ ContainerOut
  PROVE  PipelineInv'
  <1>1. CASE PassOut
    <2>1. inward = FALSE /\ depth \in 1..9
      BY <1>1 DEF PassOut, PipelineInv, Typed
    <2>2. depth \in {2, 4, 5, 6}
      BY <1>1, <2>1, Nesting DEF PassOut
    <2>3. depth \in {1, 2, 4, 5, 6, 7, 8} /\ (depth = 1 => sent # <<>>)
      BY <2>2
    <2> QED
      BY <1>1, <2>1, <2>3, PassesOut DEF PassOut
  <1>2. CASE ContainerOut
    <2>1. inward = FALSE /\ depth = 7
      BY <1>2, Depths DEF ContainerOut, At
    <2>2. [kind |-> "Exception"] # NULL
      BY PipelineAssumption DEF Endings, Others
    <2>3. \E e : Raise(e) /\ (e = NULL => raised = NULL)
      BY <1>2, <2>2 DEF ContainerOut
    <2>4. depth \in {1, 2, 4, 5, 6, 7, 8} /\ (depth = 1 => sent # <<>>)
      BY <2>1
    <2> QED
      BY <1>2, <2>1, <2>3, <2>4, PassesOut DEF ContainerOut
  <1> QED
    BY <1>1, <1>2

\* The exception layer answers for what it has a handler for.
LEMMA ExceptionsOutStep ==
  ASSUME PipelineInv, ExceptionsOut
  PROVE  PipelineInv'
  <1>1. depth = 8 /\ inward = FALSE /\ state # NULL /\ UNCHANGED <<state, conf, rq>>
    BY Depths DEF PipelineInv, WayIn, ExceptionsOut, At, Fixed
  <1>2. CASE ~(raised # NULL /\ raised.kind # "Exception")
    <2>1. Raise(raised) /\ UNCHANGED <<sent, logs>>
      BY <1>2 DEF ExceptionsOut
    <2>2. depth \in {1, 2, 4, 5, 6, 7, 8} /\ (depth = 1 => sent # <<>>)
      BY <1>1
    <2> QED
      BY <1>1, <2>1, <2>2, PassesOut DEF Fixed
  <1>3. CASE raised # NULL /\ raised.kind # "Exception"
    <2>1. sent = <<>> /\ (raised = TooLarge \/ (raised = rq.ending /\ rq.ending.kind # "return"))
      BY <1>1, <1>3 DEF PipelineInv, WayOut
    <2>2. PICK e : e = raised
      OBVIOUS
    <2>3. PICK status, type : /\ Handled(e) = ProblemResponse(status, type)
                              /\ (AuthError /\ status \notin {413, 500}) => status = 401
      BY <1>3, <2>1, <2>2, HandledIs DEF PipelineInv, Typed
    <2>4. /\ sent' = Append(sent, Stamped(Handled(raised), depth))
          /\ depth' = 7 /\ inward' = FALSE /\ raised' = NULL
      BY <1>1, <1>3 DEF ExceptionsOut, Answer
    <2>5. PICK d \in Nat : d = depth /\ d > 5
      BY <1>1
    <2>6. PICK a : sent' = <<a>> /\ a = Stamped(ProblemResponse(status, type), d)
      <3>1. PICK a : a = Stamped(ProblemResponse(status, type), d)
        OBVIOUS
      <3>2. Stamped(Handled(raised), depth) = a
        BY <2>2, <2>3, <2>5, <3>1
      <3>3. sent' = Append(<<>>, a)
        BY <2>1, <2>4, <3>2
      <3> QED
        BY <3>1, <3>3, FirstAnswer
    <2>7. conf.production \in BOOLEAN
      BY DEF PipelineInv, Typed, Settings
    <2>8. /\ a.status = status /\ a.problem /\ (a.authenticate <=> status = 401)
          /\ a.request_id = state /\ a.security /\ (a.hsts <=> conf.production)
      BY <2>5, <2>6, <2>7, ProblemIs
    <2>9. CarriesId(a)
      BY <2>8 DEF CarriesId
    <2>10. IsProblem(a)
      BY <2>3, <2>8 DEF IsProblem
    <2>11. Answered' /\ sent' # <<>>
      BY <1>1, <2>6, <2>9, <2>10, SendsGood DEF Fixed
    <2>12. Typed'
      <3>1. inward' \in BOOLEAN
        BY <2>4
      <3>2. depth' \in 0..9
        BY <2>4
      <3> QED
        BY <1>1, <3>1, <3>2, StaysTyped DEF PipelineInv, Fixed
    <2>13. WayIn' /\ WayOut'
      BY <1>1, <2>4, <2>11 DEF WayIn, WayOut
    <2>14. LogAgrees'
      <3>1. CASE logs' = logs
        BY <1>1, <2>4, <3>1 DEF PipelineInv, LogAgrees
      <3>2. ASSUME NEW l, l.event # "http.request", logs' = Append(logs, l) PROVE LogAgrees'
        <4>1. PICK S : logs \in Seq(S)
          BY DEF PipelineInv, LogAgrees
        <4>2. logs' \in Seq(S \cup {l}) /\ Entries(logs') = Entries(logs)
          BY <3>2, <4>1, AppendIs, OtherAppended, Zenon
        <4>3. Entries(logs)' = {}
          BY <1>1, <4>2 DEF PipelineInv, LogAgrees, Entries
        <4> QED
          BY <2>4, <4>2, <4>3 DEF LogAgrees
      <3>3. \/ logs' = logs
            \/ \E l : l.event # "http.request" /\ logs' = Append(logs, l)
        <4>1. CASE raised.kind = "DomainError"
          <5>1. PICK l : l = [event |-> "request.domain_error", id |-> bound,
                              status |-> SpecFor(raised.class).status]
            OBVIOUS
          <5>2. l.event # "http.request"
            BY <5>1
          <5> QED
            BY <1>3, <4>1, <5>1, <5>2 DEF ExceptionsOut
        <4> QED
          BY <1>3, <4>1 DEF ExceptionsOut
      <3> QED
        BY <3>1, <3>2, <3>3
    <2> QED
      BY <2>11, <2>12, <2>13, <2>14 DEF PipelineInv
  <1> QED
    BY <1>2, <1>3

\* The context layer logs the request.
LEMMA ContextOutStep ==
  ASSUME PipelineInv, ContextOut
  PROVE  PipelineInv'
  <1>1. /\ depth = 3 /\ inward = FALSE /\ UNCHANGED <<state, sent, conf, rq>>
        /\ depth' = 2 /\ inward' = FALSE /\ raised' = raised
    BY Depths DEF ContextOut, At, Raise, Fixed
  <1>2. Typed'
    <2>1. inward' \in BOOLEAN
      BY <1>1
    <2>2. depth' \in 0..9
      BY <1>1
    <2> QED
      BY <1>1, <2>1, <2>2, StaysTyped DEF PipelineInv, Fixed
  <1>3. WayIn' /\ WayOut'
    BY <1>1 DEF PipelineInv, WayIn, WayOut
  <1>4. Answered'
    BY <1>1, StaysAnswered DEF PipelineInv, Fixed
  <1>5. LogAgrees'
    <2>1. PICK l : /\ logs' = Append(logs, l)
                   /\ l = [event |-> "http.request", id |-> state, status |-> ObservedStatus]
      BY DEF ContextOut
    <2>2. l.event = "http.request" /\ l.id = state /\ l.status = ObservedStatus
      BY <2>1
    <2>3. PICK S : logs \in Seq(S)
      BY DEF PipelineInv, LogAgrees
    <2>4. Entries(logs) = {}
      BY <1>1 DEF PipelineInv, LogAgrees
    <2>5. PICK n \in Nat : n = Len(logs)
      BY <2>3
    <2>6. /\ logs' \in Seq(S \cup {l}) /\ Len(logs') = n + 1 /\ logs'[n + 1] = l
          /\ Entries(logs') = {n + 1}
      <3>1. logs' = Append(logs, l)
        BY <2>1
      <3>2. logs' \in Seq(S \cup {l}) /\ Len(logs') = Len(logs) + 1
        BY <2>3, <3>1, AppendIs, Zenon
      <3>3. logs'[Len(logs) + 1] = l
        BY <2>3, <3>1, AppendIs, Zenon
      <3>4. Entries(logs') = Entries(logs) \cup {Len(logs) + 1}
        BY <2>2, <2>3, <3>1, EntryAppended, Zenon
      <3> QED
        BY <2>4, <2>5, <3>2, <3>3, <3>4
    <2>7. n + 1 \in 1..Len(logs') /\ ObservedStatus' = ObservedStatus
      BY <1>1, <2>6 DEF ObservedStatus
    <2>8. \E i \in 1..Len(logs') : /\ Entries(logs)' = {i}
                                   /\ logs'[i].id = state' /\ logs'[i].status = ObservedStatus'
      BY <1>1, <2>2, <2>6, <2>7 DEF Entries
    <2>9. \E T : logs' \in Seq(T)
      BY <2>6, Zenon
    <2> QED
      BY <1>1, <2>8, <2>9 DEF LogAgrees
  <1> QED
    BY <1>2, <1>3, <1>4, <1>5 DEF PipelineInv

\* The 500 the outermost layer sends if nothing has been sent.
LEMMA ServerErrorIs ==
  ASSUME Typed, depth = 1, NEW a, a = Stamped(ServerError, depth)
  PROVE  a.status = 500 /\ CarriesId(a) /\ IsProblem(a)
  <1>1. conf.production \in BOOLEAN /\ conf.debug \in BOOLEAN
    BY DEF Typed, Settings
  <1>2. PICK d \in Nat : d = depth
    OBVIOUS
  <1>3. PICK status : status = 500
    OBVIOUS
  <1>4. CASE conf.debug
    <2>1. PICK type : type = "traceback"
      OBVIOUS
    <2>2. a = Stamped(Plain(status, type), d)
      BY <1>2, <1>3, <1>4, <2>1 DEF ServerError, Plain
    <2>3. a.status = status
      BY <1>1, <2>2, ResponseIs
    <2>4. ~conf.production
      BY <1>4 DEF Typed, Unsafe
    <2> QED
      BY <1>3, <1>4, <2>3, <2>4 DEF CarriesId, IsProblem
  <1>5. CASE ~conf.debug
    <2>1. PICK type : type = "about:blank"
      OBVIOUS
    <2>2. a = Stamped(ProblemResponse(status, type), d)
      BY <1>2, <1>3, <1>5, <2>1 DEF ServerError
    <2>3. a.status = status /\ a.problem /\ a.request_id = state
      BY <1>1, <2>2, ProblemIs
    <2> QED
      BY <1>3, <2>3 DEF CarriesId, IsProblem
  <1> QED
    BY <1>4, <1>5

\* The outermost layer answers for an unhandled error if nobody has.
LEMMA ServerErrorOutStep ==
  ASSUME PipelineInv, ServerErrorOut
  PROVE  PipelineInv'
  <1>1. /\ depth = 1 /\ inward = FALSE /\ UNCHANGED <<state, conf, rq>> /\ Raise(raised)
        /\ depth' = 0 /\ inward' = FALSE /\ raised' = raised
    BY Depths DEF ServerErrorOut, At, Raise, Fixed
  <1>2. CASE raised = NULL
    <2>1. UNCHANGED <<sent, logs>> /\ sent # <<>>
      BY <1>1, <1>2 DEF ServerErrorOut, PipelineInv, WayOut
    <2> QED
      BY <1>1, <2>1, PassesOut DEF Fixed
  <1>3. CASE raised # NULL
    <2>1. Typed'
      <3>1. inward' \in BOOLEAN
        BY <1>1
      <3>2. depth' \in 0..9
        BY <1>1
      <3> QED
        BY <1>1, <3>1, <3>2, StaysTyped DEF PipelineInv, Fixed
    <2>2. sent' = UnhandledAnswer /\ sent' # <<>>
      BY <1>3 DEF ServerErrorOut, UnhandledAnswer
    <2>3. WayIn' /\ WayOut'
      BY <1>1, <1>3, <2>2 DEF WayIn, WayOut
    <2>4. Answered' /\ ObservedStatus' = ObservedStatus
      <3>1. CASE sent = <<>>
        <4>1. PICK a : sent' = <<a>> /\ a = Stamped(ServerError, depth)
          BY <2>2, <3>1 DEF UnhandledAnswer
        <4>2. a.status = 500 /\ CarriesId(a) /\ IsProblem(a)
          BY <1>1, <4>1, ServerErrorIs DEF PipelineInv
        <4>3. Answered' /\ sent' # <<>>
          BY <1>1, <4>1, <4>2, SendsGood DEF Fixed
        <4>4. ObservedStatus = 500 /\ ObservedStatus' = 500
          BY <3>1, <4>1, <4>2, <4>3 DEF ObservedStatus
        <4> QED
          BY <4>3, <4>4
      <3>2. CASE sent # <<>>
        <4>1. sent' = sent
          BY <2>2, <3>2 DEF UnhandledAnswer
        <4>2. Answered'
          BY <1>1, <4>1, StaysAnswered DEF PipelineInv, Fixed
        <4> QED
          BY <4>1, <4>2 DEF ObservedStatus
      <3> QED
        BY <3>1, <3>2
    <2>5. LogAgrees'
      <3>1. \/ logs' = logs
            \/ \E l : l.event # "http.request" /\ logs' = Append(logs, l)
        <4>1. PICK l : l = [event |-> "request.unhandled_error", id |-> bound, status |-> 500]
          OBVIOUS
        <4>2. l.event # "http.request"
          BY <4>1
        <4> QED
          BY <1>3, <4>1, <4>2 DEF ServerErrorOut
      <3>2. CASE logs' = logs
        BY <1>1, <2>4, <3>2 DEF PipelineInv, LogAgrees, Entries
      <3>3. ASSUME NEW l, l.event # "http.request", logs' = Append(logs, l) PROVE LogAgrees'
        <4>1. PICK S : logs \in Seq(S)
          BY DEF PipelineInv, LogAgrees
        <4>2. /\ logs' \in Seq(S \cup {l}) /\ Entries(logs') = Entries(logs)
              /\ Len(logs') = Len(logs) + 1 /\ Len(logs) \in Nat
              /\ \A i \in 1..Len(logs) : logs'[i] = logs[i]
          <5>1. logs' \in Seq(S \cup {l}) /\ Len(logs') = Len(logs) + 1 /\ Len(logs) \in Nat
            BY <3>3, <4>1, AppendIs, Zenon
          <5>2. \A i \in 1..Len(logs) : logs'[i] = logs[i]
            BY <3>3, <4>1, AppendKeeps, Zenon
          <5>3. Entries(logs') = Entries(logs)
            BY <3>3, <4>1, OtherAppended, Zenon
          <5> QED
            BY <5>1, <5>2, <5>3
        <4>3. \A i \in 1..Len(logs) : i \in 1..Len(logs')
          BY <4>2
        <4>4. state # NULL =>
                \E i \in 1..Len(logs) : /\ Entries(logs) = {i}
                                        /\ logs[i].id = state /\ logs[i].status = ObservedStatus
          BY <1>1 DEF PipelineInv, LogAgrees
        <4>5. Entries(logs)' = Entries(logs)
          BY <4>2 DEF Entries
        <4>6. state' # NULL =>
                \E i \in 1..Len(logs') : /\ Entries(logs)' = {i}
                                         /\ logs'[i].id = state' /\ logs'[i].status = ObservedStatus'
          BY <1>1, <2>4, <4>2, <4>3, <4>4, <4>5
        <4> QED
          BY <1>1, <4>2, <4>6 DEF LogAgrees
      <3> QED
        BY <3>1, <3>2, <3>3
    <2> QED
      BY <2>1, <2>3, <2>4, <2>5 DEF PipelineInv
  <1> QED
    BY <1>2, <1>3
-----------------------------------------------------------------------------
\* Every request, whatever its ending and its settings, keeps the invariant at every
\* layer.
THEOREM PipelineInvariance == Spec => []PipelineInv
  <1>1. PipelineInv /\ [Next]_vars => PipelineInv'
    <2> SUFFICES ASSUME PipelineInv, [Next]_vars PROVE PipelineInv'
      OBVIOUS
    <2>1. CASE UNCHANGED vars
      <3>1. UNCHANGED <<conf, rq, depth, inward, raised, state, sent, logs>> /\ Fixed
        BY <2>1 DEF vars, Fixed
      <3>2. Typed' /\ WayIn' /\ WayOut'
        BY <3>1 DEF PipelineInv, Typed, WayIn, WayOut, Unsafe
      <3> QED
        BY <3>1, <3>2, StaysAnswered, StaysLogged DEF PipelineInv
    <2> QED
      BY <2>1, PassInStep, CorsInStep, ContextInStep, TrustedHostInStep, RouterInStep,
         ExceptionsOutStep, PassOutStep, ContextOutStep, ServerErrorOutStep DEF Next
  <1> QED
    BY <1>1, InitPipeline, PTL DEF Spec

\* A request is answered exactly once, whatever raises on the way out
\* (create_app, ServerErrorMiddleware and the request scope).
THEOREM RequestsAreAnsweredOnce == Spec => []AnsweredOnce
  <1>1. PipelineInv => AnsweredOnce
    <2> SUFFICES ASSUME PipelineInv PROVE AnsweredOnce
      OBVIOUS
    <2>1. Len(sent) <= 1 /\ (sent # <<>> => Len(sent) = 1)
      BY DEF PipelineInv, Answered
    <2>2. Done => sent # <<>>
      BY DEF PipelineInv, Typed, WayIn, WayOut, Done
    <2> QED
      BY <2>1, <2>2 DEF AnsweredOnce
  <1> QED
    BY <1>1, PipelineInvariance, PTL

\* What was sent, if anything was.
LEMMA OnlyAnswer ==
  ASSUME Answered, NEW a \in Answers
  PROVE  sent = <<a>> /\ CarriesId(a) /\ IsProblem(a)
  <1>1. PICK i \in 1..Len(sent) : a = sent[i]
    BY DEF Answers
  <1>2. PICK b : sent = <<b>> /\ CarriesId(b) /\ IsProblem(b)
    BY <1>1 DEF Answered
  <1>3. a = b
    BY <1>1, <1>2
  <1> QED
    BY <1>2, <1>3

\* Outside debug mode an answer carries the request's id, and the security headers
\* if it comes from inside SecurityHeaders (middleware.py, exception_handlers.py).
THEOREM AnswersCarryId == Spec => []AnswersCarryRequestId
  <1>1. PipelineInv => AnswersCarryRequestId
    BY OnlyAnswer DEF PipelineInv, Typed, CarriesId, AnswersCarryRequestId
  <1> QED
    BY <1>1, PipelineInvariance, PTL

\* Errors of the routed application are problems, and authentication errors and
\* those derived from them are challenges (exception_handlers.py, _spec_for).
THEOREM ErrorsAreProblems == Spec => []RoutedErrorsAreProblems
  <1>1. PipelineInv => RoutedErrorsAreProblems
    BY OnlyAnswer DEF PipelineInv, IsProblem, RoutedErrorsAreProblems
  <1> QED
    BY <1>1, PipelineInvariance, PTL

\* The access log tells of each request once what its client was sent
\* (RequestContextMiddleware).
THEOREM LogAgreesWithAnswer == Spec => []AccessLogAgrees
  <1>1. PipelineInv => AccessLogAgrees
    <2> SUFFICES ASSUME PipelineInv, Done, state # NULL
                 PROVE  \E i \in 1..Len(logs) :
                           /\ Logged("http.request") = {i}
                           /\ logs[i].status = sent[1].status
                           /\ logs[i].id = sent[1].request_id \/ conf.debug
      BY DEF AccessLogAgrees
    <2>1. inward = FALSE /\ depth = 0 /\ sent # <<>>
      BY DEF PipelineInv, Typed, WayIn, WayOut, Done
    <2>2. PICK a : sent = <<a>> /\ CarriesId(a)
      BY <2>1 DEF PipelineInv, Answered
    <2>3. sent[1] = a /\ ObservedStatus = a.status
      BY <2>1, <2>2 DEF ObservedStatus
    <2>4. a.request_id = state \/ conf.debug
      BY <2>2 DEF CarriesId
    <2>5. PICK i \in 1..Len(logs) : /\ Entries(logs) = {i}
                                    /\ logs[i].id = state /\ logs[i].status = ObservedStatus
      BY <2>1 DEF PipelineInv, LogAgrees
    <2>6. Logged("http.request") = {i}
      BY <2>5 DEF Logged, Entries
    <2> QED
      BY <2>3, <2>4, <2>5, <2>6
  <1> QED
    BY <1>1, PipelineInvariance, PTL
=============================================================================
