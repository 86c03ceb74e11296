------------------------------ MODULE Pipeline ------------------------------
(***************************************************************************)
(* The way of requests through one worker: the middlewares and exception   *)
(* handlers that app_root.py installs, the check of credentials, and the   *)
(* session of the request, which takes connections from the worker's pool. *)
(*                                                                         *)
(* A session takes a connection for its first statement, gives it back     *)
(* when it commits and takes one again for the next statement (refresh);   *)
(* get_db closes it before the response is sent.  Calls to Firestore,      *)
(* Gemini and FCM happen while the connection is held.  What handlers do   *)
(* with the data is the other modules'.                                    *)
(***************************************************************************)
EXTENDS Naturals, FiniteSets

CONSTANTS
    Requests,  \* slots for requests in progress in the worker
    PoolSize   \* pool_size + max_overflow

ASSUME PipelineAssumption == IsFiniteSet(Requests) /\ PoolSize \in Nat \ {0}

\* What raise can let out of a handler or of its dependencies: HTTPException,
\* RequestValidationError, RateLimitExceeded, ClassConnectException, the rest.
Deliberate == {"http", "validation", "ratelimit", "app"}
Exceptions == Deliberate \cup {"unhandled"}

Headers == {"X-Request-ID", "security"}

VARIABLES
    free,      \* connections that the pool can still give
    step,      \* where each request is: in the handler, or leaving which layer
    conns,     \* how many connections its session has
    raised,    \* the exception that ended its handler
    response,  \* the class of the response, "none" while there is none
    headers    \* the headers that middlewares have added to it

vars == <<free, step, conns, raised, response, headers>>
reply == <<raised, response, headers>>

\* From the innermost to the outermost: of the middlewares, the one added last.
Layers == {"exceptions", "logging", "security", "server"}

TypeOK ==
    /\ free \in 0 .. PoolSize
    /\ step \in [Requests -> {"idle", "connect", "work", "committed", "close", "answered"} \cup Layers]
    /\ conns \in [Requests -> 0 .. 1]
    /\ raised \in [Requests -> Exceptions \cup {"none"}]
    /\ response \in [Requests -> {"none", "preflight", "result", "refusal", "500"}]
    /\ headers \in [Requests -> SUBSET Headers]

Init ==
    /\ free = PoolSize
    /\ step = [r \in Requests |-> "idle"]
    /\ conns = [r \in Requests |-> 0]
    /\ raised = [r \in Requests |-> "none"]
    /\ response = [r \in Requests |-> "none"]
    /\ headers = [r \in Requests |-> {}]

----------------------------------------------------------------------------

\* The endpoints, by the credential they ask for, and the tokens clients have:
\* of Firebase, of Google, and the two kinds that the backend issues itself.
Routes == {"open", "google", "refresh", "optional", "user"}
Credentials == {"none", "firebase", "google", "access", "refresh", "invalid"}

Accepts(route, credential) ==
    CASE route = "open"     -> TRUE
      [] route = "google"   -> credential = "google"
      [] route = "refresh"  -> credential = "refresh"
      [] route = "optional" -> credential \in {"none", "firebase"}
      [] route = "user"     -> credential = "firebase"

UsesDatabase(route, credential) == route # "open" /\ credential # "none"

GoOn(r, next) == step' = [step EXCEPT ![r] = next]

\* The handler is left by an exception, or with a result.
Raise(r, e) ==
    /\ GoOn(r, "close")
    /\ raised' = [raised EXCEPT ![r] = e]
    /\ UNCHANGED <<response, headers>>

Return(r) ==
    /\ GoOn(r, "close")
    /\ response' = [response EXCEPT ![r] = "result"]
    /\ UNCHANGED <<raised, headers>>

\* CORSMiddleware answers an OPTIONS request itself, before all other layers.
Preflight(r) ==
    /\ step[r] = "idle"
    /\ GoOn(r, "answered")
    /\ response' = [response EXCEPT ![r] = "preflight"]
    /\ UNCHANGED <<free, conns, raised, headers>>

\* A request up to its first statement: malformed JSON, slowapi's limit and
\* the credential end it without a connection.
Receive(r) ==
    /\ step[r] = "idle"
    /\ \E route \in Routes, credential \in Credentials :
         \/ route # "open" /\ Raise(r, "validation")
         \/ route \in {"google", "refresh"} /\ Raise(r, "ratelimit")
         \/ ~Accepts(route, credential) /\ Raise(r, "http")
         \/ /\ Accepts(route, credential)
            /\ IF UsesDatabase(route, credential) THEN GoOn(r, "connect") /\ UNCHANGED reply
                                                  ELSE Return(r)
    /\ UNCHANGED <<free, conns>>

Connect(r) ==
    /\ step[r] = "connect"
    /\ free > 0
    /\ free' = free - 1
    /\ conns' = [conns EXCEPT ![r] = @ + 1]
    /\ GoOn(r, "work")
    /\ UNCHANGED reply

\* Mutant of TimeOut: the pool lets a request wait for ever.
WaitForever(r) == FALSE /\ UNCHANGED vars

\* The pool has nothing to give for pool_timeout.
TimeOut(r) ==
    /\ step[r] = "connect"
    /\ free = 0
    /\ Raise(r, "unhandled")
    /\ UNCHANGED <<free, conns>>

GiveBack(r) ==
    /\ free' = free + conns[r]
    /\ conns' = [conns EXCEPT ![r] = 0]

\* Mutant of Commit: the row is read again through a session of its own.
CommitKeepsConnection(r) ==
    /\ step[r] = "work"
    /\ GoOn(r, "committed")
    /\ UNCHANGED <<free, conns, reply>>

\* A commit, or the rollback of a lost race, gives the connection back to the pool.
Commit(r) ==
    /\ step[r] = "work"
    /\ GoOn(r, "committed")
    /\ GiveBack(r)
    /\ UNCHANGED reply

\* The next statement after a commit: a refresh, or the handler proper after
\* authentication has created the user.
NextStatement(r) ==
    /\ step[r] = "committed"
    /\ GoOn(r, "connect")
    /\ UNCHANGED <<free, conns, reply>>

\* The handler ends in any way, after authentication at the earliest; a body
\* that does not validate is refused only then.
Finish(r) ==
    /\ step[r] \in {"work", "committed"}
    /\ Return(r) \/ \E e \in Exceptions \ {"ratelimit"} : Raise(r, e)
    /\ UNCHANGED <<free, conns>>

\* Mutant of Close: get_db without finally.
CloseOnSuccess(r) ==
    /\ step[r] = "close"
    /\ IF raised[r] = "none" THEN GiveBack(r) ELSE UNCHANGED <<free, conns>>
    /\ GoOn(r, "exceptions")
    /\ UNCHANGED reply

\* get_db rolls back and closes, whatever has ended the handler.
Close(r) ==
    /\ step[r] = "close"
    /\ GiveBack(r)
    /\ GoOn(r, "exceptions")
    /\ UNCHANGED reply

\* Mutant of HandlersAnswer: no handler is registered for ClassConnectException,
\* which is no HTTPException and so left to the catch-all.
HandlersAnswerFewer(r) ==
    /\ step[r] = "exceptions"
    /\ response' = [response EXCEPT ![r] = IF raised[r] \in Deliberate \ {"app"} THEN "refusal" ELSE @]
    /\ GoOn(r, "logging")
    /\ UNCHANGED <<free, conns, raised, headers>>

\* ExceptionMiddleware, the innermost: the registered handlers, except the one
\* for Exception, which belongs to the outermost layer.
HandlersAnswer(r) ==
    /\ step[r] = "exceptions"
    /\ response' = [response EXCEPT ![r] = IF raised[r] \in Deliberate THEN "refusal" ELSE @]
    /\ GoOn(r, "logging")
    /\ UNCHANGED <<free, conns, raised, headers>>

\* A middleware adds a header to the response, if one comes out of call_next.
AddHeader(r, layer, next, header) ==
    /\ step[r] = layer
    /\ headers' = [headers EXCEPT ![r] = IF response[r] = "none" THEN @ ELSE @ \cup {header}]
    /\ GoOn(r, next)
    /\ UNCHANGED <<free, conns, raised, response>>

\* An exception leaves dispatch as an UnboundLocalError of its finally block.
Logging(r) == AddHeader(r, "logging", "security", "X-Request-ID")

Security(r) == AddHeader(r, "security", "server", "security")

\* ServerErrorMiddleware, outside of all middlewares, calls the handler for
\* Exception.
ServerAnswers(r) ==
    /\ step[r] = "server"
    /\ response' = [response EXCEPT ![r] = IF @ = "none" THEN "500" ELSE @]
    /\ GoOn(r, "answered")
    /\ UNCHANGED <<free, conns, raised, headers>>

\* The slot is free for another request.
Sent(r) ==
    /\ step[r] = "answered"
    /\ GoOn(r, "idle")
    /\ raised' = [raised EXCEPT ![r] = "none"]
    /\ response' = [response EXCEPT ![r] = "none"]
    /\ headers' = [headers EXCEPT ![r] = {}]
    /\ UNCHANGED <<free, conns>>

Handle(r) == Connect(r) \/ TimeOut(r) \/ Commit(r) \/ NextStatement(r) \/ Finish(r)
Leave(r) == \/ Close(r) \/ HandlersAnswer(r) \/ Logging(r) \/ Security(r)
            \/ ServerAnswers(r) \/ Sent(r)

Next == \E r \in Requests : Preflight(r) \/ Receive(r) \/ Handle(r) \/ Leave(r)

\* A wait for the pool ends with a connection or after pool_timeout, and the
\* layers around the handler wait for nothing.  Nothing is assumed of the handler
\* itself: neither the Gemini client nor the engine has a timeout, so it may keep
\* its connection for ever.
Fairness == \A r \in Requests : WF_vars(Connect(r) \/ TimeOut(r)) /\ WF_vars(Leave(r))

Spec == Init /\ [][Next]_vars /\ Fairness

----------------------------------------------------------------------------

\* No request keeps its connection past its handler, whichever exception ended
\* it, and none is lost: what is not free is held by a request at work.
ConnectionsReturned ==
    /\ \A r \in Requests : conns[r] > 0 => step[r] \in {"work", "close"}
    /\ free + Cardinality({r \in Requests : conns[r] > 0}) = PoolSize

\* What is raised on purpose, from the limiter to the last line of a handler, is
\* answered as a refusal that every middleware has passed; only what nobody
\* handles becomes a 500.
RefusalsAreComplete ==
    \A r \in Requests : step[r] = "answered" /\ response[r] # "preflight" =>
        IF raised[r] = "unhandled" THEN response[r] = "500"
        ELSE /\ response[r] = IF raised[r] = "none" THEN "result" ELSE "refusal"
             /\ headers[r] = Headers

\* However many handlers keep their connections for ever, a request never waits
\* for them for ever: from anywhere but its own handler it comes to be at work,
\* or is answered.
NobodyWaitsForOthers ==
    \A r \in Requests : step[r] \notin {"idle", "work", "committed"}
                           ~> step[r] \in {"work", "answered"}
=============================================================================
