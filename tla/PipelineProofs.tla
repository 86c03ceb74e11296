--------------------------- MODULE PipelineProofs ---------------------------
(***************************************************************************)
(* The pool and the answers of a worker, for any number of requests and    *)
(* any size of the pool.  A session has a connection exactly from Connect  *)
(* to the commit or the close that follows (HoldsOK), and what a request   *)
(* has behind it decides its answer (AnswerOK).                            *)
(***************************************************************************)
EXTENDS Pipeline, FiniteSetTheorems, TLAPS

Holders == {r \in Requests : conns[r] > 0}

HoldsOK(r) ==
    /\ step[r] = "work" => conns[r] = 1
    /\ conns[r] > 0 => step[r] \in {"work", "close"}

\* Where a request is, and what raised, response and headers can be there.
AnswerOK(r) ==
    /\ step[r] \in {"idle", "connect", "work", "committed"} =>
         raised[r] = "none" /\ response[r] = "none"
    /\ step[r] \in {"close", "exceptions"} =>
         response[r] = IF raised[r] = "none" THEN "result" ELSE "none"
    /\ step[r] \in {"logging", "security", "server"} =>
         response[r] = IF raised[r] = "none" THEN "result"
                       ELSE IF raised[r] = "unhandled" THEN "none" ELSE "refusal"
    /\ step[r] \notin {"security", "server", "answered"} => headers[r] = {}
    /\ step[r] = "security" =>
         headers[r] = IF raised[r] = "unhandled" THEN {} ELSE {"X-Request-ID"}
    /\ step[r] = "server" =>
         headers[r] = IF raised[r] = "unhandled" THEN {} ELSE Headers

IInv ==
    /\ TypeOK
    /\ \A r \in Requests : HoldsOK(r) /\ AnswerOK(r)
    /\ RefusalsAreComplete
    /\ free + Cardinality(Holders) = PoolSize

LEMMA Finiteness ==
    /\ IsFiniteSet(Holders) /\ IsFiniteSet(Holders')
    /\ Cardinality(Holders) \in Nat /\ Cardinality(Holders') \in Nat
<1>1. Holders \subseteq Requests /\ Holders' \subseteq Requests /\ IsFiniteSet(Requests)
  BY PipelineAssumption DEF Holders
<1>2. IsFiniteSet(Holders) /\ IsFiniteSet(Holders')
  BY <1>1, FS_Subset
<1> QED  BY <1>2, FS_CardinalityType

LEMMA InitIInv == Init => IInv
<1> SUFFICES ASSUME Init PROVE IInv
  OBVIOUS
<1>1. TypeOK
  BY PipelineAssumption DEF Init, TypeOK
<1>2. Holders = {}
  BY DEF Init, Holders
<1>3. free + Cardinality(Holders) = PoolSize
  BY <1>2, FS_EmptySet, PipelineAssumption DEF Init
<1> QED  BY <1>1, <1>3 DEF Init, IInv, HoldsOK, AnswerOK, RefusalsAreComplete

\* The two ways in which a step disturbs the pool, and the only ones.
LEMMA TakeOne ==
    ASSUME IInv, NEW r \in Requests, Connect(r)
    PROVE  free' + Cardinality(Holders') = PoolSize /\ free' \in 0 .. PoolSize
<1>1. r \notin Holders /\ Holders' = Holders \cup {r}
  BY DEF Connect, Holders, IInv, TypeOK, HoldsOK
<1>2. Cardinality(Holders') = Cardinality(Holders) + 1
  BY <1>1, Finiteness, FS_AddElement
<1> QED  BY <1>2, Finiteness, PipelineAssumption DEF Connect, IInv, TypeOK

LEMMA GiveOne ==
    ASSUME IInv, NEW r \in Requests, GiveBack(r)
    PROVE  free' + Cardinality(Holders') = PoolSize /\ free' \in 0 .. PoolSize
<1>1. CASE conns[r] = 1
  <2>1. r \in Holders /\ Holders' = Holders \ {r}
    BY <1>1 DEF GiveBack, Holders, IInv, TypeOK
  <2>2. Cardinality(Holders') = Cardinality(Holders) - 1
    BY <2>1, Finiteness, FS_RemoveElement
  <2> QED  BY <1>1, <2>2, Finiteness, PipelineAssumption DEF GiveBack, IInv, TypeOK
<1>2. CASE conns[r] = 0
  <2>1. Holders' = Holders /\ free' = free
    BY <1>2 DEF GiveBack, Holders, IInv, TypeOK
  <2> QED  BY <2>1 DEF IInv, TypeOK
<1> QED  BY <1>1, <1>2 DEF IInv, TypeOK

LEMMA PoolStep ==
    ASSUME IInv, [Next]_vars
    PROVE  free' + Cardinality(Holders') = PoolSize /\ free' \in 0 .. PoolSize
<1>1. CASE UNCHANGED <<free, conns>>
  BY <1>1 DEF Holders, IInv, TypeOK
<1>2. CASE \E r \in Requests : Connect(r)
  BY <1>2, TakeOne
<1>3. CASE \E r \in Requests : Commit(r) \/ Close(r)
  BY <1>3, GiveOne DEF Commit, Close
<1> QED
  BY <1>1, <1>2, <1>3 DEF Next, vars, Preflight, Receive, Handle, TimeOut, NextStatement,
     Finish, Leave, HandlersAnswer, Logging, Security, AddHeader, ServerAnswers, Sent

LEMMA TypeStep == ASSUME IInv, [Next]_vars PROVE TypeOK'
<1>0. free' \in 0 .. PoolSize
  BY PoolStep
<1> USE <1>0 DEF IInv, TypeOK, GoOn, reply, Layers
<1>1. ASSUME NEW r \in Requests, Preflight(r) PROVE TypeOK'
  BY <1>1 DEF Preflight
<1>2. ASSUME NEW r \in Requests, Receive(r) PROVE TypeOK'
  BY <1>2 DEF Receive, Raise, Return, Exceptions, Deliberate
<1>3. ASSUME NEW r \in Requests, Connect(r) \/ Commit(r) \/ NextStatement(r) PROVE TypeOK'
  BY <1>3 DEF Connect, Commit, NextStatement, GiveBack, HoldsOK
<1>4. ASSUME NEW r \in Requests, TimeOut(r) \/ Finish(r) PROVE TypeOK'
  BY <1>4 DEF TimeOut, Finish, Raise, Return, Exceptions
<1>5. ASSUME NEW r \in Requests, Close(r) \/ HandlersAnswer(r) PROVE TypeOK'
  BY <1>5 DEF Close, HandlersAnswer, GiveBack
<1>6. ASSUME NEW r \in Requests, Logging(r) \/ Security(r) PROVE TypeOK'
  BY <1>6 DEF Logging, Security, AddHeader, Headers
<1>7. ASSUME NEW r \in Requests, ServerAnswers(r) \/ Sent(r) PROVE TypeOK'
  BY <1>7 DEF ServerAnswers, Sent
<1>8. CASE UNCHANGED vars
  BY <1>8 DEF vars
<1> QED  BY <1>1, <1>2, <1>3, <1>4, <1>5, <1>6, <1>7, <1>8 DEF Next, Handle, Leave

RequestOK(r) ==
    /\ HoldsOK(r) /\ AnswerOK(r)
    /\ step[r] = "answered" /\ response[r] # "preflight" =>
         IF raised[r] = "unhandled" THEN response[r] = "500"
         ELSE /\ response[r] = IF raised[r] = "none" THEN "result" ELSE "refusal"
              /\ headers[r] = Headers

LEMMA RequestStep == ASSUME IInv, [Next]_vars, NEW q \in Requests PROVE RequestOK(q)'
<1>0. RequestOK(q) /\ TypeOK
  BY DEF IInv, RequestOK, RefusalsAreComplete
<1> USE DEF TypeOK, GoOn, reply, Layers, RequestOK, HoldsOK, AnswerOK
<1>1. CASE /\ step'[q] = step[q] /\ conns'[q] = conns[q] /\ raised'[q] = raised[q]
           /\ response'[q] = response[q] /\ headers'[q] = headers[q]
  BY <1>0, <1>1
<1>2. CASE Preflight(q)
  BY <1>0, <1>2 DEF Preflight
<1>3. CASE Receive(q)
  BY <1>0, <1>3 DEF Receive, Raise, Return, Exceptions, Deliberate
<1>4. CASE Connect(q) \/ Commit(q) \/ NextStatement(q)
  BY <1>0, <1>4 DEF Connect, Commit, NextStatement, GiveBack
<1>5. CASE TimeOut(q) \/ Finish(q)
  BY <1>0, <1>5 DEF TimeOut, Finish, Raise, Return, Exceptions, Deliberate
<1>6. CASE Close(q)
  BY <1>0, <1>6 DEF Close, GiveBack
<1>7. CASE HandlersAnswer(q)
  BY <1>0, <1>7 DEF HandlersAnswer, Exceptions, Deliberate
<1>8. CASE Logging(q)
  BY <1>0, <1>8 DEF Logging, AddHeader, Exceptions, Deliberate
<1>9. CASE Security(q)
  BY <1>0, <1>9 DEF Security, AddHeader, Exceptions, Deliberate, Headers
<1>10. CASE ServerAnswers(q)
  BY <1>0, <1>10 DEF ServerAnswers, Exceptions, Deliberate
<1>11. CASE Sent(q)
  BY <1>0, <1>11 DEF Sent
<1>12. ASSUME NEW r \in Requests, r # q, Preflight(r) \/ Receive(r) \/ Handle(r) \/ Leave(r)
       PROVE  /\ step'[q] = step[q] /\ conns'[q] = conns[q] /\ raised'[q] = raised[q]
              /\ response'[q] = response[q] /\ headers'[q] = headers[q]
  BY <1>0, <1>12 DEF Preflight, Receive, Handle, Connect, TimeOut, Commit, NextStatement, Finish,
     Leave, Close, HandlersAnswer, Logging, Security, AddHeader, ServerAnswers, Sent,
     Raise, Return, GiveBack
<1>13. CASE UNCHANGED vars
  BY <1>1, <1>13 DEF vars
<1> QED
  BY <1>1, <1>2, <1>3, <1>4, <1>5, <1>6, <1>7, <1>8, <1>9, <1>10, <1>11, <1>12, <1>13
     DEF Next, Handle, Leave

\* The inductive invariant: connections are held between Connect and the next
\* commit or close and at no other time, and none is ever lost (get_db).
THEOREM PipelineInvariant == Spec => []IInv
<1>1. IInv /\ [Next]_vars => IInv'
  BY TypeStep, PoolStep, RequestStep DEF IInv, RequestOK, RefusalsAreComplete
<1> QED  BY InitIInv, <1>1, PTL DEF Spec

\* Types of the worker's state, for any number of slots and connections.
THEOREM PipelineTypeCorrect == Spec => []TypeOK
BY PipelineInvariant, PTL DEF IInv

\* No exception and no timeout makes a session of get_db keep its connection.
THEOREM ConnectionsAreReturned == Spec => []ConnectionsReturned
<1>1. IInv => ConnectionsReturned
  BY DEF IInv, HoldsOK, ConnectionsReturned, Holders
<1> QED  BY PipelineInvariant, <1>1, PTL

\* Whatever a handler raises, on whichever way through the layers: deliberate
\* exceptions are answered as refusals with all headers, others as a 500.
THEOREM RefusalsComplete == Spec => []RefusalsAreComplete
BY PipelineInvariant, PTL DEF IInv
=============================================================================
