------------------------- MODULE BrainAgentProofs --------------------------
(***************************************************************************)
(* What holds of the agents of a logical run for any number of agents,     *)
(* turns, crashes and whatever a model or an operator says: a profile is   *)
(* earned, an answer is to the question of the agent that takes it.        *)
(***************************************************************************)
EXTENDS BrainAgent, TLAPS

Founds == [Fields -> [strategy : Strategies \cup {"none"}, ok : BOOLEAN]]

SessionFiles == [request : Nat, turn : Nat, status : {"NONE", "WAITING", "RESPONDED", "TIMED_OUT", "CANCELLED"}]

Columns == {"at", "session", "turn", "budget", "calls", "found", "catalog", "profile", "request",
            "seen", "status", "result"}

(* The fields of an agent that the facts below speak of have their types, the *)
(* others are fields.                                                        *)
IsAgent(g) ==
    /\ g = [x \in Columns |-> g[x]]
    /\ g.session \in Sessions /\ g.turn \in Nat /\ g.found \in Founds
    /\ g.seen \in SessionFiles
    /\ g.status \in {"NONE", "RESPONDED", "TIMED_OUT", "CANCELLED"}

AgentsTyped ==
    /\ DOMAIN agent = Agents /\ agent = [a \in Agents |-> agent[a]]
    /\ \A a \in Agents : IsAgent(agent[a])

(* What an agent knows of a strategy, it was shown.                           *)
Known(g, good) ==
    /\ \A f \in Fields : g.found[f].ok => [field |-> f, strategy |-> g.found[f].strategy] \in good
    /\ g.profile.status = "VALIDATED" =>
         \A f \in Fields : [field |-> f, strategy |-> g.profile.plan[f]] \in good

FoundIsShown ==
    /\ DOMAIN shown = Agents /\ shown = [a \in Agents |-> shown[a]]
    /\ \A a \in Agents : Known(agent[a], shown[a])

EInv == AgentsTyped /\ FoundIsShown

Requests == [session : Sessions, turn : Nat, answer : BridgeMessages \cup {NoMessage}]

FilesTyped == session \in [Sessions -> SessionFiles] /\ requests \in Seq(Requests)

IsRequest(asked, r, l, turn) ==
    r \in 1..Len(asked) /\ asked[r].session = l /\ asked[r].turn = turn

(* A session names a request of its own run and of the turn it says.          *)
SessionsName ==
    \A l \in Sessions :
       /\ session[l].request # 0 => IsRequest(requests, session[l].request, l, session[l].turn)
       /\ session[l].status \in {"WAITING", "RESPONDED"} => session[l].request # 0

(* So does an agent from its question to its answer; by then the session      *)
(* names some request, and what the agent read of the session did.           *)
AsksOwn(g, file, asked) ==
    /\ g.at \in {"requested", "unlock", "wait", "settle"} => IsRequest(asked, g.request, g.session, g.turn)
    /\ g.at \in {"unlock", "wait", "settle"} => file[g.session].request # 0
    /\ g.at = "settle" => g.seen.request # 0 /\ IsRequest(asked, g.seen.request, g.session, g.seen.turn)

AgentsAsk == \A a \in Agents : AsksOwn(agent[a], session, requests)

IInv == EInv /\ FilesTyped /\ SessionsName /\ AgentsAsk

-----------------------------------------------------------------------------
LEMMA FreshAgents ==
    /\ IsAgent(Start) /\ IsAgent(Nowhere)
    /\ \A good : Known(Start, good) /\ Known(Nowhere, good)
<1>1. [f \in Fields |-> NotFound] \in Founds
  BY DEF Founds, NotFound
<1>2. NoSession \in SessionFiles
  BY DEF NoSession, SessionFiles
<1>3. IsAgent(Start)
  BY <1>1, <1>2 DEF IsAgent, Columns, Start, Sessions
<1>4. IsAgent(Nowhere) /\ Nowhere.found = Start.found /\ Nowhere.profile = Start.profile
  BY <1>3 DEF IsAgent, Columns, Nowhere
<1>5. \A good : Known(Start, good)
  BY DEF Known, Start, NotFound, NoProfile
<1>6. QED
  BY <1>3, <1>4, <1>5 DEF Known

(* What the loop makes of an agent between two questions.                     *)
LEMMA FallBackKeeps ==
    ASSUME NEW g, NEW good
    PROVE  IsAgent(FallBack(g)) /\ Known(FallBack(g), good)
<1>1. /\ IsAgent(FallBack(g))
      /\ FallBack(g).found = Start.found /\ FallBack(g).profile = Start.profile
  BY FreshAgents DEF FallBack, IsAgent, Columns, Sessions
<1>2. QED
  BY <1>1, FreshAgents DEF Known

LEMMA FinishedKeeps ==
    ASSUME NEW g, NEW good, IsAgent(g), Known(g, good), NEW result
    PROVE  IsAgent(Finished(g, result)) /\ Known(Finished(g, result), good)
<1>1. /\ IsAgent(Finished(g, result))
      /\ Finished(g, result).found = Nowhere.found /\ Finished(g, result).profile = g.profile
  BY FreshAgents DEF Finished, IsAgent, Columns
<1>2. QED
  BY <1>1, FreshAgents DEF Known

LEMMA NextTurnKeeps ==
    ASSUME NEW g, NEW good, IsAgent(g), Known(g, good)
    PROVE  IsAgent(NextTurn(g)) /\ Known(NextTurn(g), good)
<1> DEFINE h == [g EXCEPT !.at = "ask", !.turn = @ + 1]
<1>1. h = [g EXCEPT !.at = "ask", !.turn = g.turn + 1] /\ g.turn + 1 \in Nat
  BY DEF IsAgent, Columns
<1>2. IsAgent(h) /\ h.found = g.found /\ h.profile = g.profile
  <2> DEFINE n == g.turn + 1
  <2> HIDE DEF n
  <2>1. n \in Nat /\ h = [g EXCEPT !.at = "ask", !.turn = n]
    BY <1>1 DEF n
  <2>2. QED
    BY <2>1 DEF IsAgent, Columns
<1>3. IsAgent(h) /\ Known(h, good)
  BY <1>2 DEF Known
<1>4. QED
  BY <1>3, FallBackKeeps DEF NextTurn

LEMMA RanKeeps ==
    ASSUME NEW g, NEW good, IsAgent(g), Known(g, good)
    PROVE  IsAgent(Ran(g)) /\ Known(Ran(g), good)
<1> DEFINE rest == [g EXCEPT !.calls = Tail(@)]
<1>1. IsAgent(rest) /\ rest.found = g.found /\ rest.profile = g.profile
  BY DEF IsAgent, Columns
<1>2. Known(rest, good)
  BY <1>1 DEF Known
<1>3. Ran(g) = IF rest.calls = <<>> THEN NextTurn(rest) ELSE rest
  BY DEF Ran
<1>4. QED
  BY <1>1, <1>2, <1>3, NextTurnKeeps

LEMMA FailedKeeps ==
    ASSUME NEW g, NEW good, IsAgent(g), Known(g, good)
    PROVE  IsAgent(Failed(g)) /\ Known(Failed(g), good)
BY FallBackKeeps, FinishedKeeps DEF Failed

LEMMA AnsweredKeeps ==
    ASSUME NEW g, NEW good, IsAgent(g), Known(g, good), NEW m
    PROVE  IsAgent(Answered(g, m)) /\ Known(Answered(g, m), good)
<1> DEFINE h == [g EXCEPT !.at = "tools", !.calls = m.calls]
<1>1. IsAgent(h) /\ h.found = g.found /\ h.profile = g.profile
  BY DEF IsAgent, Columns
<1>2. IsAgent(h) /\ Known(h, good)
  BY <1>1 DEF Known
<1>3. Answered(g, m) \in {h, FallBack(g), Finished(g, "READY"), Finished(g, "ERROR"), Finished(g, "AGENT_READY")}
  <2>1. CASE g.session = "review"
    BY <2>1 DEF Answered
  <2>2. CASE g.session = "loop" /\ m.calls # <<>>
    BY <2>2 DEF Answered
  <2>3. CASE g.session # "review" /\ ~(g.session = "loop" /\ m.calls # <<>>)
    BY <2>3 DEF Answered
  <2>4. QED
    BY <2>1, <2>2, <2>3
<1>4. QED
  BY <1>2, <1>3, FallBackKeeps, FinishedKeeps

LEMMA InitEInv == Init => EInv
<1> SUFFICES ASSUME Init PROVE EInv
  OBVIOUS
<1>1. PICK at \in {Agents, {CHOOSE a \in Agents : TRUE}} :
        agent = [a \in Agents |-> IF a \in at THEN Start ELSE Nowhere]
  BY DEF Init
<1>2. QED
  BY <1>1, FreshAgents DEF Init, EInv, AgentsTyped, FoundIsShown

(* A step of one agent that leaves what it was shown alone.                   *)
LEMMA BecomeKeeps ==
    ASSUME EInv, NEW a \in Agents, NEW g, Become(a, g), UNCHANGED shown,
           IsAgent(g), Known(g, shown[a])
    PROVE  EInv'
BY DEF Become, EInv, AgentsTyped, FoundIsShown

(* A tool shows what it finds before the agent knows it.                     *)
LEMMA DispatchKeeps ==
    ASSUME EInv, NEW a \in Agents, NEW g, NEW call, IsAgent(g), Known(g, shown[a]),
           _agent_dispatch(a, g, call)
    PROVE  EInv'
<1>1. CASE call.tool = "look" /\ Become(a, Ran(g)) /\ UNCHANGED shown
  BY <1>1, RanKeeps, BecomeKeeps
<1>2. ASSUME NEW s \in Strategies, NEW ok \in BOOLEAN,
             Become(a, Ran([g EXCEPT !.found[call.field] = [strategy |-> s, ok |-> ok]])),
             shown' = IF ok THEN [shown EXCEPT ![a] = @ \cup {[field |-> call.field, strategy |-> s]}]
                      ELSE shown
      PROVE  EInv'
  <2> DEFINE h == [g EXCEPT !.found[call.field] = [strategy |-> s, ok |-> ok]]
             good == IF ok THEN shown[a] \cup {[field |-> call.field, strategy |-> s]} ELSE shown[a]
  <2>1. /\ h.found = [g.found EXCEPT ![call.field] = [strategy |-> s, ok |-> ok]]
        /\ h.profile = g.profile /\ g.found \in Founds
    BY DEF IsAgent, Columns
  <2>2. h.found \in Founds
    <3>1. [strategy |-> s, ok |-> ok] \in [strategy : Strategies \cup {"none"}, ok : BOOLEAN]
      OBVIOUS
    <3> DEFINE F == [strategy : Strategies \cup {"none"}, ok : BOOLEAN]
               x == [strategy |-> s, ok |-> ok]
    <3>2. g.found \in [Fields -> F] /\ x \in F /\ h.found = [g.found EXCEPT ![call.field] = x]
      BY <2>1, <3>1 DEF Founds
    <3> HIDE DEF F, x, h
    <3>3. h.found \in [Fields -> F]
      BY <3>2
    <3>4. QED
      BY <3>3 DEF Founds, F
  <2>3. IsAgent(h)
    BY <2>2 DEF IsAgent, Columns
  <2>4. \A f \in Fields : h.found[f] = IF f = call.field THEN [strategy |-> s, ok |-> ok] ELSE g.found[f]
    BY <2>1 DEF Founds
  <2>5. Known(h, good)
    <3>1. \A f \in Fields : h.found[f].ok => [field |-> f, strategy |-> h.found[f].strategy] \in good
      BY <2>4 DEF Known
    <3>2. QED
      BY <2>1, <3>1 DEF Known
  <2> HIDE DEF h
  <2>6. IsAgent(Ran(h)) /\ Known(Ran(h), good)
    BY <2>3, <2>5, RanKeeps
  <2>7. shown' = [b \in Agents |-> IF b = a THEN good ELSE shown[b]]
    BY <1>2 DEF EInv, FoundIsShown
  <2>8. QED
    BY <1>2, <2>6, <2>7 DEF h, Become, EInv, AgentsTyped, FoundIsShown
<1>3. CASE /\ Become(a, Ran([g EXCEPT !.catalog = call.valid])) /\ UNCHANGED shown
  <2> DEFINE h == [g EXCEPT !.catalog = call.valid]
  <2>1. IsAgent(h) /\ h.found = g.found /\ h.profile = g.profile
    BY DEF IsAgent, Columns
  <2>2. Known(h, shown[a])
    BY <2>1 DEF Known
  <2>3. QED
    BY <1>3, <2>1, <2>2, RanKeeps, BecomeKeeps
<1>4. CASE /\ Become(a, Ran([g EXCEPT !.profile =
                [plan   |-> call.plan,
                 status |-> IF Verified(g, call.plan, shown[a]) THEN "VALIDATED" ELSE "DRAFT"]]))
           /\ UNCHANGED shown
  <2> DEFINE p == [plan |-> call.plan,
                   status |-> IF Verified(g, call.plan, shown[a]) THEN "VALIDATED" ELSE "DRAFT"]
             h == [g EXCEPT !.profile = p]
  <2>1. IsAgent(h) /\ h.found = g.found /\ h.profile = p
    BY DEF IsAgent, Columns
  <2>2. p.status = "VALIDATED" => \A f \in Fields : [field |-> f, strategy |-> p.plan[f]] \in shown[a]
    <3>1. SUFFICES ASSUME Verified(g, call.plan, shown[a]), NEW f \in Fields
                   PROVE  [field |-> f, strategy |-> call.plan[f]] \in shown[a]
      OBVIOUS
    <3>2. g.found[f] = [strategy |-> call.plan[f], ok |-> TRUE]
      BY <3>1 DEF Verified
    <3>3. g.found[f].strategy = call.plan[f] /\ g.found[f].ok = TRUE
      BY <3>2
    <3>4. QED
      BY <3>3 DEF Known
  <2>3. Known(h, shown[a])
    BY <2>1, <2>2 DEF Known
  <2>4. QED
    BY <1>4, <2>1, <2>3, RanKeeps, BecomeKeeps
<1>5. QED
  BY <1>1, <1>2, <1>3, <1>4 DEF _agent_dispatch

(* A tool ran: the agent goes on as Ran says.                                 *)
LEMMA DispatchRuns ==
    ASSUME EInv, NEW a \in Agents, NEW g, NEW call, IsAgent(g), g.at = "tools",
           _agent_dispatch(a, g, call)
    PROVE  \E h : Become(a, Ran(h)) /\ IsAgent(h) /\ h.at = "tools"
<1>1. CASE Become(a, Ran(g))
  BY <1>1
<1>2. ASSUME NEW s \in Strategies, NEW ok \in BOOLEAN,
             Become(a, Ran([g EXCEPT !.found[call.field] = [strategy |-> s, ok |-> ok]]))
      PROVE  \E h : Become(a, Ran(h)) /\ IsAgent(h) /\ h.at = "tools"
  <2> DEFINE F == [strategy : Strategies \cup {"none"}, ok : BOOLEAN]
             x == [strategy |-> s, ok |-> ok]
             y == [g.found EXCEPT ![call.field] = x]
             h == [g EXCEPT !.found = y]
  <2>1. x \in F /\ g.found \in [Fields -> F]
    BY DEF Founds, IsAgent
  <2>2. y \in Founds
    <3> HIDE DEF F, x
    <3>1. y \in [Fields -> F]
      BY <2>1
    <3>2. QED
      BY <3>1 DEF Founds, F
  <2>3. h = [g EXCEPT !.found[call.field] = x]
    BY DEF IsAgent, Columns
  <2> HIDE DEF y
  <2>4. IsAgent(h) /\ h.at = "tools"
    BY <2>2 DEF IsAgent, Columns
  <2>5. QED
    BY <1>2, <2>3, <2>4
<1>3. CASE Become(a, Ran([g EXCEPT !.catalog = call.valid]))
  <2>1. IsAgent([g EXCEPT !.catalog = call.valid]) /\ [g EXCEPT !.catalog = call.valid].at = "tools"
    BY DEF IsAgent, Columns
  <2>2. QED
    BY <1>3, <2>1
<1>4. ASSUME NEW p, Become(a, Ran([g EXCEPT !.profile = p]))
      PROVE  \E h : Become(a, Ran(h)) /\ IsAgent(h) /\ h.at = "tools"
  <2>1. IsAgent([g EXCEPT !.profile = p]) /\ [g EXCEPT !.profile = p].at = "tools"
    BY DEF IsAgent, Columns
  <2>2. QED
    BY <1>4, <2>1
<1>5. QED
  BY <1>1, <1>2, <1>3, <1>4 DEF _agent_dispatch

LEMMA ExecuteKeeps ==
    ASSUME EInv, NEW a \in Agents, Execute(a)
    PROVE  EInv'
<1> DEFINE g == agent[a]
           spent == [g EXCEPT !.budget = @ - 1]
<1>1. IsAgent(g) /\ Known(g, shown[a])
  BY DEF EInv, AgentsTyped, FoundIsShown
<1>2. IsAgent(spent) /\ spent.found = g.found /\ spent.profile = g.profile
  BY <1>1 DEF IsAgent, Columns
<1>3. Known(spent, shown[a])
  BY <1>1, <1>2 DEF Known
<1>4. \/ Become(a, Finished(g, "AGENT_READY")) /\ UNCHANGED shown
      \/ Become(a, FallBack(g)) /\ UNCHANGED shown
      \/ _agent_dispatch(a, spent, Head(g.calls))
      \/ Become(a, FallBack(spent)) /\ UNCHANGED shown
      \/ Become(a, Ran(spent)) /\ UNCHANGED shown
  BY DEF Execute
<1>5. QED
  BY <1>1, <1>2, <1>3, <1>4, FinishedKeeps, FallBackKeeps, RanKeeps, DispatchKeeps, BecomeKeeps

(* A change of place, request, view of the session or end of the wait.        *)
LEMMA PlacedKeeps ==
    ASSUME NEW g, NEW good, IsAgent(g), Known(g, good), NEW at, NEW request,
           NEW seen \in SessionFiles, NEW status \in {"NONE", "RESPONDED", "TIMED_OUT", "CANCELLED"}
    PROVE  /\ IsAgent([g EXCEPT !.at = at]) /\ Known([g EXCEPT !.at = at], good)
           /\ IsAgent([g EXCEPT !.at = at, !.request = request])
           /\ Known([g EXCEPT !.at = at, !.request = request], good)
           /\ IsAgent([g EXCEPT !.at = at, !.status = status, !.seen = seen])
           /\ Known([g EXCEPT !.at = at, !.status = status, !.seen = seen], good)
           /\ IsAgent([g EXCEPT !.request = request, !.seen = seen, !.status = status])
           /\ Known([g EXCEPT !.request = request, !.seen = seen, !.status = status], good)
<1> DEFINE h1 == [g EXCEPT !.at = at]
           h2 == [g EXCEPT !.at = at, !.request = request]
           h3 == [g EXCEPT !.at = at, !.status = status, !.seen = seen]
           h4 == [g EXCEPT !.request = request, !.seen = seen, !.status = status]
<1>1. IsAgent(h1) /\ h1.found = g.found /\ h1.profile = g.profile
  BY DEF IsAgent, Columns
<1>2. IsAgent(h2) /\ h2.found = g.found /\ h2.profile = g.profile
  BY DEF IsAgent, Columns
<1>3. IsAgent(h3) /\ h3.found = g.found /\ h3.profile = g.profile
  BY DEF IsAgent, Columns
<1>4. IsAgent(h4) /\ h4.found = g.found /\ h4.profile = g.profile
  BY DEF IsAgent, Columns
<1> HIDE DEF h1, h2, h3, h4
<1>5. Known(h1, good) /\ Known(h2, good) /\ Known(h3, good) /\ Known(h4, good)
  BY <1>1, <1>2, <1>3, <1>4 DEF Known
<1>6. QED
  BY <1>1, <1>2, <1>3, <1>4, <1>5 DEF h1, h2, h3, h4

(* How an agent moves through the bridge, whatever becomes of the files.      *)
LEMMA BridgeMoves ==
    ASSUME NEW a \in Agents,
           \/ Lock(a) \/ Busy(a) \/ FindStale(a) \/ Steal(a) \/ ReadSession(a)
           \/ WriteSession(a) \/ Unlock(a) \/ Poll(a) \/ Settle(a)
    PROVE  LET g == agent[a] IN
           /\ UNCHANGED shown
           /\ \/ \E at : Become(a, [g EXCEPT !.at = at])
              \/ \E at, request : Become(a, [g EXCEPT !.at = at, !.request = request])
              \/ \E status \in {"CANCELLED", "RESPONDED", "TIMED_OUT"} :
                    Become(a, [g EXCEPT !.at = "settle", !.status = status, !.seen = session[g.session]])
              \/ Become(a, Failed(g)) \/ Become(a, Failed(WaitOver(g)))
              \/ \E m : Become(a, Answered(WaitOver(g), m))
BY DEF Lock, Busy, FindStale, Steal, ReadSession, WriteSession, Unlock, Poll, Settle, Goto

LEMMA BridgeKeeps ==
    ASSUME EInv, FilesTyped, NEW a \in Agents,
           \/ Lock(a) \/ Busy(a) \/ FindStale(a) \/ Steal(a) \/ ReadSession(a)
           \/ WriteSession(a) \/ Unlock(a) \/ Poll(a) \/ Settle(a)
    PROVE  EInv'
<1> DEFINE g == agent[a]
<1>1. IsAgent(g) /\ Known(g, shown[a]) /\ session[g.session] \in SessionFiles /\ NoSession \in SessionFiles
  BY DEF EInv, AgentsTyped, FoundIsShown, FilesTyped, IsAgent, NoSession, SessionFiles
<1>2. IsAgent(WaitOver(g)) /\ Known(WaitOver(g), shown[a])
  BY <1>1, PlacedKeeps DEF WaitOver
<1>3. CASE \/ Become(a, Failed(g)) \/ Become(a, Failed(WaitOver(g)))
           \/ \E m : Become(a, Answered(WaitOver(g), m))
  BY <1>1, <1>2, <1>3, BridgeMoves, FailedKeeps, AnsweredKeeps, BecomeKeeps
<1>4. CASE \/ \E at : Become(a, [g EXCEPT !.at = at])
           \/ \E at, request : Become(a, [g EXCEPT !.at = at, !.request = request])
           \/ \E status \in {"CANCELLED", "RESPONDED", "TIMED_OUT"} :
                 Become(a, [g EXCEPT !.at = "settle", !.status = status, !.seen = session[g.session]])
  BY <1>1, <1>4, BridgeMoves, PlacedKeeps, BecomeKeeps
<1>5. QED
  BY <1>3, <1>4, BridgeMoves

LEMMA CrashKeeps ==
    ASSUME EInv, Crash
    PROVE  EInv'
BY FreshAgents DEF Crash, EInv, AgentsTyped, FoundIsShown, IsAgent, Columns

LEMMA NextEInv == EInv /\ FilesTyped /\ [Next]_vars => EInv'
<1> SUFFICES ASSUME EInv, FilesTyped, [Next]_vars PROVE EInv'
  OBVIOUS
<1>1. ASSUME NEW a \in Agents, AgentStep(a) PROVE EInv'
  <2>1. CASE _chat_once(a)
    <3>1. IsAgent(agent[a]) /\ Known(agent[a], shown[a])
      BY DEF EInv, AgentsTyped, FoundIsShown
    <3>2. QED
      BY <2>1, <3>1, FailedKeeps, AnsweredKeeps, BecomeKeeps DEF _chat_once
  <2>2. CASE ~_chat_once(a)
    BY <1>1, <2>2, ExecuteKeeps, BridgeKeeps DEF AgentStep
  <2>3. QED
    BY <2>1, <2>2
<1>2. CASE Crash
  BY <1>2, CrashKeeps
<1>3. CASE UNCHANGED <<agent, shown>>
  BY <1>3 DEF EInv, AgentsTyped, FoundIsShown
<1>4. QED
  BY <1>1, <1>2, <1>3 DEF Next, vars, Respond, Cancel, GrowsStale

-----------------------------------------------------------------------------
(* What is asked stands: requests are added and answered, never changed, and  *)
(* a session that names one always names one.                                *)
AsAsked ==
    /\ \A r, l, turn : IsRequest(requests, r, l, turn) => IsRequest(requests', r, l, turn)
    /\ \A l \in Sessions : session[l].request # 0 => session'[l].request # 0

(* An agent that waits for nothing.                                           *)
Idle(g) == g.at \in {"ask", "steal", "locked", "tools", "done"}

LEMMA IdleAgents ==
    /\ Start.at = "ask" /\ Nowhere.at = "done"
    /\ \A g : FallBack(g).at = "ask"
    /\ \A g, result : Finished(g, result).at = "done"
BY DEF Start, Nowhere, FallBack, Finished

LEMMA MovesToIdle ==
    ASSUME NEW g, IsAgent(g)
    PROVE  /\ Idle(Failed(g))
           /\ \A m : Idle(Answered(g, m))
           /\ Idle(NextTurn(g))
           /\ g.at = "tools" => Idle(Ran(g))
<1>1. Idle(Failed(g))
  BY IdleAgents DEF Failed, Idle
<1>2. ASSUME NEW m PROVE Idle(Answered(g, m))
  <2> DEFINE h == [g EXCEPT !.at = "tools", !.calls = m.calls]
  <2>1. h.at = "tools"
    BY DEF IsAgent, Columns
  <2>2. CASE g.session = "review"
    <3>1. Answered(g, m) \in {Finished(g, "READY"), Finished(g, "ERROR")}
      BY <2>2 DEF Answered
    <3>2. QED
      BY <3>1, IdleAgents DEF Idle
  <2>3. CASE g.session = "loop" /\ m.calls # <<>>
    BY <2>1, <2>3 DEF Answered, Idle
  <2>4. CASE g.session # "review" /\ ~(g.session = "loop" /\ m.calls # <<>>)
    <3>1. Answered(g, m) \in {Finished(g, "AGENT_READY"), FallBack(g)}
      BY <2>4 DEF Answered
    <3>2. QED
      BY <3>1, IdleAgents DEF Idle
  <2>5. QED
    BY <2>2, <2>3, <2>4
<1>3. ASSUME NEW h, IsAgent(h) PROVE Idle(NextTurn(h))
  <2> DEFINE n == h.turn + 1
  <2> HIDE DEF n
  <2>1. [h EXCEPT !.at = "ask", !.turn = n].at = "ask"
    BY <1>3 DEF IsAgent, Columns
  <2>2. NextTurn(h) \in {[h EXCEPT !.at = "ask", !.turn = n], FallBack(h)}
    BY DEF NextTurn, n
  <2>3. QED
    BY <2>1, <2>2, IdleAgents DEF Idle
<1>4. ASSUME g.at = "tools" PROVE Idle(Ran(g))
  <2> DEFINE rest == [g EXCEPT !.calls = Tail(@)]
  <2>1. IsAgent(rest) /\ rest.at = "tools"
    BY <1>4 DEF IsAgent, Columns
  <2>2. Ran(g) = IF rest.calls = <<>> THEN NextTurn(rest) ELSE rest
    BY DEF Ran
  <2>3. QED
    BY <1>3, <2>1, <2>2 DEF Idle
<1>5. QED
  BY <1>1, <1>2, <1>3, <1>4

LEMMA Stands ==
    ASSUME UNCHANGED <<session, requests>>
    PROVE  AsAsked /\ (FilesTyped => FilesTyped') /\ (SessionsName => SessionsName')
BY DEF AsAsked, FilesTyped, SessionsName, IsRequest

(* The other agents keep their requests whatever one of them does.            *)
LEMMA OthersAsk ==
    ASSUME EInv, AgentsAsk, AsAsked, NEW a \in Agents, NEW g, Become(a, g), AsksOwn(g, session', requests')
    PROVE  AgentsAsk'
<1>1. ASSUME NEW b \in Agents PROVE AsksOwn(agent'[b], session', requests')
  <2>1. CASE b = a
    <3>1. agent'[b] = g
      BY <2>1 DEF Become, EInv, AgentsTyped
    <3>2. QED
      BY <3>1
  <2>2. CASE b # a
    <3>1. agent'[b] = agent[b] /\ agent[b].session \in Sessions
      BY <2>2 DEF Become, EInv, AgentsTyped, IsAgent
    <3>2. AsksOwn(agent[b], session, requests)
      BY DEF AgentsAsk
    <3>3. QED
      BY <3>1, <3>2 DEF AsksOwn, AsAsked
  <2>3. QED
    BY <2>1, <2>2
<1>2. QED
  BY <1>1 DEF AgentsAsk

(* A step that leaves the session files and the requests alone and sets an    *)
(* agent idle.                                                               *)
LEMMA IdleKeeps ==
    ASSUME IInv, NEW a \in Agents, NEW g, Become(a, g), Idle(g), UNCHANGED <<session, requests>>
    PROVE  FilesTyped' /\ SessionsName' /\ AgentsAsk'
<1>1. AsksOwn(g, session', requests')
  BY DEF AsksOwn, Idle
<1>2. QED
  BY <1>1, Stands, OthersAsk DEF IInv

(* A session that comes to name another request of its run, or nothing else.  *)
LEMMA SessionWritten ==
    ASSUME FilesTyped, SessionsName, UNCHANGED requests, NEW l \in Sessions, NEW s \in SessionFiles,
           session' = [session EXCEPT ![l] = s],
           s.request # 0 => IsRequest(requests, s.request, l, s.turn),
           s.status \in {"WAITING", "RESPONDED"} \/ session[l].request # 0 => s.request # 0
    PROVE  AsAsked /\ FilesTyped' /\ SessionsName'
<1>1. session' \in [Sessions -> SessionFiles] /\ \A k \in Sessions : session'[k] = IF k = l THEN s ELSE session[k]
  BY DEF FilesTyped
<1>2. QED
  BY <1>1 DEF AsAsked, FilesTyped, SessionsName

LEMMA ReadSessionAsks ==
    ASSUME IInv, NEW a \in Agents, ReadSession(a)
    PROVE  FilesTyped' /\ SessionsName' /\ AgentsAsk'
<1> DEFINE g == agent[a]
           l == g.session
           s == session[l]
<1>1. IsAgent(g) /\ l \in Sessions /\ s \in SessionFiles /\ g.turn \in Nat /\ requests \in Seq(Requests)
  BY DEF IInv, EInv, AgentsTyped, IsAgent, FilesTyped
<1>2. CASE /\ session' = [session EXCEPT ![l].status = "CANCELLED"]
           /\ Become(a, Failed(g)) /\ UNCHANGED requests
  <2> DEFINE t == [s EXCEPT !.status = "CANCELLED"]
  <2>1. t \in SessionFiles /\ t.request = s.request /\ t.turn = s.turn /\ t.status = "CANCELLED"
    BY <1>1 DEF SessionFiles
  <2> HIDE DEF t
  <2>2. session' = [session EXCEPT ![l] = t]
    BY <1>2 DEF t
  <2>3. AsAsked /\ FilesTyped' /\ SessionsName'
    <3>1. t.request # 0 => IsRequest(requests, t.request, l, t.turn)
      BY <1>1, <2>1 DEF IInv, SessionsName
    <3>2. QED
      BY <1>1, <1>2, <2>1, <2>2, <3>1, SessionWritten DEF IInv
  <2>4. AsksOwn(Failed(g), session', requests')
    BY <1>1, MovesToIdle DEF AsksOwn, Idle
  <2>5. QED
    BY <1>2, <2>3, <2>4, OthersAsk DEF IInv
<1>3. CASE /\ Reuses(s, g.turn) /\ Become(a, [g EXCEPT !.at = "wait", !.request = s.request])
           /\ UNCHANGED <<session, requests>>
  <2> DEFINE h == [g EXCEPT !.at = "wait", !.request = s.request]
  <2>1. h.at = "wait" /\ h.request = s.request /\ h.session = l /\ h.turn = g.turn
    BY <1>1 DEF IsAgent, Columns
  <2>2. s.turn = g.turn /\ s.request # 0
    BY <1>1, <1>3 DEF Reuses, IInv, SessionsName
  <2>3. IsRequest(requests, s.request, l, g.turn)
    BY <1>1, <2>2 DEF IInv, SessionsName
  <2>4. AsksOwn(h, session', requests')
    BY <1>3, <2>1, <2>2, <2>3 DEF AsksOwn
  <2>5. QED
    BY <1>3, <2>4, Stands, OthersAsk DEF IInv
<1>4. CASE /\ requests' = Append(requests, [session |-> l, turn |-> g.turn, answer |-> NoMessage])
           /\ Become(a, [g EXCEPT !.at = "requested", !.request = Len(requests) + 1])
           /\ UNCHANGED session
  <2> DEFINE r == [session |-> l, turn |-> g.turn, answer |-> NoMessage]
             n == Len(requests) + 1
             h == [g EXCEPT !.at = "requested", !.request = n]
  <2>1. r \in Requests
    BY <1>1 DEF Requests
  <2>2. /\ requests' \in Seq(Requests) /\ Len(requests') = n /\ n \in Nat /\ requests'[n] = r
        /\ \A i \in 1..Len(requests) : i \in 1..n /\ requests'[i] = requests[i]
    <3> HIDE DEF r
    <3>1. QED
      BY <1>1, <1>4, <2>1 DEF r
  <2>3. h.at = "requested" /\ h.request = n /\ h.session = l /\ h.turn = g.turn
    <3> HIDE DEF n
    <3>1. QED
      BY <1>1 DEF IsAgent, Columns
  <2>4. IsRequest(requests', n, l, g.turn)
    <3>1. n \in 1..n
      BY <2>2
    <3>2. QED
      BY <2>2, <3>1 DEF IsRequest
  <2>5. AsAsked /\ FilesTyped' /\ SessionsName'
    BY <1>4, <2>2 DEF AsAsked, IInv, FilesTyped, SessionsName, IsRequest
  <2> HIDE DEF n, r
  <2>6. AsksOwn(h, session', requests')
    BY <2>3, <2>4 DEF AsksOwn
  <2>7. Become(a, h)
    BY <1>4 DEF n
  <2> HIDE DEF h
  <2>8. QED
    BY <2>5, <2>6, <2>7, OthersAsk DEF IInv
<1>5. QED
  BY <1>2, <1>3, <1>4 DEF ReadSession

LEMMA WriteSessionAsks ==
    ASSUME IInv, NEW a \in Agents, WriteSession(a)
    PROVE  FilesTyped' /\ SessionsName' /\ AgentsAsk'
<1> DEFINE g == agent[a]
           l == g.session
           s == [request |-> g.request, turn |-> g.turn, status |-> "WAITING"]
           h == [g EXCEPT !.at = "unlock"]
<1>1. IsAgent(g) /\ l \in Sessions /\ g.turn \in Nat
  BY DEF IInv, EInv, AgentsTyped, IsAgent
<1>2. IsRequest(requests, g.request, l, g.turn) /\ g.request \in Nat \ {0}
  BY DEF IInv, AgentsAsk, AsksOwn, WriteSession, IsRequest, FilesTyped
<1>3. s \in SessionFiles
  BY <1>1, <1>2 DEF SessionFiles
<1>4. AsAsked /\ FilesTyped' /\ SessionsName'
  BY <1>1, <1>2, <1>3, SessionWritten DEF IInv, WriteSession
<1>5. h.at = "unlock" /\ h.request = g.request /\ h.session = l /\ h.turn = g.turn
  BY <1>1 DEF IsAgent, Columns
<1>6. session'[l].request # 0
  BY <1>1, <1>2 DEF IInv, FilesTyped, WriteSession
<1>7. AsksOwn(h, session', requests')
  BY <1>2, <1>5, <1>6 DEF AsksOwn, WriteSession
<1>8. QED
  BY <1>4, <1>7, OthersAsk DEF IInv, WriteSession, Goto

LEMMA UnlockAsks ==
    ASSUME IInv, NEW a \in Agents, Unlock(a)
    PROVE  FilesTyped' /\ SessionsName' /\ AgentsAsk'
<1> DEFINE g == agent[a]
           h == [g EXCEPT !.at = "wait"]
<1>1. h.at = "wait" /\ h.request = g.request /\ h.session = g.session /\ h.turn = g.turn
  BY DEF IInv, EInv, AgentsTyped, IsAgent, Columns
<1>2. AsksOwn(g, session, requests) /\ g.at = "unlock"
  BY DEF IInv, AgentsAsk, Unlock
<1>3. AsksOwn(h, session', requests')
  BY <1>1, <1>2 DEF AsksOwn, Unlock
<1>4. QED
  BY <1>3, Stands, OthersAsk DEF IInv, Unlock, Goto

LEMMA PollAsks ==
    ASSUME IInv, NEW a \in Agents, Poll(a)
    PROVE  FilesTyped' /\ SessionsName' /\ AgentsAsk'
<1> DEFINE g == agent[a]
<1>1. IsAgent(g) /\ g.session \in Sessions /\ AsksOwn(g, session, requests) /\ g.at = "wait"
  BY DEF IInv, EInv, AgentsTyped, IsAgent, AgentsAsk, Poll
<1>2. UNCHANGED <<session, requests>>
  BY DEF Poll, files
<1>3. ASSUME NEW status, Become(a, [g EXCEPT !.at = "settle", !.status = status, !.seen = session[g.session]])
      PROVE  AgentsAsk'
  <2> DEFINE h == [g EXCEPT !.at = "settle", !.status = status, !.seen = session[g.session]]
  <2>1. /\ h.at = "settle" /\ h.request = g.request /\ h.session = g.session /\ h.turn = g.turn
        /\ h.seen = session[g.session]
    BY <1>1 DEF IsAgent, Columns
  <2>2. session[g.session].request # 0
    BY <1>1 DEF AsksOwn
  <2>3. IsRequest(requests, session[g.session].request, g.session, session[g.session].turn)
    BY <1>1, <2>2 DEF IInv, SessionsName
  <2>4. AsksOwn(h, session', requests')
    BY <1>1, <1>2, <2>1, <2>2, <2>3 DEF AsksOwn
  <2>5. QED
    BY <1>2, <1>3, <2>4, Stands, OthersAsk DEF IInv
<1>4. CASE Become(a, Failed(WaitOver(g)))
  <2>1. NoSession \in SessionFiles /\ IsAgent(WaitOver(g))
    BY <1>1 DEF WaitOver, NoSession, SessionFiles, IsAgent, Columns
  <2>2. QED
    BY <1>2, <1>4, <2>1, MovesToIdle, IdleKeeps
<1>5. QED
  BY <1>2, <1>3, <1>4, Stands DEF Poll, IInv

LEMMA SettleAsks ==
    ASSUME IInv, NEW a \in Agents, Settle(a)
    PROVE  FilesTyped' /\ SessionsName' /\ AgentsAsk'
<1> DEFINE g == agent[a]
           l == g.session
           s == [g.seen EXCEPT !.status = g.status]
<1>1. IsAgent(g) /\ l \in Sessions /\ AsksOwn(g, session, requests) /\ g.at = "settle"
  BY DEF IInv, EInv, AgentsTyped, IsAgent, AgentsAsk, Settle
<1>2. s \in SessionFiles /\ s.request = g.seen.request /\ s.turn = g.seen.turn
  BY <1>1 DEF IsAgent, SessionFiles
<1> HIDE DEF s
<1>3. IsRequest(requests, s.request, l, s.turn) /\ s.request # 0
  BY <1>1, <1>2 DEF AsksOwn
<1>4. session' = [session EXCEPT ![l] = s] /\ UNCHANGED requests
  BY DEF Settle, s
<1>5. AsAsked /\ FilesTyped' /\ SessionsName'
  BY <1>1, <1>2, <1>3, <1>4, SessionWritten DEF IInv
<1>6. NoSession \in SessionFiles /\ IsAgent(WaitOver(g))
  BY <1>1 DEF WaitOver, NoSession, SessionFiles, IsAgent, Columns
<1>7. \E h : Become(a, h) /\ Idle(h)
  BY <1>6, MovesToIdle DEF Settle
<1>8. PICK h : Become(a, h) /\ Idle(h)
  BY <1>7
<1>9. AsksOwn(h, session', requests')
  BY <1>8 DEF AsksOwn, Idle
<1>10. QED
  BY <1>5, <1>8, <1>9, OthersAsk DEF IInv

(* The steps that ask and answer nothing at the bridge.                       *)
LEMMA OffBridge ==
    ASSUME IInv, NEW a \in Agents,
           \/ _chat_once(a) \/ Execute(a) \/ Lock(a) \/ Busy(a) \/ FindStale(a) \/ Steal(a)
    PROVE  FilesTyped' /\ SessionsName' /\ AgentsAsk'
<1> DEFINE g == agent[a]
           spent == [g EXCEPT !.budget = @ - 1]
<1>1. IsAgent(g)
  BY DEF IInv, EInv, AgentsTyped
<1>2. UNCHANGED <<session, requests>>
  BY DEF _chat_once, Execute, Lock, Busy, FindStale, Steal, files
<1>3. CASE _chat_once(a)
  BY <1>1, <1>2, <1>3, MovesToIdle, IdleKeeps DEF _chat_once
<1>4. CASE Lock(a) \/ FindStale(a) \/ Steal(a)
  <2>1. PICK at \in {"ask", "steal", "locked"} : Become(a, [g EXCEPT !.at = at])
    BY <1>4 DEF Lock, FindStale, Steal, Goto
  <2>2. Idle([g EXCEPT !.at = at])
    BY <1>1 DEF Idle, IsAgent, Columns
  <2>3. QED
    BY <1>2, <2>1, <2>2, IdleKeeps
<1>5. CASE Busy(a)
  BY <1>1, <1>2, <1>5, MovesToIdle, IdleKeeps DEF Busy
<1>6. CASE Execute(a)
  <2>1. g.at = "tools"
    BY <1>6 DEF Execute
  <2>2. IsAgent(spent) /\ spent.at = "tools"
    BY <1>1, <2>1 DEF IsAgent, Columns
  <2>3. \/ Become(a, Finished(g, "AGENT_READY"))
        \/ Become(a, FallBack(g))
        \/ _agent_dispatch(a, spent, Head(g.calls))
        \/ Become(a, FallBack(spent))
        \/ Become(a, Ran(spent))
    BY <1>6 DEF Execute
  <2>4. CASE _agent_dispatch(a, spent, Head(g.calls))
    <3>1. PICK h : Become(a, Ran(h)) /\ IsAgent(h) /\ h.at = "tools"
      BY <2>2, <2>4, DispatchRuns DEF IInv
    <3>2. QED
      BY <1>2, <3>1, MovesToIdle, IdleKeeps
  <2>5. CASE \/ Become(a, Finished(g, "AGENT_READY")) \/ Become(a, FallBack(g)) \/ Become(a, FallBack(spent))
    <3>1. PICK h : Become(a, h) /\ h.at \in {"ask", "done"}
      BY <2>5, IdleAgents
    <3>2. QED
      BY <1>2, <3>1, IdleKeeps DEF Idle
  <2>6. CASE Become(a, Ran(spent))
    BY <1>2, <2>2, <2>6, MovesToIdle, IdleKeeps
  <2>7. QED
    BY <2>3, <2>4, <2>5, <2>6
<1>7. QED
  BY <1>3, <1>4, <1>5, <1>6

LEMMA RespondAsks ==
    ASSUME IInv, Respond
    PROVE  FilesTyped' /\ SessionsName' /\ AgentsAsk'
<1>1. PICK r \in Pending \ {0}, m \in BridgeMessages : requests' = [requests EXCEPT ![r].answer = m]
  BY DEF Respond
<1>2. requests \in Seq(Requests) /\ Len(requests) \in Nat /\ DOMAIN requests = 1..Len(requests)
  BY DEF IInv, FilesTyped
<1> DEFINE n == Len(requests)
           x == [requests[r] EXCEPT !.answer = m]
<1>3. \A i \in 1..n : requests[i] \in Requests
  BY <1>2
<1>4. r \in 1..n => x \in Requests /\ x.session = requests[r].session /\ x.turn = requests[r].turn
  BY <1>3 DEF Requests
<1> HIDE DEF x
<1>5. requests' = [i \in 1..n |-> IF i = r THEN x ELSE requests[i]]
  BY <1>1, <1>2 DEF x
<1>6. requests' \in [1..n -> Requests]
  BY <1>3, <1>4, <1>5
<1>7. requests' \in Seq(Requests) /\ Len(requests') = n
  BY <1>2, <1>5, <1>6
<1>8. \A i \in 1..n : requests'[i].session = requests[i].session /\ requests'[i].turn = requests[i].turn
  BY <1>4, <1>5
<1>9. \A i, l, turn : IsRequest(requests', i, l, turn) <=> IsRequest(requests, i, l, turn)
  BY <1>7, <1>8 DEF IsRequest
<1>10. UNCHANGED <<agent, session>>
  BY DEF Respond
<1>11. QED
  BY <1>7, <1>9, <1>10 DEF IInv, FilesTyped, SessionsName, AgentsAsk, AsksOwn

LEMMA CrashAsks ==
    ASSUME IInv, Crash
    PROVE  FilesTyped' /\ SessionsName' /\ AgentsAsk'
<1>1. \A a \in Agents : AsksOwn(agent'[a], session', requests')
  BY IdleAgents DEF Crash, IInv, AgentsAsk, AsksOwn, files
<1>2. QED
  BY <1>1, Stands DEF IInv, AgentsAsk, Crash, files

LEMMA InitIInv == Init => IInv
<1> SUFFICES ASSUME Init PROVE IInv
  OBVIOUS
<1>1. EInv
  BY InitEInv
<1>2. FilesTyped /\ SessionsName
  BY DEF Init, FilesTyped, SessionsName, NoSession, SessionFiles
<1>3. PICK at \in {Agents, {CHOOSE a \in Agents : TRUE}} :
        agent = [a \in Agents |-> IF a \in at THEN Start ELSE Nowhere]
  BY DEF Init
<1>4. AgentsAsk
  BY <1>3, IdleAgents DEF AgentsAsk, AsksOwn
<1>5. QED
  BY <1>1, <1>2, <1>4 DEF IInv

LEMMA NextIInv == IInv /\ [Next]_vars => IInv'
<1> SUFFICES ASSUME IInv, [Next]_vars PROVE IInv'
  OBVIOUS
<1>1. EInv'
  BY NextEInv DEF IInv
<1>2. ASSUME NEW a \in Agents, AgentStep(a) PROVE FilesTyped' /\ SessionsName' /\ AgentsAsk'
  BY <1>2, OffBridge, ReadSessionAsks, WriteSessionAsks, UnlockAsks, PollAsks, SettleAsks DEF AgentStep
<1>3. CASE Cancel \/ GrowsStale \/ UNCHANGED vars
  <2>1. UNCHANGED <<agent, session, requests>>
    BY <1>3 DEF Cancel, GrowsStale, vars, files
  <2>2. AgentsAsk'
    BY <2>1 DEF IInv, AgentsAsk
  <2>3. QED
    BY <1>1, <2>1, <2>2, Stands DEF IInv
<1>4. QED
  BY <1>1, <1>2, <1>3, RespondAsks, CrashAsks DEF IInv, Next

(* What an agent knows it was shown, and it asks and is answered for itself.  *)
THEOREM AgentInvariant == Spec => []IInv
<1>1. QED
  BY InitIInv, NextIInv, PTL DEF Spec

(* A validated profile has been shown to work in the run it comes from:       *)
(* finish_site_profile, for any number of tools, turns and restarts.         *)
THEOREM ProfilesAreEarned == Spec => []ProfileIsEarned
<1>1. IInv => ProfileIsEarned
  BY DEF IInv, EInv, FoundIsShown, Known, ProfileIsEarned
<1>2. QED
  BY <1>1, AgentInvariant, PTL

(* The answer an agent waits for is to its own question, although a settlement *)
(* writes sessions without the lock and a stale lock is taken from anyone.    *)
THEOREM AnswersAreOwn == Spec => []AnswerIsOwn
<1>1. IInv => AnswerIsOwn
  BY DEF IInv, AgentsAsk, AsksOwn, IsRequest, AnswerIsOwn
<1>2. QED
  BY <1>1, AgentInvariant, PTL

(* A cancelled run asks nothing more: the marker file stands, whatever a      *)
(* settlement makes of the session's status.                                 *)
THEOREM CancelledIsSilent == Spec => CancelledAsksNoMore
<1>1. ASSUME IInv, [Next]_vars, Len(requests') > Len(requests)
      PROVE  requests'[Len(requests')].session \notin cancelled
  <2>1. PICK a \in Agents : ReadSession(a)
    <3>1. CASE Respond
      <4>1. DOMAIN requests' = DOMAIN requests /\ Len(requests) \in Nat /\ DOMAIN requests = 1..Len(requests)
        BY <1>1, <3>1 DEF Respond, IInv, FilesTyped
      <4>2. requests' \in Seq(Requests)
        BY <1>1, <3>1, RespondAsks DEF FilesTyped
      <4>3. QED
        BY <1>1, <4>1, <4>2
    <3>2. CASE UNCHANGED requests
      BY <1>1, <3>2 DEF IInv, FilesTyped
    <3>3. QED
      BY <1>1, <3>1, <3>2 DEF Next, AgentStep, _chat_once, Execute, Lock, Busy, FindStale, Steal,
                              WriteSession, Unlock, Poll, Settle, Cancel, GrowsStale, Crash, files, vars
  <2>2. agent[a].session \notin cancelled /\ requests \in Seq(Requests)
        /\ requests' = Append(requests, [session |-> agent[a].session, turn |-> agent[a].turn, answer |-> NoMessage])
    BY <1>1, <2>1 DEF ReadSession, IsCancelled, IInv, FilesTyped
  <2>3. QED
    BY <2>2
<1>2. IInv /\ [Next]_vars => [Len(requests') > Len(requests) =>
                                requests'[Len(requests')].session \notin cancelled]_vars
  BY <1>1
<1>3. QED
  BY <1>2, AgentInvariant, PTL DEF Spec, CancelledAsksNoMore
=============================================================================
