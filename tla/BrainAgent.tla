----------------------------- MODULE BrainAgent -----------------------------
(***************************************************************************)
(* The agent that works a site's taxonomy and profile out of a scan:       *)
(* run_agent_loop and _chat_once of the Website Brain provider             *)
(* (services/api/app/services/brain_provider.py), the tools it is given    *)
(* and the one question asked instead when the loop brings nothing         *)
(* (native_site_analysis.py, _agent_dispatch and _brain_agent_taxonomy).   *)
(*                                                                         *)
(* A turn is a completion of a remote model, or an exchange of files with  *)
(* an operator, the bridge: a request, a response with the request's id,   *)
(* one session file per logical run with a lock file around its first half *)
(* and none around its second.  Two agents with the same evidence (two     *)
(* scans of a site, or a scan and its restart) have the same logical run.  *)
(***************************************************************************)
EXTENDS Naturals, FiniteSets, SequencesExt

CONSTANTS
    Agents,          \* scans whose agents run, all with the same evidence
    Fields,          \* capabilities of a profile: taxonomy, pagination, images, ...
    Strategies,      \* strategies of the catalog
    max_steps,       \* turns of a loop
    max_tool_calls,  \* tool calls of a loop
    RemoteMessages,  \* bound: messages a remote model answers with
    BridgeMessages,  \* bound: messages the operator answers with
    MaxDisturbances  \* bound: agents beyond the first plus deaths of the API process

Sessions == {"loop", "review"}

(* Calls a message may carry.  look stands for the tools that leave nothing *)
(* behind for a profile (browse, get_count, escalate_browser).              *)
Calls ==
    [tool : {"look"}] \cup [tool : {"inspect"}, field : Fields]
    \cup [tool : {"validate_strategy"}, valid : BOOLEAN]
    \cup [tool : {"finish_site_profile"}, plan : [Fields -> Strategies]]
    \cup [tool : {"finish"}, valid : BOOLEAN]

(* valid: whether its content, if it is an answer, has the schema asked for. *)
IsMessage(m) == m.valid \in BOOLEAN /\ \A i \in 1..Len(m.calls) : m.calls[i] \in Calls

NoMessage == [calls |-> <<>>, valid |-> FALSE]

ASSUME BrainAssumption ==
    /\ MaxDisturbances \in Nat
    /\ {max_steps, max_tool_calls} \subseteq Nat \ {0}
    /\ \A m \in RemoteMessages \cup BridgeMessages : IsMessage(m)

VARIABLES
    bridged,    \* model_mode is CODEX_DEVELOPMENT_BRIDGE
    agent,      \* what each agent's thread is doing
    shown,      \* strategies each tool has shown to work in this run (history)
    session,    \* sessions/<logical id>.json
    lock,       \* sessions/<logical id>.lock
    cancelled,  \* cancelled/<logical id>.json
    requests,   \* pending/ and responses/, by request
    disturbances \* agents beyond the first and deaths of the API process so far

files == <<session, lock, cancelled, requests>>
vars == <<bridged, agent, shown, files, disturbances>>

NotFound == [strategy |-> "none", ok |-> FALSE]
NoProfile == [plan |-> [f \in Fields |-> "none"], status |-> "NONE"]
NoSession == [request |-> 0, turn |-> 0, status |-> "NONE"]

(* The first turn of a fresh loop. *)
Start ==
    [at |-> "ask", session |-> "loop", turn |-> 1, budget |-> max_tool_calls, calls |-> <<>>,
     found |-> [f \in Fields |-> NotFound], catalog |-> FALSE, profile |-> NoProfile,
     request |-> 0, seen |-> NoSession, status |-> "NONE", result |-> "NONE"]

Nowhere == [Start EXCEPT !.at = "done"]

TypeOK ==
    /\ \A a \in Agents :
         /\ agent[a].at \in {"ask", "steal", "locked", "requested", "unlock", "wait", "settle",
                             "tools", "done"}
         /\ agent[a].turn \in 1..max_steps /\ agent[a].budget \in 0..max_tool_calls
         /\ agent[a].result \in {"NONE", "AGENT_READY", "READY", "ERROR"}
         /\ agent[a].at \in {"wait", "settle", "requested"} => agent[a].request \in 1..Len(requests)
    /\ \A l \in Sessions :
         /\ session[l].status \in {"NONE", "WAITING", "RESPONDED", "TIMED_OUT", "CANCELLED"}
         /\ session[l].request \in 0..Len(requests)
    /\ lock \in [Sessions -> {"free", "held", "stale"}] /\ cancelled \subseteq Sessions

Init ==
    /\ bridged \in BOOLEAN
    /\ \E at \in {Agents, {CHOOSE a \in Agents : TRUE}} :
         /\ bridged \/ Cardinality(at) = 1
         /\ disturbances = Cardinality(at) - 1
         /\ agent = [a \in Agents |-> IF a \in at THEN Start ELSE Nowhere]
    /\ shown = [a \in Agents |-> {}]
    /\ session = [l \in Sessions |-> NoSession]
    /\ lock \in {[l \in Sessions |-> IF l = "loop" /\ bridged THEN left ELSE "free"] : left \in {"free", "stale"}}
    /\ cancelled = {} /\ requests = <<>> /\ disturbances <= MaxDisturbances

(***************************************************************************)
(* The loop.                                                               *)
(***************************************************************************)

(* The loop brought nothing: one question for the taxonomy is asked instead, *)
(* and what the loop found for a profile is dropped.                         *)
FallBack(g) == [Start EXCEPT !.session = "review"]

Finished(g, result) == [Nowhere EXCEPT !.profile = g.profile, !.result = result]

NextTurn(g) ==
    IF g.turn < max_steps /\ g.budget > 0
      THEN [g EXCEPT !.at = "ask", !.turn = @ + 1] ELSE FallBack(g)

Failed(g) == IF g.session = "loop" THEN FallBack(g) ELSE Finished(g, "ERROR")

(* An answer with calls is worked off; one without must be the result.       *)
Answered(g, m) ==
    CASE g.session = "review"               -> Finished(g, IF m.valid THEN "READY" ELSE "ERROR")
      [] g.session = "loop" /\ m.calls # <<>> -> [g EXCEPT !.at = "tools", !.calls = m.calls]
      [] OTHER -> IF m.valid THEN Finished(g, "AGENT_READY") ELSE FallBack(g)

Become(a, g) == agent' = [agent EXCEPT ![a] = g]

(* A completion of the remote model: an answer to one of its POSTs, a refusal, *)
(* or timeouts, rate limits and server errors until no retry is left.          *)
_chat_once(a) ==
    /\ ~ bridged /\ agent[a].at = "ask"
    /\ \/ \E m \in RemoteMessages : Become(a, Answered(agent[a], m))
       \/ Become(a, Failed(agent[a]))
    /\ UNCHANGED <<bridged, shown, files, disturbances>>

(* Mutant: a capability counts if some evidence for it, of any strategy, was good. *)
VerifiedBySome(g, plan, good) ==
    /\ g.catalog
    /\ \A f \in Fields : g.found[f].strategy = plan[f] /\ \E x \in good : x.field = f

(* Every selected strategy is the one its tool used last, with evidence.      *)
Verified(g, plan, good) ==
    /\ g.catalog
    /\ \A f \in Fields : g.found[f] = [strategy |-> plan[f], ok |-> TRUE]

Ran(g) == LET rest == [g EXCEPT !.calls = Tail(@)] IN
          IF rest.calls = <<>> THEN NextTurn(rest) ELSE rest

(* What a tool leaves behind.                                                 *)
_agent_dispatch(a, g, call) ==
    \/ /\ call.tool = "look" /\ Become(a, Ran(g)) /\ UNCHANGED shown
    \/ /\ call.tool = "inspect"
       /\ \E s \in Strategies, ok \in BOOLEAN :
            /\ Become(a, Ran([g EXCEPT !.found[call.field] = [strategy |-> s, ok |-> ok]]))
            /\ shown' = IF ok THEN [shown EXCEPT ![a] = @ \cup {[field |-> call.field, strategy |-> s]}]
                        ELSE shown
    \/ /\ call.tool = "validate_strategy"
       /\ Become(a, Ran([g EXCEPT !.catalog = call.valid])) /\ UNCHANGED shown
    \/ /\ call.tool = "finish_site_profile"
       /\ Become(a, Ran([g EXCEPT !.profile =
                 [plan   |-> call.plan,
                  status |-> IF Verified(g, call.plan, shown[a]) THEN "VALIDATED" ELSE "DRAFT"]]))
       /\ UNCHANGED shown

(* One call of the message: the finish, or a tool within the budget, which may  *)
(* end the loop (refused access, no requests left, bad arguments) or fail.      *)
Execute(a) ==
    LET g == agent[a]
        call == Head(g.calls)
        spent == [g EXCEPT !.budget = @ - 1]
    IN
    /\ g.at = "tools"
    /\ CASE call.tool = "finish" ->
              /\ Become(a, IF call.valid THEN Finished(g, "AGENT_READY") ELSE FallBack(g))
              /\ UNCHANGED shown
         [] call.tool # "finish" /\ g.budget = 0 -> Become(a, FallBack(g)) /\ UNCHANGED shown
         [] OTHER ->
              \/ _agent_dispatch(a, spent, call)
              \/ (Become(a, FallBack(spent)) \/ Become(a, Ran(spent))) /\ UNCHANGED shown
    /\ UNCHANGED <<bridged, files, disturbances>>

(***************************************************************************)
(* The bridge.                                                             *)
(***************************************************************************)
Asking(a) == bridged /\ agent[a].at = "ask"

Goto(a, at) == Become(a, [agent[a] EXCEPT !.at = at])

Lock(a) ==
    LET l == agent[a].session IN
    /\ Asking(a) /\ lock[l] = "free"
    /\ lock' = [lock EXCEPT ![l] = "held"]
    /\ Goto(a, "locked")
    /\ UNCHANGED <<bridged, shown, session, cancelled, requests, disturbances>>

(* Forty tries in two seconds.                                                *)
Busy(a) ==
    /\ Asking(a) /\ lock[agent[a].session] # "free"
    /\ Become(a, Failed(agent[a]))
    /\ UNCHANGED <<bridged, shown, files, disturbances>>

(* A lock older than 90 seconds is removed, whoever has it by then.           *)
FindStale(a) ==
    /\ Asking(a) /\ lock[agent[a].session] = "stale"
    /\ Goto(a, "steal")
    /\ UNCHANGED <<bridged, shown, files, disturbances>>

Free(a) == lock' = [lock EXCEPT ![agent[a].session] = "free"]

Steal(a) ==
    /\ agent[a].at = "steal"
    /\ Free(a) /\ Goto(a, "ask")
    /\ UNCHANGED <<bridged, shown, session, cancelled, requests, disturbances>>

(* Mutant: only the session file is asked whether the run is cancelled. *)
IsCancelledInFile(l) == session[l].status = "CANCELLED"

IsCancelled(l) == l \in cancelled \/ session[l].status = "CANCELLED"

HasResponse(r) == requests[r].answer # NoMessage

(* Mutant: the turn of the open request is not compared. *)
ReusesAnyTurn(s, turn) ==
    \/ s.status = "RESPONDED" /\ HasResponse(s.request)
    \/ s.status = "WAITING"

(* The session's request is this very question, open or answered.             *)
Reuses(s, turn) ==
    /\ s.turn = turn
    /\ \/ s.status = "RESPONDED" /\ HasResponse(s.request)
       \/ s.status = "WAITING"

(* Under the lock: a cancelled run ends, the open request is taken over or a   *)
(* new one is written; then the session names it.                             *)
ReadSession(a) ==
    LET g == agent[a]
        l == g.session
        s == session[l]
    IN
    /\ g.at = "locked"
    /\ \/ /\ IsCancelled(l)
          /\ session' = [session EXCEPT ![l].status = "CANCELLED"]
          /\ Free(a) /\ Become(a, Failed(g)) /\ UNCHANGED requests
       \/ /\ ~ IsCancelled(l) /\ Reuses(s, g.turn)
          /\ Free(a) /\ Become(a, [g EXCEPT !.at = "wait", !.request = s.request])
          /\ UNCHANGED <<session, requests>>
       \/ /\ ~ IsCancelled(l) /\ ~ Reuses(s, g.turn)
          /\ requests' = Append(requests, [session |-> l, turn |-> g.turn, answer |-> NoMessage])
          /\ Become(a, [g EXCEPT !.at = "requested", !.request = Len(requests) + 1])
          /\ UNCHANGED <<session, lock>>
    /\ UNCHANGED <<bridged, shown, cancelled, disturbances>>

WriteSession(a) ==
    LET g == agent[a] IN
    /\ g.at = "requested"
    /\ session' = [session EXCEPT ![g.session] =
                     [request |-> g.request, turn |-> g.turn, status |-> "WAITING"]]
    /\ Goto(a, "unlock")
    /\ UNCHANGED <<bridged, shown, lock, cancelled, requests, disturbances>>

Unlock(a) ==
    /\ agent[a].at = "unlock"
    /\ Free(a) /\ Goto(a, "wait")
    /\ UNCHANGED <<bridged, shown, session, cancelled, requests, disturbances>>

WaitOver(g) == [g EXCEPT !.request = 0, !.seen = NoSession, !.status = "NONE"]

(* Mutant: a wait that another request superseded is forgotten by the clock. *)
DeadlinePassesIfCurrent(g) == session[g.session].request = g.request

DeadlinePasses(g) == TRUE

(* How a wait ends; the session is read to have that written into it.  A file   *)
(* that is no answer ends it with nothing written.                              *)
Poll(a) ==
    LET g == agent[a]
        answered == g.session \notin cancelled /\ HasResponse(g.request)
    IN
    /\ g.at = "wait"
    /\ \/ \E status \in {"CANCELLED", "RESPONDED", "TIMED_OUT"} :
            /\ status = "CANCELLED" => g.session \in cancelled
            /\ status = "RESPONDED" => answered
            /\ status = "TIMED_OUT" => DeadlinePasses(g)
            /\ Become(a, [g EXCEPT !.at = "settle", !.status = status, !.seen = session[g.session]])
       \/ answered /\ Become(a, Failed(WaitOver(g)))
    /\ UNCHANGED <<bridged, shown, files, disturbances>>

(* It is written without the lock, over what became of the session meanwhile.   *)
Settle(a) ==
    LET g == agent[a] IN
    /\ g.at = "settle"
    /\ session' = [session EXCEPT ![g.session] = [g.seen EXCEPT !.status = g.status]]
    /\ Become(a, IF g.status = "RESPONDED" THEN Answered(WaitOver(g), requests[g.request].answer)
                 ELSE Failed(WaitOver(g)))
    /\ UNCHANGED <<bridged, shown, lock, cancelled, requests, disturbances>>

(***************************************************************************)
(* The operator, the clock and the API process.                            *)
(***************************************************************************)

(* Requests that a session names or an agent waits for; an answer to another is *)
(* read by nobody.                                                             *)
Pending == {session[l].request : l \in Sessions} \cup {agent[a].request : a \in Agents}

Respond ==
    \E r \in Pending \ {0}, m \in BridgeMessages :
       /\ ~ HasResponse(r)
       /\ requests' = [requests EXCEPT ![r].answer = m]
       /\ UNCHANGED <<bridged, agent, shown, session, lock, cancelled, disturbances>>

(* The operator knows a run by its session's file.                             *)
Cancel ==
    \E l \in Sessions \ cancelled :
       /\ session[l] # NoSession
       /\ cancelled' = cancelled \cup {l}
       /\ UNCHANGED <<bridged, agent, shown, session, lock, requests, disturbances>>

Holders(l) == {a \in Agents : agent[a].session = l /\ agent[a].at \in {"locked", "requested", "unlock"}}

(* A living holder is gone long before its lock is 90 seconds old.             *)
GrowsStale ==
    \E l \in Sessions :
       /\ lock[l] = "held" /\ Holders(l) = {}
       /\ lock' = [lock EXCEPT ![l] = "stale"]
       /\ UNCHANGED <<bridged, agent, shown, session, cancelled, requests, disturbances>>

(* The scans under way begin anew, at the first turn of their loops.            *)
Crash ==
    /\ disturbances < MaxDisturbances /\ disturbances' = disturbances + 1
    /\ agent' = [a \in Agents |-> IF agent[a].at = "done" THEN agent[a] ELSE Start]
    /\ shown' = [a \in Agents |-> IF agent[a].at = "done" THEN shown[a] ELSE {}]
    /\ UNCHANGED <<bridged, files>>

AgentStep(a) ==
    \/ _chat_once(a) \/ Execute(a)
    \/ Lock(a) \/ Busy(a) \/ FindStale(a) \/ Steal(a)
    \/ ReadSession(a) \/ WriteSession(a) \/ Unlock(a) \/ Poll(a) \/ Settle(a)

Next == (\E a \in Agents : AgentStep(a)) \/ Respond \/ Cancel \/ GrowsStale \/ Crash

Spec == Init /\ [][Next]_vars

(* Threads run and clocks tick; nobody has to answer.                          *)
FairSpec == Spec /\ \A a \in Agents : WF_vars(AgentStep(a))

(***************************************************************************)
(* Properties.                                                             *)
(***************************************************************************)

(* A profile is VALIDATED for reuse only if each of its strategies was seen to *)
(* work, by its tool and in this very run of the agent.                        *)
ProfileIsEarned ==
    \A a \in Agents : agent[a].profile.status = "VALIDATED" =>
       \A f \in Fields : [field |-> f, strategy |-> agent[a].profile.plan[f]] \in shown[a]

(* The answer an agent waits for is to its own question: this run, this turn,  *)
(* after crashes, takeovers of its request and overwritten session files.      *)
AnswerIsOwn ==
    \A a \in Agents : agent[a].at \in {"wait", "settle"} =>
       LET r == requests[agent[a].request] IN
       r.session = agent[a].session /\ r.turn = (IF r.session = "loop" THEN agent[a].turn ELSE r.turn)

(* A cancelled run asks nothing more, although a late settlement may write over *)
(* the CANCELLED of its session.                                               *)
CancelledAsksNoMore ==
    [][Len(requests') > Len(requests) => requests'[Len(requests')].session \notin cancelled]_vars

(* Every agent comes to an end, with nobody at the bridge and a dead process's  *)
(* lock in its way.                                                            *)
EveryAgentEnds == <>[](\A a \in Agents : agent[a].at = "done")

(* brain_provider.py:689-690: "a fresh provider process can resume the same      *)
(* agent run": what was answered is not asked again.                            *)
AnsweredOnce ==
    [][Len(requests') > Len(requests) =>
         \A r \in 1..Len(requests) :
            LET new == requests'[Len(requests')] IN
            requests[r].session = new.session /\ requests[r].turn = new.turn => ~ HasResponse(r)]_vars

(* brain_provider.py:809-810: "A response for a superseded request must never be *)
(* accepted as the current turn's answer".                                      *)
NoSupersededAnswer ==
    [][\A a \in Agents : agent[a].at = "settle" /\ agent'[a].at # "settle"
         /\ agent[a].status = "RESPONDED" => agent[a].seen.request = agent[a].request]_vars

=============================================================================
