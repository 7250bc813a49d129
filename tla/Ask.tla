-------------------------------- MODULE Ask ---------------------------------
(***************************************************************************)
(* The assistant of the desk: answer (qa/controller.py), finance_ask       *)
(* (qa/finance_controller.py), run_agent (qa/agent_loop.py), the provider  *)
(* they call (semantic/provider.py), and the investigation that is         *)
(* recorded (qa/investigation_log.py).                                     *)
(*                                                                         *)
(* The agent plays its playbook and may let the provider pick more tools;  *)
(* then the provider may explain the evidence, and rewrite a document.     *)
(* One deadline is shared by the calls of a question.  A call is any       *)
(* number of blocking operations on a socket, each with the call's timeout:*)
(* an answer is read in as many pieces as the provider sends.  Questions   *)
(* are asked one after the other: concurrent ones share nothing but the    *)
(* status card.  Time is counted in ticks.                                 *)
(***************************************************************************)
EXTENDS Integers, Sequences, FiniteSetsExt

CONSTANTS
    Total,          \* AI_TOTAL_BUDGET_S
    CallCap,        \* AI_TIMEOUT_S
    MinCall,        \* MIN_CALL_NS: a call is not begun with less left
    Ops,            \* bound: operations of a call are counted up to it
    AgentMax,       \* MAX_NS of the agent loop
    MaxTools, MaxRepeat, MaxPicks,
    Tools,          \* calls of a tool: its name and arguments
    Playbook,       \* the tool calls the agent begins with
    Horizon         \* bound: no tool is running later than this after the question;
                    \* clocks stop once Ops timeouts have gone by after it

VARIABLES
    pc,             \* where the request is
    live,           \* live_enabled(): the process has a provider and a key
    question,       \* what decides the path: agent, found, corpus
    left,           \* remaining_ns(): what _DEADLINE leaves
    age,            \* time since run_agent started
    at,             \* its place in the playbook
    repeats,        \* how often it executed each tool call
    picks,          \* llm_picks
    limit, wait, ops,  \* the call's timeout; what is left of it; operations begun
    error,          \* provider_error of the answer
    used,           \* provider_used
    last,           \* _LAST: ok and llm_picks
    outcome,        \* ai_investigation.outcome of the last question
    clock,          \* history: time since the question was asked
    failing         \* history: an explanation or a rewrite returned without prose,
                    \* and nothing succeeded since

agent == << age, at, repeats, picks >>
call == << limit, wait, ops >>
reply == << error, used >>
card == << last, failing >>
vars == << pc, live, question, left, agent, call, reply, card, outcome, clock >>

ASSUME AskConstants ==
    /\ Total \in Nat /\ CallCap \in Nat \ {0} /\ MinCall \in Nat \ {0} /\ Ops \in Nat \ {0}
    /\ AgentMax \in Nat /\ MaxTools \in Nat /\ MaxRepeat \in Nat /\ MaxPicks \in Nat \ {0}
    /\ Playbook \in Seq(Tools)
    /\ Horizon \in Nat /\ Horizon >= Total /\ Horizon >= AgentMax

Questions == [agent : BOOLEAN, found : BOOLEAN, corpus : BOOLEAN]
Errors == {"none", "budget", "other"}
Calling == {"pickcall", "explaincall", "rewritecall"}
Latest == Horizon + Ops * CallCap

TypeOK ==
    /\ pc \in {"idle", "opened", "playbook", "picking", "tools", "explain", "rewrite",
               "record"} \cup Calling
    /\ live \in BOOLEAN
    /\ question \in Questions
    /\ left \in Total - Latest .. Total
    /\ age \in 0 .. Latest
    /\ at \in 1 .. Len(Playbook) + 1
    /\ repeats \in [Tools -> 0 .. MaxRepeat]
    /\ picks \in 0 .. MaxPicks
    /\ limit \in 0 .. CallCap /\ wait \in 0 .. CallCap /\ ops \in 0 .. Ops
    /\ error \in Errors /\ used \in BOOLEAN
    /\ last \in [ok : BOOLEAN, picks : 0 .. MaxPicks]
    /\ outcome \in {"NONE", "ANSWERED", "TEMPLATE_FALLBACK", "PROVIDER_FAILED",
                    "BUDGET_EXCEEDED"}
    /\ clock \in 0 .. Latest
    /\ failing \in BOOLEAN

NoCall == limit' = 0 /\ wait' = 0 /\ ops' = 0

Init ==
    /\ pc = "idle"
    /\ live \in BOOLEAN
    /\ question = [agent |-> FALSE, found |-> FALSE, corpus |-> FALSE]
    /\ left = Total /\ age = 0 /\ at = 1 /\ picks = 0
    /\ repeats = [t \in Tools |-> 0]
    /\ limit = 0 /\ wait = 0 /\ ops = 0
    /\ error = "none" /\ used = FALSE
    /\ last = [ok |-> FALSE, picks |-> 0]
    /\ outcome = "NONE"
    /\ clock = 0
    /\ failing = FALSE

-----------------------------------------------------------------------------
Less(a, b) == IF a < b THEN a ELSE b
More(a, b) == IF a < b THEN b ELSE a

(* answer opens the budget of the request.                                 *)
Open(q) ==
    /\ pc = "idle"
    /\ pc' = "opened"
    /\ question' = q
    /\ left' = Total /\ clock' = 0
    /\ age' = 0 /\ at' = 1 /\ picks' = 0 /\ repeats' = [t \in Tools |-> 0]
    /\ error' = "none" /\ used' = FALSE
    /\ UNCHANGED << live, call, card, outcome >>

(* finance_ask opens another one inside, and keeps the earlier deadline;   *)
(* run_agent starts its own clock.                                         *)
Nest ==
    /\ pc = "opened"
    /\ pc' = IF question.agent THEN "playbook" ELSE "tools"
    /\ left' = Less(left, Total)
    /\ age' = 0
    /\ UNCHANGED << live, question, at, repeats, picks, call, reply, card, outcome, clock >>

(* The tools of an intent that needs no agent.                             *)
UseTools ==
    /\ pc = "tools"
    /\ pc' = "explain"
    /\ UNCHANGED << live, question, left, agent, call, reply, card, outcome, clock >>

-----------------------------------------------------------------------------
(* execute: a tool call repeated too often is refused, and takes no slot.  *)
Executed == SumFunction(repeats)
Executes(t) == repeats' = [repeats EXCEPT ![t] = IF @ < MaxRepeat THEN @ + 1 ELSE @]

Play ==
    /\ pc = "playbook"
    /\ IF at <= Len(Playbook) /\ Executed < MaxTools /\ age < AgentMax
       THEN Executes(Playbook[at]) /\ at' = at + 1 /\ UNCHANGED pc
       ELSE pc' = "picking" /\ UNCHANGED << repeats, at >>
    /\ UNCHANGED << live, question, left, age, picks, call, reply, card, outcome, clock >>

Exhausted == left < MinCall                    \* budget_exhausted
EffectiveUnclamped == CallCap                  \* mutant: the budget is not consulted
Effective == More(1, Less(CallCap, left))      \* _effective_timeout

(* The request is sent.                                                    *)
Dispatch(label) ==
    /\ ~Exhausted
    /\ pc' = label
    /\ limit' = Effective /\ wait' = Effective /\ ops' = 1

(* The loop of run_agent asks select_next_tool; without budget that        *)
(* answers an error and the loop ends.                                     *)
MayPick == live /\ Executed < MaxTools /\ age < AgentMax

Ask ==
    /\ pc = "picking" /\ MayPick
    /\ Dispatch("pickcall")
    /\ UNCHANGED << live, question, left, agent, reply, card, outcome, clock >>

(* The end of run_agent: picks are recorded as a live success.             *)
EndAgent ==
    /\ pc' = "explain"
    /\ last' = IF picks > 0 THEN [ok |-> TRUE, picks |-> picks] ELSE last

(* No tool may be picked, the budget is used up, the question is about no  *)
(* credit, or it holds what may not leave: nothing is recorded.            *)
StopPicking ==
    /\ pc = "picking"
    /\ EndAgent
    /\ UNCHANGED << live, question, left, agent, call, reply, outcome, clock, failing >>

Picked(t) ==
    /\ pc = "pickcall"
    /\ Executes(t)
    /\ picks' = picks + 1
    /\ failing' = FALSE
    /\ NoCall
    /\ IF picks + 1 >= MaxPicks
       THEN pc' = "explain" /\ last' = [ok |-> TRUE, picks |-> picks + 1]
       ELSE pc' = "picking" /\ UNCHANGED last
    /\ UNCHANGED << live, question, left, age, at, reply, outcome, clock >>

(* It says stop, or what it says names no tool: nothing is recorded.       *)
NoPick ==
    /\ pc = "pickcall"
    /\ EndAgent
    /\ NoCall
    /\ UNCHANGED << live, question, left, agent, reply, outcome, clock, failing >>

(* A ProviderError is recorded, then the picks there were.                 *)
PickFails ==
    /\ pc = "pickcall"
    /\ pc' = "explain"
    /\ last' = IF picks > 0 THEN [ok |-> TRUE, picks |-> picks] ELSE [last EXCEPT !.ok = FALSE]
    /\ NoCall
    /\ UNCHANGED << live, question, left, agent, reply, outcome, clock, failing >>

-----------------------------------------------------------------------------
(* explain_evidence and rewrite: the same steps with different labels.     *)
After(label) == IF label = "explaincall" THEN "rewrite" ELSE "record"
Wanted(label) == IF label = "explaincall" THEN question.found ELSE question.corpus
At(label) == pc = IF label = "explaincall" THEN "explain" ELSE "rewrite"

(* The first error of an answer stays.                                     *)
Note(e) == error' = IF error = "none" THEN e ELSE error
Fails == last' = [last EXCEPT !.ok = FALSE]

(* The deadline finance_ask set is gone when it returns.                   *)
Leaves(label) == left' = IF label = "explaincall" THEN Total - clock ELSE left

(* Nothing to explain, or no provider: an explanation leaves an error.     *)
Pass(label) ==
    /\ At(label) /\ ~(live /\ Wanted(label))
    /\ pc' = After(label)
    /\ IF label = "explaincall" THEN Note("other") ELSE UNCHANGED error
    /\ Leaves(label)
    /\ UNCHANGED << live, question, agent, call, used, card, outcome, clock >>

Skip(label) ==
    /\ At(label) /\ live /\ Wanted(label) /\ Exhausted
    /\ pc' = After(label)
    /\ Note("budget") /\ Fails
    /\ Leaves(label)
    /\ UNCHANGED << live, question, agent, call, used, outcome, clock, failing >>

(* The outbound text holds what may not leave: no request, nothing         *)
(* recorded.                                                               *)
Withhold(label) ==
    /\ At(label) /\ live /\ Wanted(label) /\ ~Exhausted
    /\ pc' = After(label)
    /\ Note("other")
    /\ Leaves(label)
    /\ UNCHANGED << live, question, agent, call, used, card, outcome, clock >>

Send(label) ==
    /\ At(label) /\ live /\ Wanted(label)
    /\ Dispatch(label)
    /\ UNCHANGED << live, question, left, agent, reply, card, outcome, clock >>

(* Prose that passes is recorded as a success; validate_answer may still   *)
(* refuse an explanation.                                                  *)
Prose(label, valid) ==
    /\ pc = label
    /\ label # "explaincall" => valid
    /\ pc' = After(label)
    /\ IF valid THEN used' = TRUE /\ UNCHANGED error
       ELSE Note("other") /\ UNCHANGED used
    /\ last' = [last EXCEPT !.ok = TRUE]
    /\ failing' = FALSE
    /\ NoCall /\ Leaves(label)
    /\ UNCHANGED << live, question, agent, outcome, clock >>

(* mutant: an unusable answer is not recorded.                             *)
NoProseUnrecorded(label) ==
    /\ pc = label
    /\ pc' = After(label)
    /\ Note("other") /\ UNCHANGED last
    /\ failing' = TRUE
    /\ NoCall /\ Leaves(label)
    /\ UNCHANGED << live, question, agent, used, outcome, clock >>

(* An error, no usable content, or prose that may not be shown.            *)
NoProse(label) ==
    /\ pc = label
    /\ pc' = After(label)
    /\ Note("other") /\ Fails
    /\ failing' = TRUE
    /\ NoCall /\ Leaves(label)
    /\ UNCHANGED << live, question, agent, used, outcome, clock >>

Texts == {"explaincall", "rewritecall"}

-----------------------------------------------------------------------------
(* One operation of the call is over and the next may take as long again:  *)
(* resp.read() receives until the answer is complete.                      *)
Receive ==
    /\ pc \in Calling
    /\ ops' = Less(ops + 1, Ops) /\ wait' = limit
    /\ UNCHANGED << pc, live, question, left, agent, limit, reply, card, outcome, clock >>

TimeOutMissing == FALSE /\ UNCHANGED vars      \* mutant: the request has no timeout

(* The operation times out: a ProviderError, recorded by each caller.      *)
TimeOut ==
    /\ pc \in Calling /\ wait = 0
    /\ PickFails \/ \E label \in Texts : NoProse(label)

(* The connection breaks while the answer is awaited or read, or times out *)
(* while the text of an HTTP error is read, which is not among what        *)
(* _default_post turns into a ProviderError: the question ends with that   *)
(* error, and nobody records anything.                                     *)
Break ==
    /\ pc \in Calling
    /\ pc' = "idle"
    /\ NoCall
    /\ UNCHANGED << live, question, left, agent, reply, card, outcome, clock >>

(* A tick: an operation's timeout fires before more time passes, and tools *)
(* run until the horizon at most.                                          *)
Tick ==
    /\ pc # "idle"
    /\ IF pc \in Calling THEN wait > 0 /\ wait' = wait - 1
       ELSE clock < Horizon /\ UNCHANGED wait
    /\ clock' = Less(clock + 1, Latest) /\ age' = Less(age + 1, Latest)
    /\ left' = left - (clock' - clock)
    /\ UNCHANGED << pc, live, question, at, repeats, picks, limit, ops, reply, card, outcome >>

(* record, which is best effort and which only the API calls:              *)
(* classify_outcome.                                                       *)
Record(written) ==
    /\ pc = "record"
    /\ pc' = "idle"
    /\ outcome' = IF ~written THEN outcome
                  ELSE IF error = "budget" THEN "BUDGET_EXCEEDED"
                  ELSE IF error = "other" THEN "PROVIDER_FAILED"
                  ELSE IF used THEN "ANSWERED" ELSE "TEMPLATE_FALLBACK"
    /\ UNCHANGED << live, question, left, agent, call, reply, card, clock >>

-----------------------------------------------------------------------------
Answering ==
    \/ Nest \/ UseTools \/ Play \/ Ask \/ StopPicking
    \/ \E label \in Texts : Pass(label) \/ Skip(label) \/ Withhold(label) \/ Send(label)
    \/ \E written \in BOOLEAN : Record(written)

Provider ==
    \/ \E t \in Tools : Picked(t)
    \/ NoPick \/ PickFails \/ Receive \/ Break
    \/ \E label \in Texts : NoProse(label) \/ \E valid \in BOOLEAN : Prose(label, valid)

Next == Answering \/ Provider \/ TimeOut \/ Tick \/ \E q \in Questions : Open(q)

(* The process goes on, time passes and a timeout fires; the provider need *)
(* not answer.                                                             *)
Spec == Init /\ [][Next]_vars /\ WF_vars(Answering) /\ WF_vars(TimeOut) /\ WF_vars(Tick)

-----------------------------------------------------------------------------
(* The deadline bounds the whole request (semantic/provider.py:114): the   *)
(* picks, the explanation and the rewrite together, no call of it is under *)
(* way later than its budget, but for the operations of this call after    *)
(* its first, each of which has the whole timeout again.  Their number is  *)
(* the provider's.                                                         *)
WithinBudget == pc \in Calling /\ ops < Ops => clock <= Total + (ops - 1) * CallCap

(* "... or a stale success keeps the status card reading LIVE=YES after    *)
(* the provider started returning nothing" (semantic/provider.py:378):     *)
(* between questions the card does not say YES when the last explanation   *)
(* or rewrite returned without its prose and no call has succeeded since.  *)
FailureShows == pc = "idle" /\ failing => ~last.ok

(* A question ends unless the provider goes on sending pieces of an answer *)
(* for ever, each within the timeout of one operation: whatever else it    *)
(* does or leaves undone (semantic/provider.py:302).                       *)
EventuallyEnds == <>[][~Receive]_vars => (pc # "idle" ~> pc = "idle")
=============================================================================
