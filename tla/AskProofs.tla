------------------------------ MODULE AskProofs ------------------------------
(***************************************************************************)
(* The budget of a question bounds its calls, for any budget, timeout,     *)
(* tools, playbook and limits, however many operations a call has.         *)
(*                                                                         *)
(* WithinBudget is not inductive: it says nothing of the time the          *)
(* operation under way may still take.  Bounded adds it: what is left of   *)
(* this operation still fits, after one timeout for each before it.        *)
(***************************************************************************)
EXTENDS Ask, TLAPS

(* The clocks of the request agree.                                        *)
Times == clock \in 0 .. Latest /\ age \in 0 .. clock /\ left = Total - clock

(* The rest of TypeOK.                                                     *)
Kinds ==
    /\ pc \in {"idle", "opened", "playbook", "picking", "tools", "explain", "rewrite",
               "record"} \cup Calling
    /\ live \in BOOLEAN
    /\ question \in Questions
    /\ at \in 1 .. Len(Playbook) + 1
    /\ repeats \in [Tools -> 0 .. MaxRepeat]
    /\ picks \in 0 .. MaxPicks
    /\ limit \in 0 .. CallCap /\ wait \in 0 .. CallCap /\ ops \in 0 .. Ops
    /\ error \in Errors /\ used \in BOOLEAN
    /\ last \in [ok : BOOLEAN, picks : 0 .. MaxPicks]
    /\ outcome \in {"NONE", "ANSWERED", "TEMPLATE_FALLBACK", "PROVIDER_FAILED",
                    "BUDGET_EXCEEDED"}
    /\ failing \in BOOLEAN

(* The agent that may still pick has not picked its last.                  *)
Choosing == {"opened", "playbook", "picking", "pickcall"}
Picking == pc \in Choosing => picks < MaxPicks

Bounded == pc \in Calling =>
    /\ ops \in 1 .. Ops
    /\ ops < Ops => clock + wait <= Total + (ops - 1) * CallCap

AskInv == Times /\ Kinds /\ Picking /\ Bounded

-----------------------------------------------------------------------------
(* What the operations of a call may add.                                  *)
LEMMA OneMore ==
    ASSUME NEW n \in Nat
    PROVE  n * CallCap \in Nat /\ (n + 1) * CallCap = n * CallCap + CallCap
<1>1. CallCap \in Nat
  BY AskConstants
<1> QED BY <1>1

LEMMA LatestIsLate == Latest \in Nat /\ Total <= Latest /\ Horizon <= Latest
<1>1. Ops * CallCap \in Nat
  BY OneMore, AskConstants
<1> QED BY <1>1, AskConstants DEF Latest

LEMMA InvTyped == AskInv => TypeOK
<1> SUFFICES ASSUME AskInv PROVE TypeOK
  OBVIOUS
<1>1. left \in Total - Latest .. Total /\ age \in 0 .. Latest /\ clock \in 0 .. Latest
  BY LatestIsLate, AskConstants DEF AskInv, Times
<1> QED BY <1>1 DEF AskInv, Kinds, TypeOK

LEMMA InvBounds == AskInv => WithinBudget
<1> SUFFICES ASSUME AskInv, pc \in Calling, ops < Ops
             PROVE  clock <= Total + (ops - 1) * CallCap
  BY DEF WithinBudget
<1>1. ops \in 1 .. Ops /\ clock + wait <= Total + (ops - 1) * CallCap
  BY DEF AskInv, Bounded
<1>2. clock \in Int /\ wait \in Nat
  BY LatestIsLate, AskConstants DEF AskInv, Times, Kinds
<1>3. ops - 1 \in Nat
  BY <1>1, AskConstants
<1>4. (ops - 1) * CallCap \in Nat
  BY <1>3, OneMore
<1> QED BY <1>1, <1>2, <1>4, AskConstants

LEMMA InitInv == Init => AskInv
<1> SUFFICES ASSUME Init PROVE AskInv
  OBVIOUS
<1>1. Times
  BY LatestIsLate, AskConstants DEF Init, Times
<1>2. Len(Playbook) \in Nat
  BY AskConstants
<1>3. /\ repeats \in [Tools -> 0 .. MaxRepeat] /\ question \in Questions
      /\ last \in [ok : BOOLEAN, picks : 0 .. MaxPicks]
  BY AskConstants DEF Init, Questions
<1>4. Kinds
  <2>1. /\ 1 \in 1 .. Len(Playbook) + 1 /\ 0 \in 0 .. MaxPicks /\ 0 \in 0 .. CallCap
        /\ 0 \in 0 .. Ops /\ "none" \in Errors
    BY <1>2, AskConstants DEF Errors
  <2> QED BY <2>1, <1>3 DEF Init, Kinds
<1> QED BY <1>1, <1>4, AskConstants DEF Init, AskInv, Picking, Bounded, Choosing, Calling

-----------------------------------------------------------------------------
(* A step that lets no time pass keeps the clocks, also when the deadline  *)
(* of finance_ask goes.                                                    *)
LEMMA SameTimes ==
    ASSUME Times, clock' = clock, age' = age \/ age' = 0,
           left' = left \/ left' = Total - clock
    PROVE  Times'
BY LatestIsLate DEF Times

(* Outside a call nothing bounds one.                                      *)
LEMMA NotCalling ==
    ASSUME pc' \in {"idle", "opened", "tools", "playbook", "picking", "explain", "rewrite",
                    "record"}
    PROVE  Bounded'
BY DEF Bounded, Calling

(* A call is sent with what the budget leaves, or the cap.                 *)
LEMMA Sent ==
    ASSUME Times, NEW label, Dispatch(label), clock' = clock
    PROVE  limit' \in 0 .. CallCap /\ wait' \in 0 .. CallCap /\ ops' \in 0 .. Ops /\ Bounded'
<1> USE AskConstants
<1>1. left \in Int /\ clock \in Nat /\ left = Total - clock
  BY LatestIsLate DEF Times
<1>2. left >= 1
  BY <1>1 DEF Dispatch, Exhausted
<1>3. Effective \in 1 .. CallCap /\ Effective <= left
  BY <1>1, <1>2 DEF Effective, More, Less
<1>4. (1 - 1) * CallCap = 0
  OBVIOUS
<1> QED BY <1>1, <1>3, <1>4 DEF Dispatch, Bounded

(* A tool call is counted within its limit, executed or refused.           *)
LEMMA Counted ==
    ASSUME repeats \in [Tools -> 0 .. MaxRepeat], NEW t \in Tools, Executes(t)
    PROVE  repeats' \in [Tools -> 0 .. MaxRepeat]
<1>1. repeats[t] \in 0 .. MaxRepeat
  OBVIOUS
<1>2. (IF repeats[t] < MaxRepeat THEN repeats[t] + 1 ELSE repeats[t]) \in 0 .. MaxRepeat
  BY <1>1, AskConstants
<1> QED BY <1>2 DEF Executes

(* An answer's error and the card.                                         *)
LEMMA Noted ==
    ASSUME Kinds, NEW e \in Errors
    PROVE  /\ Note(e) => error' \in Errors
           /\ Fails => last' \in [ok : BOOLEAN, picks : 0 .. MaxPicks]
           /\ last' = [last EXCEPT !.ok = TRUE] => last' \in [ok : BOOLEAN, picks : 0 .. MaxPicks]
           /\ NoCall => limit' \in 0 .. CallCap /\ wait' \in 0 .. CallCap /\ ops' \in 0 .. Ops
<1>1. last \in [ok : BOOLEAN, picks : 0 .. MaxPicks] /\ error \in Errors
  BY DEF Kinds
<1>2. 0 \in 0 .. CallCap /\ 0 \in 0 .. Ops
  BY AskConstants
<1>3. \A b \in BOOLEAN : [last EXCEPT !.ok = b] \in [ok : BOOLEAN, picks : 0 .. MaxPicks]
  BY <1>1
<1> QED BY <1>1, <1>2, <1>3 DEF Note, Fails, NoCall

(* The end of the agent's loop.                                            *)
LEMMA AgentEnds ==
    ASSUME Kinds, EndAgent
    PROVE  pc' = "explain" /\ last' \in [ok : BOOLEAN, picks : 0 .. MaxPicks]
BY DEF Kinds, EndAgent

(* The two texts.                                                          *)
LEMMA TextPlaces ==
    ASSUME NEW label \in Texts
    PROVE  /\ After(label) \in {"rewrite", "record"}
           /\ label \in Calling
           /\ At(label) => pc \in {"explain", "rewrite"}
           /\ Leaves(label) => left' = left \/ left' = Total - clock
BY DEF Texts, After, Calling, At, Leaves
-----------------------------------------------------------------------------
LEMMA AgentInv ==
    ASSUME AskInv, Nest \/ UseTools \/ Play \/ Ask \/ StopPicking
    PROVE  AskInv'
<1> USE DEF AskInv
<1>1. CASE Nest
  <2>1. left' = left
    BY <1>1, LatestIsLate, AskConstants DEF Nest, Less, Times
  <2>2. Times'
    BY <1>1, <2>1, SameTimes DEF Nest
  <2>3. Kinds'
    BY <1>1 DEF Nest, Kinds, call, reply, card
  <2>4. Picking'
    BY <1>1 DEF Nest, Picking, Choosing
  <2>5. Bounded'
    BY <1>1, NotCalling DEF Nest
  <2> QED BY <2>2, <2>3, <2>4, <2>5
<1>2. CASE UseTools
  <2>1. Times'
    BY <1>2, SameTimes DEF UseTools, agent
  <2>2. Kinds'
    BY <1>2 DEF UseTools, Kinds, agent, call, reply, card
  <2>3. Picking' /\ Bounded'
    BY <1>2, NotCalling DEF UseTools, Picking, Choosing
  <2> QED BY <2>1, <2>2, <2>3
<1>3. CASE Play
  <2>1. Times'
    BY <1>3, SameTimes DEF Play
  <2>2. repeats' \in [Tools -> 0 .. MaxRepeat] /\ at' \in 1 .. Len(Playbook) + 1
    <3>1. CASE UNCHANGED << repeats, at >>
      BY <3>1 DEF Kinds
    <3>2. CASE at <= Len(Playbook) /\ Executes(Playbook[at]) /\ at' = at + 1
      <4>1. Playbook[at] \in Tools
        BY <3>2, AskConstants DEF Kinds
      <4>2. repeats' \in [Tools -> 0 .. MaxRepeat]
        BY <3>2, <4>1, Counted DEF Kinds
      <4> QED BY <3>2, <4>2, AskConstants DEF Kinds
    <3> QED BY <1>3, <3>1, <3>2 DEF Play
  <2>3. Kinds'
    BY <1>3, <2>2 DEF Play, Kinds, call, reply, card
  <2>4. Picking' /\ Bounded'
    BY <1>3, NotCalling DEF Play, Picking, Choosing
  <2> QED BY <2>1, <2>3, <2>4
<1>4. CASE Ask
  <2>1. Times'
    BY <1>4, SameTimes DEF Ask, agent
  <2>2. limit' \in 0 .. CallCap /\ wait' \in 0 .. CallCap /\ ops' \in 0 .. Ops /\ Bounded'
    BY <1>4, Sent DEF Ask
  <2>3. Kinds'
    BY <1>4, <2>2 DEF Ask, Dispatch, Kinds, Calling, agent, reply, card
  <2>4. Picking'
    BY <1>4 DEF Ask, Picking, Choosing, agent
  <2> QED BY <2>1, <2>2, <2>3, <2>4
<1>5. CASE StopPicking
  <2>1. Times'
    BY <1>5, SameTimes DEF StopPicking, agent
  <2>2. pc' = "explain" /\ last' \in [ok : BOOLEAN, picks : 0 .. MaxPicks]
    BY <1>5, AgentEnds DEF StopPicking
  <2>3. Kinds'
    BY <1>5, <2>2 DEF StopPicking, Kinds, agent, call, reply
  <2>4. Picking' /\ Bounded'
    BY <2>2, NotCalling DEF Picking, Choosing
  <2> QED BY <2>1, <2>3, <2>4
<1> QED BY <1>1, <1>2, <1>3, <1>4, <1>5

(* The provider's picks.                                                   *)
LEMMA PickInv ==
    ASSUME AskInv, NoPick \/ PickFails \/ \E t \in Tools : Picked(t)
    PROVE  AskInv'
<1> USE DEF AskInv
<1>1. ASSUME NEW t \in Tools, Picked(t) PROVE AskInv'
  <2>1. Times'
    BY <1>1, SameTimes DEF Picked
  <2>2. picks < MaxPicks /\ picks \in Nat
    BY <1>1, AskConstants DEF Picked, Picking, Choosing, Kinds
  <2>3. picks' \in 0 .. MaxPicks /\ (pc' = "picking" => picks' < MaxPicks)
    BY <1>1, <2>2, AskConstants DEF Picked
  <2>4. pc' \in {"explain", "picking"}
    BY <1>1 DEF Picked
  <2>5. last' \in [ok : BOOLEAN, picks : 0 .. MaxPicks]
    <3>1. [ok |-> TRUE, picks |-> picks + 1] \in [ok : BOOLEAN, picks : 0 .. MaxPicks]
      BY <2>2, AskConstants
    <3> QED BY <1>1, <3>1 DEF Picked, Kinds
  <2>6. repeats' \in [Tools -> 0 .. MaxRepeat]
    BY <1>1, Counted DEF Picked, Kinds
  <2>7. limit' \in 0 .. CallCap /\ wait' \in 0 .. CallCap /\ ops' \in 0 .. Ops
    BY <1>1, AskConstants DEF Picked, NoCall
  <2>8. Kinds'
    BY <1>1, <2>3, <2>4, <2>5, <2>6, <2>7 DEF Picked, Kinds, reply
  <2>9. Picking' /\ Bounded'
    BY <2>3, <2>4, NotCalling DEF Picking, Choosing
  <2> QED BY <2>1, <2>8, <2>9
<1>2. CASE NoPick
  <2>1. Times'
    BY <1>2, SameTimes DEF NoPick, agent
  <2>2. pc' = "explain" /\ last' \in [ok : BOOLEAN, picks : 0 .. MaxPicks]
    BY <1>2, AgentEnds DEF NoPick
  <2>3. limit' \in 0 .. CallCap /\ wait' \in 0 .. CallCap /\ ops' \in 0 .. Ops
    BY <1>2, AskConstants DEF NoPick, NoCall
  <2>4. Kinds'
    BY <1>2, <2>2, <2>3 DEF NoPick, Kinds, agent, reply
  <2>5. Picking' /\ Bounded'
    BY <2>2, NotCalling DEF Picking, Choosing
  <2> QED BY <2>1, <2>4, <2>5
<1>3. CASE PickFails
  <2>1. Times'
    BY <1>3, SameTimes DEF PickFails, agent
  <2>2. last' \in [ok : BOOLEAN, picks : 0 .. MaxPicks]
    <3>1. /\ [last EXCEPT !.ok = FALSE] \in [ok : BOOLEAN, picks : 0 .. MaxPicks]
          /\ [ok |-> TRUE, picks |-> picks] \in [ok : BOOLEAN, picks : 0 .. MaxPicks]
      BY DEF Kinds
    <3> QED BY <1>3, <3>1 DEF PickFails
  <2>3. limit' \in 0 .. CallCap /\ wait' \in 0 .. CallCap /\ ops' \in 0 .. Ops
    BY <1>3, AskConstants DEF PickFails, NoCall
  <2>4. Kinds'
    BY <1>3, <2>2, <2>3 DEF PickFails, Kinds, agent, reply
  <2>5. Picking' /\ Bounded'
    BY <1>3, NotCalling DEF PickFails, Picking, Choosing
  <2> QED BY <2>1, <2>4, <2>5
<1> QED BY <1>1, <1>2, <1>3

(* Explanation and rewrite, whichever way they go.                         *)
LEMMA TextInv ==
    ASSUME AskInv, NEW label \in Texts,
           \/ Pass(label) \/ Skip(label) \/ Withhold(label) \/ Send(label)
           \/ NoProse(label) \/ \E valid \in BOOLEAN : Prose(label, valid)
    PROVE  AskInv'
<1> USE DEF AskInv
<1>0. \A e \in Errors :
        /\ Note(e) => error' \in Errors
        /\ Fails => last' \in [ok : BOOLEAN, picks : 0 .. MaxPicks]
        /\ last' = [last EXCEPT !.ok = TRUE] => last' \in [ok : BOOLEAN, picks : 0 .. MaxPicks]
        /\ NoCall => limit' \in 0 .. CallCap /\ wait' \in 0 .. CallCap /\ ops' \in 0 .. Ops
  BY Noted
<1>1. "other" \in Errors /\ "budget" \in Errors
  BY DEF Errors
<1>2. CASE Send(label)
  <2>1. Times'
    BY <1>2, SameTimes DEF Send, agent
  <2>2. limit' \in 0 .. CallCap /\ wait' \in 0 .. CallCap /\ ops' \in 0 .. Ops /\ Bounded'
    BY <1>2, Sent DEF Send
  <2>3. Kinds'
    BY <1>2, <2>2, TextPlaces DEF Send, Dispatch, Kinds, agent, reply, card
  <2>4. Picking'
    BY <1>2 DEF Send, Dispatch, Picking, Choosing, Texts
  <2> QED BY <2>1, <2>2, <2>3, <2>4
<1>3. ASSUME pc' = After(label), Leaves(label), UNCHANGED << live, question, agent, outcome, clock >>,
             error' \in Errors, used' \in BOOLEAN, failing' \in BOOLEAN,
             last' \in [ok : BOOLEAN, picks : 0 .. MaxPicks], UNCHANGED call \/ NoCall
      PROVE  AskInv'
  <2>1. Times'
    BY <1>3, SameTimes, TextPlaces DEF agent
  <2>2. pc' \in {"rewrite", "record"}
    BY <1>3, TextPlaces
  <2>3. limit' \in 0 .. CallCap /\ wait' \in 0 .. CallCap /\ ops' \in 0 .. Ops
    BY <1>0, <1>1, <1>3 DEF call, Kinds
  <2>4. Kinds'
    BY <1>3, <2>2, <2>3 DEF Kinds, agent
  <2>5. Picking' /\ Bounded'
    BY <2>2, NotCalling DEF Picking, Choosing
  <2> QED BY <2>1, <2>4, <2>5
<1>4. CASE Pass(label)
  BY <1>0, <1>1, <1>3, <1>4 DEF Pass, Kinds, card
<1>5. CASE Skip(label)
  BY <1>0, <1>1, <1>3, <1>5 DEF Skip, Kinds
<1>6. CASE Withhold(label)
  BY <1>0, <1>1, <1>3, <1>6 DEF Withhold, Kinds, card
<1>7. CASE NoProse(label)
  BY <1>0, <1>1, <1>3, <1>7 DEF NoProse, Kinds
<1>8. ASSUME NEW valid \in BOOLEAN, Prose(label, valid) PROVE AskInv'
  BY <1>0, <1>1, <1>3, <1>8 DEF Prose, Kinds
<1> QED BY <1>2, <1>4, <1>5, <1>6, <1>7, <1>8
(* The call goes on, or ends without an answer.                            *)
LEMMA CallInv ==
    ASSUME AskInv, Receive \/ TimeOut \/ Break
    PROVE  AskInv'
<1> USE DEF AskInv
<1>1. CASE Receive
  <2>1. Times'
    BY <1>1, SameTimes DEF Receive, agent
  <2>2. /\ pc \in Calling /\ ops \in 1 .. Ops /\ Ops \in Nat
        /\ ops < Ops => clock + wait <= Total + (ops - 1) * CallCap
    BY <1>1, AskConstants DEF Receive, Bounded
  <2>3. /\ limit \in 0 .. CallCap /\ wait \in 0 .. CallCap /\ clock \in Nat
        /\ Total \in Nat /\ CallCap \in Nat
    BY LatestIsLate, AskConstants DEF Kinds, Times
  <2>4. ops' = Less(ops + 1, Ops) /\ wait' = limit /\ clock' = clock
    BY <1>1 DEF Receive
  <2>5. ops' \in 1 .. Ops /\ (ops' < Ops => ops < Ops /\ ops' - 1 = (ops - 1) + 1)
    BY <2>2, <2>4 DEF Less
  <2>6. ops - 1 \in Nat
    BY <2>2
  <2>7. /\ (ops - 1) * CallCap \in Nat
        /\ ((ops - 1) + 1) * CallCap = (ops - 1) * CallCap + CallCap
    BY <2>6, OneMore
  <2>8. ops' < Ops => clock' + wait' <= Total + (ops' - 1) * CallCap
    BY <2>2, <2>3, <2>4, <2>5, <2>7
  <2>9. Kinds'
    BY <1>1, <2>3, <2>5 DEF Receive, Kinds, agent, reply, card
  <2>10. Picking'
    BY <1>1 DEF Receive, Picking, agent
  <2> QED BY <2>1, <2>5, <2>8, <2>9, <2>10 DEF Bounded
<1>2. CASE TimeOut
  BY <1>2, PickInv, TextInv DEF TimeOut
<1>3. CASE Break
  <2>1. Times'
    BY <1>3, SameTimes DEF Break, agent
  <2>2. limit' \in 0 .. CallCap /\ wait' \in 0 .. CallCap /\ ops' \in 0 .. Ops
    BY <1>3, AskConstants DEF Break, NoCall
  <2>3. Kinds'
    BY <1>3, <2>2 DEF Break, Kinds, agent, reply, card
  <2>4. Picking' /\ Bounded'
    BY <1>3, NotCalling DEF Break, Picking, Choosing
  <2> QED BY <2>1, <2>3, <2>4
<1> QED BY <1>1, <1>2, <1>3

(* Time passes: an operation still has some, or no call is under way.      *)
LEMMA TickInv ==
    ASSUME AskInv, Tick
    PROVE  AskInv'
<1> USE DEF AskInv
<1>1. /\ clock' = Less(clock + 1, Latest) /\ age' = Less(age + 1, Latest)
      /\ left' = left - (clock' - clock) /\ pc' = pc /\ ops' = ops
  BY DEF Tick
<1>2. /\ Latest \in Nat /\ Total \in Nat /\ CallCap \in Nat /\ clock \in 0 .. Latest
      /\ age \in 0 .. clock /\ left = Total - clock /\ wait \in 0 .. CallCap
  BY LatestIsLate, AskConstants DEF Times, Kinds
<1>3. clock \in Nat /\ clock' \in Nat /\ clock' <= clock + 1
  BY <1>1, <1>2 DEF Less
<1>4. Times'
  BY <1>1, <1>2 DEF Times, Less
<1>5. wait' \in 0 .. CallCap /\ Bounded'
  <2>1. CASE pc \in Calling
    <3>1. /\ wait > 0 /\ wait' = wait - 1 /\ ops \in 1 .. Ops /\ Ops \in Nat
          /\ ops < Ops => clock + wait <= Total + (ops - 1) * CallCap
      BY <2>1, AskConstants DEF Tick, Bounded
    <3>2. /\ wait \in Nat /\ wait <= CallCap /\ CallCap \in Nat
          /\ wait > 0 /\ wait' = wait - 1
      BY <1>2, <3>1
    <3>3. wait' \in 0 .. CallCap /\ clock' + wait' <= clock + wait /\ clock' + wait' \in Nat
      <4>1. wait' \in Nat /\ wait' + 1 = wait
        BY <3>2
      <4>2. wait' \in 0 .. CallCap
        BY <3>2, <4>1
      <4>3. \A c, d \in Nat : d <= c + 1 => d + wait' <= c + wait /\ d + wait' \in Nat
        BY <3>2, <4>1
      <4> QED BY <1>3, <4>2, <4>3
    <3>4. ops - 1 \in Nat
      BY <3>1
    <3>5. (ops - 1) * CallCap \in Nat
      BY <3>4, OneMore
    <3>6. ops < Ops => clock' + wait' <= Total + (ops - 1) * CallCap
      <4> DEFINE most == Total + (ops - 1) * CallCap
      <4>1. most \in Nat /\ clock + wait \in Nat /\ (ops < Ops => clock + wait <= most)
        BY <1>2, <1>3, <3>1, <3>2, <3>5
      <4> HIDE DEF most
      <4>2. ops < Ops => clock' + wait' <= most
        BY <3>3, <4>1
      <4> QED BY <4>2 DEF most
    <3> QED BY <1>1, <3>1, <3>3, <3>6 DEF Bounded
  <2>2. CASE pc \notin Calling
    BY <1>1, <1>2, <2>2 DEF Tick, Bounded
  <2> QED BY <2>1, <2>2
<1>6. Kinds'
  BY <1>1, <1>5 DEF Tick, Kinds, reply, card
<1>7. Picking'
  BY <1>1 DEF Tick, Picking
<1> QED BY <1>4, <1>5, <1>6, <1>7

(* A question begins and ends.                                             *)
LEMMA EndInv ==
    ASSUME AskInv, (\E q \in Questions : Open(q)) \/ (\E written \in BOOLEAN : Record(written))
    PROVE  AskInv'
<1> USE DEF AskInv
<1>1. ASSUME NEW q \in Questions, Open(q) PROVE AskInv'
  <2>1. Times'
    BY <1>1, LatestIsLate, AskConstants DEF Open, Times
  <2>2. Len(Playbook) \in Nat
    BY AskConstants
  <2>3. /\ 1 \in 1 .. Len(Playbook) + 1 /\ 0 \in 0 .. MaxPicks /\ "none" \in Errors
        /\ [t \in Tools |-> 0] \in [Tools -> 0 .. MaxRepeat]
    BY <2>2, AskConstants DEF Errors
  <2>4. Kinds'
    BY <1>1, <2>3 DEF Open, Kinds, call, card
  <2>5. Picking' /\ Bounded'
    BY <1>1, NotCalling, AskConstants DEF Open, Picking
  <2> QED BY <2>1, <2>4, <2>5
<1>2. ASSUME NEW written \in BOOLEAN, Record(written) PROVE AskInv'
  <2>1. Times'
    BY <1>2, SameTimes DEF Record, agent
  <2>2. Kinds'
    BY <1>2 DEF Record, Kinds, agent, call, reply, card
  <2>3. Picking' /\ Bounded'
    BY <1>2, NotCalling DEF Record, Picking, Choosing
  <2> QED BY <2>1, <2>2, <2>3
<1> QED BY <1>1, <1>2

LEMMA NextInv == AskInv /\ [Next]_vars => AskInv'
<1> SUFFICES ASSUME AskInv, [Next]_vars PROVE AskInv'
  OBVIOUS
<1>1. CASE Answering
  BY <1>1, AgentInv, TextInv, EndInv DEF Answering
<1>2. CASE Provider
  BY <1>2, PickInv, TextInv, CallInv DEF Provider
<1>3. CASE UNCHANGED vars
  BY <1>3 DEF vars, agent, call, reply, card, AskInv, Times, Kinds, Picking, Bounded
<1> QED BY <1>1, <1>2, <1>3, CallInv, TickInv, EndInv DEF Next

LEMMA AlwaysAskInv == Spec => []AskInv
BY InitInv, NextInv, PTL DEF Spec

-----------------------------------------------------------------------------
(* Clocks, counters, errors and the card keep their types: no question     *)
(* takes more picks than its limit, however the provider answers.          *)
THEOREM AskTyped == Spec => []TypeOK
BY AlwaysAskInv, InvTyped, PTL

(* No operation of a call is under way later than the question's budget    *)
(* and one timeout for each operation of this call before it, for any      *)
(* budget and timeout, and up to any number of operations                  *)
(* (semantic/provider.py:114).                                             *)
THEOREM CallsKeepTheBudget == Spec => []WithinBudget
BY AlwaysAskInv, InvBounds, PTL
-----------------------------------------------------------------------------
(***************************************************************************)
(* The status card.  A pick is recorded when the agent's loop is over, so  *)
(* until then the card may be behind: but a pick is a success, and nothing *)
(* has failed since.                                                       *)
(***************************************************************************)
Shown ==
    /\ failing => ~last.ok
    /\ pc \in Choosing /\ picks > 0 => ~failing

LEMMA InitShown == Init => Shown
BY DEF Init, Shown

(* Steps that leave the card and the picks alone.                          *)
LEMMA SameShown ==
    ASSUME Shown, UNCHANGED << last, failing >>,
           pc' \in Choosing => pc \in Choosing /\ picks' = picks
    PROVE  Shown'
BY DEF Shown

LEMMA NextShown == AskInv /\ Shown /\ [Next]_vars => Shown'
<1> SUFFICES ASSUME AskInv, Shown, [Next]_vars PROVE Shown'
  OBVIOUS
<1>1. Kinds /\ last \in [ok : BOOLEAN, picks : 0 .. MaxPicks] /\ picks \in Nat
  BY AskConstants DEF AskInv, Kinds
<1>12. CASE PickFails
  BY <1>1, <1>12 DEF PickFails, Shown, Choosing
<1>2. CASE Nest \/ UseTools \/ Play \/ Ask
  BY <1>2, SameShown DEF Nest, UseTools, Play, Ask, Dispatch, Choosing, card, agent
<1>3. CASE StopPicking
  BY <1>1, <1>3 DEF StopPicking, EndAgent, Shown, Choosing
<1>4. ASSUME NEW t \in Tools, Picked(t) PROVE Shown'
  BY <1>1, <1>4 DEF Picked, Shown
<1>5. CASE NoPick
  BY <1>1, <1>5 DEF NoPick, EndAgent, Shown, Choosing
<1>6. ASSUME NEW label \in Texts,
             \/ Pass(label) \/ Skip(label) \/ Withhold(label) \/ Send(label)
             \/ NoProse(label) \/ \E valid \in BOOLEAN : Prose(label, valid)
      PROVE  Shown'
  <2>1. After(label) \notin Choosing /\ label # "pickcall"
    BY <1>6 DEF After, Choosing, Texts
  <2>2. CASE Pass(label) \/ Withhold(label)
    BY <2>1, <2>2, SameShown DEF Pass, Withhold, card
  <2>3. CASE Skip(label)
    BY <1>1, <2>1, <2>3 DEF Skip, Fails, Shown
  <2>4. CASE Send(label)
    BY <1>6, <2>4, SameShown DEF Send, Dispatch, card, Choosing, Texts
  <2>5. CASE NoProse(label)
    BY <1>1, <2>1, <2>5 DEF NoProse, Fails, Shown
  <2>6. ASSUME NEW valid \in BOOLEAN, Prose(label, valid) PROVE Shown'
    BY <1>1, <2>1, <2>6 DEF Prose, Shown
  <2> QED BY <1>6, <2>2, <2>3, <2>4, <2>5, <2>6
<1>7. CASE Receive \/ Break \/ Tick
  BY <1>7, SameShown DEF Receive, Break, Tick, card, agent, Choosing
<1>8. CASE TimeOut
  BY <1>6, <1>8, <1>12 DEF TimeOut
<1>9. ASSUME NEW q \in Questions, Open(q) PROVE Shown'
  BY <1>9 DEF Open, Shown, card
<1>10. ASSUME NEW written \in BOOLEAN, Record(written) PROVE Shown'
  BY <1>10, SameShown DEF Record, card, Choosing
<1>11. CASE UNCHANGED vars
  BY <1>11, SameShown DEF vars, agent, card
<1> QED BY <1>2, <1>3, <1>4, <1>5, <1>6, <1>7, <1>8, <1>9, <1>10, <1>11, <1>12
        DEF Next, Answering, Provider

(* A failed explanation or rewrite shows on the status card until a call   *)
(* succeeds, in any order of picks, failures and questions                 *)
(* (semantic/provider.py:378).                                             *)
THEOREM FailuresShow == Spec => []FailureShows
<1>1. Shown => FailureShows
  BY DEF Shown, FailureShows
<1> QED BY <1>1, InitShown, NextShown, AlwaysAskInv, PTL DEF Spec
-----------------------------------------------------------------------------
(***************************************************************************)
(* A question comes to an end.                                             *)
(***************************************************************************)

(* What is left of a question: the places to come, the time of the         *)
(* operation that is waited for, and, outside a call, the time to the      *)
(* horizon.                                                                *)
LastStage == 8 + 2 * MaxPicks + Len(Playbook)
Stage ==
    CASE pc = "idle"        -> 0
      [] pc = "record"      -> 1
      [] pc = "rewritecall" -> 2
      [] pc = "rewrite"     -> 3
      [] pc = "explaincall" -> 4
      [] pc = "explain"     -> 5
      [] pc = "tools"       -> 6
      [] pc = "pickcall"    -> 5 + 2 * (MaxPicks - picks)
      [] pc = "picking"     -> 6 + 2 * (MaxPicks - picks)
      [] pc = "playbook"    -> LastStage - at
      [] pc = "opened"      -> LastStage
Quiet == IF clock < Horizon THEN Horizon - clock ELSE 0
Count(stage, w, q) == (stage * (CallCap + 1) + w) * (Horizon + 1) + q
ToGo == Count(Stage, wait, Quiet)
Longest == Count(LastStage + 1, 0, 0)

(* A received piece gives back what one timeout counts for.                *)
Piece == CallCap * (Horizon + 1)

(* A place outweighs what is left in one.                                  *)
LEMMA Outweighs ==
    ASSUME NEW h \in Nat, NEW k \in Nat, NEW most \in Nat,
           NEW x \in 0 .. most, NEW y \in 0 .. most,
           h < k \/ (h = k /\ x < y)
    PROVE  h * (most + 1) + x \in Nat /\ h * (most + 1) + x < k * (most + 1) + y
<1> DEFINE span == most + 1
<1>0. span \in Nat /\ x < span /\ y < span /\ x \in Nat /\ y \in Nat
  OBVIOUS
<1> HIDE DEF span
<1>1. h * span \in Nat /\ k * span \in Nat
  BY <1>0
<1>2. CASE h < k
  <2> DEFINE d == k - h - 1
  <2>1. d \in Nat /\ k = h + 1 + d
    BY <1>2
  <2>2. d * span \in Nat
    BY <1>0, <2>1
  <2>3. k * span = h * span + span + d * span
    BY <1>0, <2>1
  <2>4. h * span + x \in Nat /\ h * span + x < k * span + y
    BY <1>0, <1>1, <2>2, <2>3
  <2> QED BY <2>4 DEF span
<1>3. CASE h = k /\ x < y
  <2>1. h * span + x \in Nat /\ h * span + x < k * span + y
    BY <1>0, <1>1, <1>3
  <2> QED BY <2>1 DEF span
<1> QED BY <1>2, <1>3

LEMMA Outweighed ==
    ASSUME NEW s \in Nat, NEW s2 \in Nat,
           NEW w \in 0 .. CallCap, NEW w2 \in 0 .. CallCap,
           NEW q \in 0 .. Horizon, NEW q2 \in 0 .. Horizon,
           \/ s2 < s
           \/ s2 = s /\ w2 < w
           \/ s2 = s /\ w2 = w /\ q2 < q
    PROVE  Count(s2, w2, q2) \in Nat /\ Count(s2, w2, q2) < Count(s, w, q)
<1> DEFINE b(n, m) == n * (CallCap + 1) + m
           c(n, m) == n * (Horizon + 1) + m
<1>1. CallCap \in Nat /\ Horizon \in Nat
  BY AskConstants
<1>2. /\ b(s2, w2) \in Nat /\ b(s, w) \in Nat
      /\ s2 < s \/ (s2 = s /\ w2 < w) => b(s2, w2) < b(s, w)
  <2>1. b(s2, w2) \in Nat /\ b(s, w) \in Nat
    BY <1>1
  <2>2. ASSUME s2 < s \/ (s2 = s /\ w2 < w) PROVE b(s2, w2) < b(s, w)
    BY <1>1, <2>2, Outweighs
  <2> QED BY <2>1, <2>2
<1>3. s2 = s /\ w2 = w => b(s2, w2) = b(s, w)
  OBVIOUS
<1> DEFINE B == b(s, w)
           B2 == b(s2, w2)
<1>4. B \in Nat /\ B2 \in Nat /\ (B2 < B \/ (B2 = B /\ q2 < q))
  BY <1>2, <1>3
<1> HIDE DEF B, B2
<1>5. c(B2, q2) \in Nat /\ c(B2, q2) < c(B, q)
  BY <1>1, <1>4, Outweighs
<1> QED BY <1>5 DEF Count, B, B2

(* A timeout begun again counts for no more than a whole one.              *)
LEMMA GivenBack ==
    ASSUME NEW s \in Nat, NEW w \in 0 .. CallCap, NEW w2 \in 0 .. CallCap,
           NEW q \in 0 .. Horizon
    PROVE  Count(s, w2, q) <= Count(s, w, q) + Piece
<1> DEFINE h == Horizon + 1
           a == s * (CallCap + 1)
<1>1. CallCap \in Nat /\ Horizon \in Nat
  BY AskConstants
<1>2. h \in Nat /\ a \in Nat
  BY <1>1
<1> HIDE DEF h, a
<1>3. w2 \in Nat /\ w \in Nat /\ q \in Nat /\ CallCap - w2 \in Nat
  BY <1>1
<1>4. /\ a * h \in Nat /\ w * h \in Nat /\ w2 * h \in Nat /\ (CallCap - w2) * h \in Nat
      /\ (a + w) * h = a * h + w * h /\ (a + w2) * h = a * h + w2 * h
      /\ CallCap * h = w2 * h + (CallCap - w2) * h
  BY <1>1, <1>2, <1>3
<1>5. (a + w2) * h + q <= (a + w) * h + q + CallCap * h
  BY <1>1, <1>2, <1>3, <1>4
<1> QED BY <1>5 DEF Count, Piece, h, a

LEMMA QuestionDigits ==
    ASSUME AskInv
    PROVE  /\ Stage \in 0 .. LastStage /\ LastStage \in Nat
           /\ wait \in 0 .. CallCap /\ Quiet \in 0 .. Horizon
<1>1. /\ MaxPicks \in Nat /\ Len(Playbook) \in Nat /\ Horizon \in Nat
      /\ picks \in 0 .. MaxPicks /\ at \in 1 .. Len(Playbook) + 1
  BY AskConstants DEF AskInv, Kinds
<1>2. LastStage \in Nat /\ LastStage = 8 + 2 * MaxPicks + Len(Playbook)
  BY <1>1 DEF LastStage
<1>3. Stage \in {0, 1, 2, 3, 4, 5, 6, 5 + 2 * (MaxPicks - picks), 6 + 2 * (MaxPicks - picks),
                 LastStage - at, LastStage}
  BY DEF AskInv, Kinds, Calling, Stage
<1>4. Stage \in 0 .. LastStage
  BY <1>1, <1>2, <1>3
<1>5. clock \in Nat
  BY LatestIsLate DEF AskInv, Times
<1>6. Quiet \in 0 .. Horizon
  BY <1>1, <1>5 DEF Quiet
<1> QED BY <1>2, <1>4, <1>6 DEF AskInv, Kinds

(* A step of a question leaves a place behind, or time, but for a piece    *)
(* that is received.                                                       *)
LEMMA StepForward ==
    ASSUME AskInv, pc # "idle", Next
    PROVE  \/ Stage' < Stage
           \/ Stage' = Stage /\ wait' < wait
           \/ Stage' = Stage /\ wait' = wait /\ Quiet' < Quiet
           \/ Receive /\ Stage' = Stage /\ Quiet' = Quiet
<1>1. /\ MaxPicks \in Nat /\ Len(Playbook) \in Nat /\ Horizon \in Nat
      /\ picks \in 0 .. MaxPicks /\ at \in 1 .. Len(Playbook) + 1
      /\ wait \in Nat /\ clock \in 0 .. Latest /\ Latest \in Nat /\ Horizon <= Latest
  BY AskConstants, LatestIsLate DEF AskInv, Kinds, Times
<1>2. pc \in {"picking", "pickcall"} => picks < MaxPicks
  BY DEF AskInv, Picking, Choosing
<1>3. LastStage = 8 + 2 * MaxPicks + Len(Playbook)
  BY DEF LastStage
<1>4. CASE Nest
  BY <1>1, <1>3, <1>4 DEF Nest, Stage
<1>5. CASE UseTools
  BY <1>5 DEF UseTools, Stage
<1>6. CASE Play
  <2>1. picks' = picks
    BY <1>6 DEF Play
  <2>2. CASE at' = at + 1 /\ pc' = "playbook"
    <3>1. Stage = LastStage - at /\ Stage' = LastStage - (at + 1)
      BY <1>6, <2>2 DEF Play, Stage
    <3> QED BY <1>1, <1>3, <3>1
  <2>3. CASE pc' = "picking"
    <3>1. Stage = LastStage - at /\ Stage' = 6 + 2 * (MaxPicks - picks)
      BY <1>6, <2>1, <2>3 DEF Play, Stage
    <3> QED BY <1>1, <1>3, <3>1
  <2> QED BY <1>6, <2>2, <2>3 DEF Play
<1>7. CASE Ask
  <2>1. Stage = 6 + 2 * (MaxPicks - picks) /\ Stage' = 5 + 2 * (MaxPicks - picks)
    BY <1>7 DEF Ask, Dispatch, agent, Stage
  <2> QED BY <1>1, <2>1
<1>8. CASE pc \in {"picking", "pickcall"} /\ pc' = "explain"
  <2>1. Stage' = 5
    BY <1>8 DEF Stage
  <2>2. Stage = 6 + 2 * (MaxPicks - picks) \/ Stage = 5 + 2 * (MaxPicks - picks)
    BY <1>8 DEF Stage
  <2> QED BY <1>1, <1>2, <1>8, <2>1, <2>2
<1>9. CASE StopPicking \/ NoPick \/ PickFails
  BY <1>8, <1>9 DEF StopPicking, NoPick, PickFails, EndAgent
<1>10. ASSUME NEW t \in Tools, Picked(t) PROVE Stage' < Stage
  <2>1. CASE pc' = "explain"
    <3>1. Stage = 5 + 2 * (MaxPicks - picks) /\ Stage' = 5
      BY <1>10, <2>1 DEF Picked, Stage
    <3> QED BY <1>1, <1>2, <1>10, <3>1 DEF Picked
  <2>2. CASE pc' = "picking"
    <3>1. Stage = 5 + 2 * (MaxPicks - picks) /\ Stage' = 6 + 2 * (MaxPicks - (picks + 1))
      BY <1>10, <2>2 DEF Picked, Stage
    <3> QED BY <1>1, <3>1
  <2> QED BY <1>10, <2>1, <2>2 DEF Picked
<1>11. ASSUME NEW label \in Texts,
              \/ Pass(label) \/ Skip(label) \/ Withhold(label) \/ Send(label)
              \/ NoProse(label) \/ \E valid \in BOOLEAN : Prose(label, valid)
       PROVE  Stage' < Stage
  <2>1. \/ pc = "explain" /\ pc' \in {"explaincall", "rewrite"}
        \/ pc = "explaincall" /\ pc' = "rewrite"
        \/ pc = "rewrite" /\ pc' \in {"rewritecall", "record"}
        \/ pc = "rewritecall" /\ pc' = "record"
    BY <1>11 DEF Pass, Skip, Withhold, Send, Dispatch, NoProse, Prose, At, After, Texts
  <2> QED BY <2>1 DEF Stage
<1>12. CASE \E written \in BOOLEAN : Record(written)
  BY <1>12 DEF Record, Stage
<1>13. CASE Receive
  <2>1. Stage' = Stage /\ Quiet' = Quiet
    BY <1>13 DEF Receive, Stage, Quiet, agent
  <2> QED BY <1>13, <2>1
<1>14. CASE Break
  <2>1. Stage' = 0
    BY <1>14 DEF Break, Stage
  <2>2. \/ Stage \in {2, 4} \/ (pc = "pickcall" /\ Stage = 5 + 2 * (MaxPicks - picks))
    BY <1>14 DEF Break, Calling, Stage
  <2> QED BY <1>1, <2>1, <2>2
<1>15. CASE TimeOut
  BY <1>9, <1>11, <1>15 DEF TimeOut
<1>16. CASE Tick
  <2>1. Stage' = Stage
    BY <1>16 DEF Tick, Stage
  <2>2. CASE pc \in Calling
    BY <1>1, <1>16, <2>1, <2>2 DEF Tick
  <2>3. CASE pc \notin Calling
    <3>1. wait' = wait /\ clock < Horizon /\ clock' = clock + 1
      BY <1>1, <1>16, <2>3 DEF Tick, Less
    <3>2. Quiet' < Quiet
      BY <1>1, <3>1 DEF Quiet
    <3> QED BY <2>1, <3>1, <3>2
  <2> QED BY <2>2, <2>3
<1>17. ASSUME NEW q \in Questions PROVE ~ Open(q)
  BY DEF Open
<1> QED BY <1>4, <1>5, <1>6, <1>7, <1>9, <1>10, <1>11, <1>12, <1>13, <1>14, <1>15, <1>16, <1>17
        DEF Next, Answering, Provider

(* A question has no loop of its own: each step of it, the provider's and  *)
(* the clock's too, takes from a number no higher than the limits of the   *)
(* agent, the timeout of a call and the horizon allow; only a piece of an  *)
(* answer, which the provider may send as often as it likes, gives         *)
(* something back, and no more than one timeout (run_agent's loop,         *)
(* _default_post).                                                         *)
THEOREM QuestionsDescend ==
    Spec => /\ [](ToGo \in 0 .. Longest)
            /\ [][pc # "idle" => ToGo' < ToGo \/ (Receive /\ ToGo' <= ToGo + Piece)]_vars
<1> DEFINE Descent == pc # "idle" => ToGo' < ToGo \/ (Receive /\ ToGo' <= ToGo + Piece)
           Digits == /\ Stage \in 0 .. LastStage /\ LastStage \in Nat
                     /\ wait \in 0 .. CallCap /\ Quiet \in 0 .. Horizon
<1>1. AskInv => Digits
  BY QuestionDigits
<1>2. Digits => ToGo \in 0 .. Longest
  <2> SUFFICES ASSUME Digits PROVE ToGo \in 0 .. Longest
    OBVIOUS
  <2> DEFINE top == LastStage + 1
  <2>1. Stage \in Nat /\ top \in Nat /\ Stage < top
    OBVIOUS
  <2>2. CallCap \in Nat /\ Horizon \in Nat /\ 0 \in 0 .. CallCap /\ 0 \in 0 .. Horizon
    BY AskConstants
  <2> HIDE DEF top
  <2>3. ToGo \in Nat /\ ToGo < Count(top, 0, 0)
    BY <2>1, <2>2, Outweighed DEF ToGo
  <2>4. top * (CallCap + 1) + 0 \in Nat
    BY <2>1, <2>2
  <2>5. Count(top, 0, 0) \in Nat
    BY <2>2, <2>4 DEF Count
  <2>6. ToGo \in 0 .. Count(top, 0, 0)
    BY <2>3, <2>5
  <2> QED BY <2>6 DEF Longest, top
<1>3. AskInv /\ Digits /\ Digits' /\ [Next]_vars => [Descent]_vars
  <2> SUFFICES ASSUME AskInv, Digits, Digits', Next, pc # "idle"
               PROVE  ToGo' < ToGo \/ (Receive /\ ToGo' <= ToGo + Piece)
    OBVIOUS
  <2>1. Stage \in Nat /\ Stage' \in Nat
    OBVIOUS
  <2>2. CASE Receive /\ Stage' = Stage /\ Quiet' = Quiet
    <3>1. Count(Stage, wait', Quiet) <= Count(Stage, wait, Quiet) + Piece
      BY <2>1, GivenBack
    <3> QED BY <2>2, <3>1 DEF ToGo, Count
  <2>3. CASE ~ (Receive /\ Stage' = Stage /\ Quiet' = Quiet)
    <3>1. Count(Stage', wait', Quiet') < Count(Stage, wait, Quiet)
      BY <2>1, <2>3, StepForward, Outweighed
    <3> QED BY <3>1 DEF ToGo, Count
  <2> QED BY <2>2, <2>3
<1> HIDE DEF Descent, Digits
<1>4. Spec => [](ToGo \in 0 .. Longest) /\ [][Descent]_vars
  BY <1>1, <1>2, <1>3, AlwaysAskInv, PTL DEF Spec
<1> QED BY <1>4 DEF Descent
=============================================================================
