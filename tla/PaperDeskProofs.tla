-------------------------- MODULE PaperDeskProofs --------------------------
(***************************************************************************)
(* Theorems about PaperDesk for every number of sessions and script runs,  *)
(* every limit and every order: what the page does are steps of the        *)
(* service, an active kill switch lets through at most the order a session *)
(* was at, no projected position goes short, and sessions that race pass   *)
(* the session limit by less than one order each.                          *)
(***************************************************************************)
EXTENDS PaperDesk, PaperExecutionProofs, FiniteSetTheorems

-----------------------------------------------------------------------------
(* The page against the call it waits for. *)

Waiting == {"submitting", "working", "simulating"}

(* What a session's page says of the call it is in, or of the order that   *)
(* the last call returned.                                                 *)
Hand(s) ==
  /\ pc[s] # "idle" <=> page[s].stage \in Waiting
  /\ page[s].stage = "submitting" =>
       /\ pc[s] \in {"propose", "decide", "conclude"}
       /\ call[s].order.intent = page[s].intent
  /\ page[s].stage = "working" =>
       /\ pc[s] = "append"
       /\ call[s].order.intent = page[s].intent
       /\ call[s].returns = "WORKING"
  /\ page[s].stage = "simulating" => pc[s] \in {"record", "append"}
  /\ page[s].stage = "accepted" => InHand(s, "ACCEPTED") \in issued
  /\ page[s].stage = "worked" => InHand(s, "WORKING") \in issued

HandInv ==
  /\ TypeOK
  /\ DOMAIN page = Sessions
  /\ \A s \in Sessions : Hand(s)

(* A turn of one page leaves the others as they are.                       *)
LEMMA TurnEffect ==
  ASSUME DOMAIN page = Sessions, NEW s \in Sessions, NEW to, Turn(s, to)
  PROVE  /\ DOMAIN page' = Sessions
         /\ page'[s] = to
         /\ \A t \in Sessions \ {s} : page'[t] = page[t]
  BY DEF Turn

(* So does a move of one session in its call.                              *)
LEMMA GotoEffect ==
  ASSUME TypeOK, NEW s \in Sessions, NEW stage, NEW c, Goto(s, stage, c)
  PROVE  /\ pc'[s] = stage /\ call'[s] = c
         /\ \A t \in Sessions \ {s} : pc'[t] = pc[t] /\ call'[t] = call[t]
  BY DEF TypeOK, Goto

(* Whatever a session does, another one's page keeps what it had in hand.  *)
LEMMA OthersKeepHands ==
  ASSUME NEW t \in Sessions, Hand(t), page'[t] = page[t], pc'[t] = pc[t],
         call'[t] = call[t], issued \subseteq issued'
  PROVE  Hand(t)'
  BY DEF Hand, InHand

(* The step of one session: its page, its call and what is issued.         *)
LEMMA OneHandMoves ==
  ASSUME HandInv, NEW s \in Sessions, NEW to, NEW stage, NEW c,
         Turn(s, to), Goto(s, stage, c), issued \subseteq issued'
  PROVE  /\ DOMAIN page' = Sessions
         /\ page'[s] = to /\ pc'[s] = stage /\ call'[s] = c
         /\ \A t \in Sessions \ {s} : Hand(t)'
<1>1. /\ DOMAIN page' = Sessions /\ page'[s] = to
      /\ \A t \in Sessions \ {s} : page'[t] = page[t]
  BY TurnEffect DEF HandInv
<1>2. /\ pc'[s] = stage /\ call'[s] = c
      /\ \A t \in Sessions \ {s} : pc'[t] = pc[t] /\ call'[t] = call[t]
  BY GotoEffect DEF HandInv
<1>3. ASSUME NEW t \in Sessions \ {s} PROVE Hand(t)'
  BY <1>1, <1>2, OthersKeepHands DEF HandInv
<1> QED
  BY <1>1, <1>2, <1>3

(* A step of a session that is one of the service is a step of the         *)
(* service, and keeps its types.                                           *)
LEMMA ServiceStep ==
  ASSUME TypeOK, NEW s \in Sessions, Start(s) \/ Continue(s) \/ Crash(s)
  PROVE  [Next]_vars /\ TypeOK'
<1>1. [Next]_vars
  BY DEF Next
<1> QED
  BY <1>1, NextKeepsTypes

(* A page that only reads, or only sets the switch, is in no call before   *)
(* and after.                                                              *)
LEMMA QuietTurn ==
  ASSUME HandInv, NEW s \in Sessions, NEW to, pc[s] = "idle",
         to.stage \notin Waiting \cup {"accepted", "worked"},
         Turn(s, to), UNCHANGED vars
  PROVE  HandInv' /\ [Next]_vars
<1>1. /\ DOMAIN page' = Sessions /\ page'[s] = to
      /\ \A t \in Sessions \ {s} : page'[t] = page[t]
  BY TurnEffect DEF HandInv
<1>2. TypeOK'
  BY NextKeepsTypes DEF HandInv
<1>3. ASSUME NEW t \in Sessions \ {s} PROVE Hand(t)'
  BY <1>1, <1>3, OthersKeepHands DEF HandInv, vars
<1>4. Hand(s)'
  BY <1>1 DEF Hand, Waiting, vars
<1> QED
  BY <1>1, <1>2, <1>3, <1>4 DEF HandInv

(* A call that ends and closes the page leaves nothing in hand.            *)
LEMMA ClosingTurn ==
  ASSUME HandInv, NEW s \in Sessions, Turn(s, Closed), End(s),
         issued \subseteq issued', TypeOK'
  PROVE  HandInv'
<1>1. /\ DOMAIN page' = Sessions /\ page'[s] = Closed /\ pc'[s] = "idle"
      /\ \A t \in Sessions \ {s} : Hand(t)'
  BY OneHandMoves DEF End
<1>2. Hand(s)'
  BY <1>1 DEF Hand, Waiting, Closed
<1> QED
  BY <1>1, <1>2 DEF HandInv

(* Every step of the desk is a step of the service or leaves it alone, and *)
(* every page keeps what it has in hand.                                   *)
LEMMA DeskStepsServe ==
  HandInv /\ [DeskNext]_deskVars => HandInv' /\ [Next]_vars
<1> SUFFICES ASSUME HandInv, [DeskNext]_deskVars PROVE HandInv' /\ [Next]_vars
  OBVIOUS
<1>0. TypeOK /\ \A s \in Sessions : Hand(s)
  BY DEF HandInv
<1>1. ASSUME NEW s \in Sessions,
             ReadControls(s) \/ ReadPortfolio(s) \/ ReadTimeline(s)
      PROVE  HandInv' /\ [Next]_vars
  <2>1. pc[s] = "idle" /\ UNCHANGED vars
    BY <1>1 DEF ReadControls, ReadPortfolio, ReadTimeline, AtStage
  <2>2. PICK to :
          Turn(s, to) /\ to.stage \notin Waiting \cup {"accepted", "worked"}
    BY <1>1 DEF ReadControls, ReadPortfolio, ReadTimeline, Waiting
  <2> QED
    BY <2>1, <2>2, QuietTurn
<1>2. ASSUME NEW s \in Sessions, NEW active \in BOOLEAN,
             SetKillSwitch(s, active)
      PROVE  HandInv' /\ [Next]_vars
  <2>1. /\ pc[s] = "idle" /\ Turn(s, Closed) /\ UNCHANGED vars
        /\ Closed.stage \notin Waiting \cup {"accepted", "worked"}
    BY <1>2 DEF SetKillSwitch, AtStage, Waiting, Closed
  <2> QED
    BY <2>1, QuietTurn
<1>3. ASSUME NEW s \in Sessions, NEW intent \in Intents, NEW mark \in Prices,
             NEW at \in Stamps, PageSubmit(s, intent, mark, at)
      PROVE  HandInv' /\ [Next]_vars
  <2>1. PICK allowed \in BOOLEAN : Submit(s, intent, at, allowed)
    BY <1>3 DEF PageSubmit
  <2>2. Start(s)
    BY <2>1 DEF Start
  <2>3. PICK c :
          /\ Goto(s, "propose", c) /\ UNCHANGED issued
          /\ c.order.intent = intent
    BY <2>1 DEF Submit
  <2> DEFINE to == [stage |-> "submitting", intent |-> intent]
  <2>4. /\ DOMAIN page' = Sessions
        /\ page'[s] = to /\ pc'[s] = "propose" /\ call'[s] = c
        /\ \A t \in Sessions \ {s} : Hand(t)'
    BY <1>3, <2>3, OneHandMoves DEF PageSubmit
  <2>5. Hand(s)'
    BY <2>3, <2>4 DEF Hand, Waiting
  <2> QED
    BY <1>0, <2>2, <2>4, <2>5, ServiceStep DEF HandInv
<1>4. ASSUME NEW s \in Sessions, NEW intent \in Intents,
             PageDuplicate(s, intent)
      PROVE  HandInv' /\ [Next]_vars
  <2>1. Start(s)
    BY <1>4 DEF PageDuplicate, Start
  <2>2. Turn(s, Closed) /\ End(s) /\ issued \subseteq issued'
    BY <1>4 DEF PageDuplicate, DuplicateSubmit, Return
  <2> QED
    BY <1>0, <2>1, <2>2, ServiceStep, ClosingTurn
<1>5. ASSUME NEW s \in Sessions, PageConclude(s)
      PROVE  HandInv' /\ [Next]_vars
  <2>1. /\ Continue(s) /\ pc[s] = "conclude" /\ End(s)
        /\ issued' = issued \cup { [ intent |-> call[s].order.intent,
                                     status |-> call[s].returns ] }
    BY <1>5 DEF PageConclude, Conclude, Continue, Return
  <2>2. call[s].order.intent = page[s].intent
    BY <1>0, <2>1 DEF Hand, Waiting
  <2>3. CASE call[s].returns = "ACCEPTED"
    <3> DEFINE to == [stage |-> "accepted", intent |-> page[s].intent]
    <3>1. Turn(s, to)
      BY <1>5, <2>3 DEF PageConclude
    <3>2. /\ DOMAIN page' = Sessions
          /\ page'[s] = to /\ pc'[s] = "idle"
          /\ \A t \in Sessions \ {s} : Hand(t)'
      BY <2>1, <3>1, OneHandMoves DEF End
    <3>3. Hand(s)'
      BY <2>1, <2>2, <2>3, <3>2 DEF Hand, InHand, Waiting
    <3> QED
      BY <1>0, <2>1, <3>2, <3>3, ServiceStep DEF HandInv
  <2>4. CASE call[s].returns # "ACCEPTED"
    <3>1. Turn(s, Closed)
      BY <1>5, <2>4 DEF PageConclude
    <3> QED
      BY <1>0, <2>1, <3>1, ServiceStep, ClosingTurn
  <2> QED
    BY <2>3, <2>4
<1>6. ASSUME NEW s \in Sessions, NEW at \in Stamps, PageWork(s, at)
      PROVE  HandInv' /\ [Next]_vars
  <2> DEFINE order == InHand(s, "ACCEPTED")
             to == [stage |-> "working", intent |-> page[s].intent]
             c == [ order |-> order,
                    event |-> TermsEvent("ORDER_WORKING", order.intent, at),
                    returns |-> "WORKING" ]
  <2>1. order \in issued /\ order.intent = page[s].intent
    BY <1>0, <1>6 DEF PageWork, AtStage, Hand, InHand
  <2>2. Work(s, order, at)
    BY <1>6 DEF PageWork
  <2>3. Start(s)
    BY <2>1, <2>2 DEF Start
  <2>4. Turn(s, to) /\ Goto(s, "append", c) /\ UNCHANGED issued
    BY <1>6, <2>2 DEF PageWork, Work, WillAppend
  <2>5. /\ DOMAIN page' = Sessions
        /\ page'[s] = to /\ pc'[s] = "append" /\ call'[s] = c
        /\ \A t \in Sessions \ {s} : Hand(t)'
    BY <2>4, OneHandMoves
  <2>6. Hand(s)'
    BY <2>1, <2>5 DEF Hand, Waiting
  <2> QED
    BY <1>0, <2>3, <2>5, <2>6, ServiceStep DEF HandInv
<1>7. ASSUME NEW s \in Sessions, NEW a \in Assumptions, NEW at \in Stamps,
             PageSimulate(s, a, at)
      PROVE  HandInv' /\ [Next]_vars
  <2> DEFINE order == InHand(s, "WORKING")
             to == [stage |-> "simulating", intent |-> page[s].intent]
  <2>1. order \in issued
    BY <1>0, <1>7 DEF PageSimulate, AtStage, Hand
  <2>2. SimulateNoFill(s, order, a, at) \/ SimulateLimitFill(s, order, a, at)
    BY <1>7 DEF PageSimulate
  <2>3. Start(s)
    BY <2>1, <2>2 DEF Start
  <2>4. PICK stage, c :
          stage \in {"record", "append"} /\ Goto(s, stage, c)
    BY <2>2 DEF SimulateNoFill, SimulateLimitFill, WillAppend
  <2>5. Turn(s, to) /\ UNCHANGED issued
    BY <1>7 DEF PageSimulate, SimulateNoFill, SimulateLimitFill
  <2>6. /\ DOMAIN page' = Sessions
        /\ page'[s] = to /\ pc'[s] = stage
        /\ \A t \in Sessions \ {s} : Hand(t)'
    BY <2>4, <2>5, OneHandMoves
  <2>7. Hand(s)'
    BY <2>4, <2>6 DEF Hand, Waiting
  <2> QED
    BY <1>0, <2>3, <2>6, <2>7, ServiceStep DEF HandInv
<1>8. ASSUME NEW s \in Sessions, PageRetain(s)
      PROVE  HandInv' /\ [Next]_vars
  <2>1. /\ Continue(s) /\ pc[s] = "append" /\ End(s)
        /\ issued' = issued \cup { [ intent |-> call[s].order.intent,
                                     status |-> call[s].returns ] }
    BY <1>8 DEF PageRetain, Retain, Continue, Return
  <2>2. CASE page[s].stage = "working"
    <3> DEFINE to == [stage |-> "worked", intent |-> page[s].intent]
    <3>1. /\ call[s].order.intent = page[s].intent
          /\ call[s].returns = "WORKING"
      BY <1>0, <2>2 DEF Hand
    <3>2. Turn(s, to)
      BY <1>8, <2>2 DEF PageRetain
    <3>3. /\ DOMAIN page' = Sessions
          /\ page'[s] = to /\ pc'[s] = "idle"
          /\ \A t \in Sessions \ {s} : Hand(t)'
      BY <2>1, <3>2, OneHandMoves DEF End
    <3>4. Hand(s)'
      BY <2>1, <3>1, <3>3 DEF Hand, InHand, Waiting
    <3> QED
      BY <1>0, <2>1, <3>3, <3>4, ServiceStep DEF HandInv
  <2>3. CASE page[s].stage # "working"
    <3>1. Turn(s, Closed)
      BY <1>8, <2>3 DEF PageRetain
    <3> QED
      BY <1>0, <2>1, <3>1, ServiceStep, ClosingTurn
  <2> QED
    BY <2>2, <2>3
<1>9. ASSUME NEW s \in Sessions, PageContinue(s)
      PROVE  HandInv' /\ [Next]_vars
  <2>1. Continue(s) /\ UNCHANGED issued
    BY <1>9 DEF PageContinue, Continue, Propose, Decide, RecordFill
  <2>2. CASE Propose(s) \/ Decide(s)
    <3>1. PICK event :
            \/ Goto(s, "decide", [call[s] EXCEPT !.event = event])
            \/ Goto(s, "conclude", [call[s] EXCEPT !.event = event])
      BY <2>2 DEF Propose, Decide
    <3>2. /\ pc'[s] \in {"decide", "conclude"}
          /\ call'[s] = [call[s] EXCEPT !.event = event]
          /\ \A t \in Sessions \ {s} : pc'[t] = pc[t] /\ call'[t] = call[t]
      BY <1>0, <3>1, GotoEffect
    <3>3. UNCHANGED page
      BY <1>9, <3>1, <3>2 DEF PageContinue
    <3>4. /\ page[s].stage = "submitting"
          /\ call[s].order.intent = page[s].intent
          /\ call[s] \in Call
      <4>1. pc[s] \in {"propose", "decide"}
        BY <2>2 DEF Propose, Decide
      <4> QED
        BY <1>0, <4>1, CallTypes DEF Hand, Waiting
    <3>5. call'[s].order.intent = page[s].intent
      BY <3>2, <3>4 DEF Call
    <3>6. Hand(s)'
      BY <3>1, <3>2, <3>3, <3>4, <3>5 DEF Hand, Waiting
    <3>7. ASSUME NEW t \in Sessions \ {s} PROVE Hand(t)'
      BY <1>0, <2>1, <3>2, <3>3, OthersKeepHands
    <3> QED
      BY <1>0, <2>1, <3>3, <3>6, <3>7, ServiceStep DEF HandInv
  <2>3. CASE RecordFill(s)
    <3>1. page[s].stage = "simulating"
      BY <1>0, <2>3 DEF RecordFill, Hand, Waiting
    <3>2. CASE End(s)
      <4>1. pc'[s] = "idle"
        BY <1>0, <3>2, GotoEffect DEF End
      <4>2. Turn(s, Closed)
        BY <1>9, <4>1 DEF PageContinue
      <4> QED
        BY <1>0, <2>1, <3>2, <4>2, ServiceStep, ClosingTurn
    <3>3. CASE \E c : Goto(s, "append", c)
      <4>1. /\ pc'[s] = "append"
            /\ \A t \in Sessions \ {s} :
                 pc'[t] = pc[t] /\ call'[t] = call[t]
        BY <1>0, <3>3, GotoEffect
      <4>2. UNCHANGED page
        BY <1>9, <4>1 DEF PageContinue
      <4>3. Hand(s)'
        BY <3>1, <4>1, <4>2 DEF Hand, Waiting
      <4>4. ASSUME NEW t \in Sessions \ {s} PROVE Hand(t)'
        BY <1>0, <2>1, <4>1, <4>2, OthersKeepHands
      <4> QED
        BY <1>0, <2>1, <4>2, <4>3, <4>4, ServiceStep DEF HandInv
    <3> QED
      BY <2>3, <3>2, <3>3 DEF RecordFill, WillAppend
  <2> QED
    BY <1>9, <2>2, <2>3 DEF PageContinue
<1>10. ASSUME NEW s \in Sessions, PageRefused(s)
       PROVE  HandInv' /\ [Next]_vars
  <2>1. Continue(s) /\ Turn(s, Closed) /\ End(s) /\ UNCHANGED issued
    BY <1>10 DEF PageRefused, RefusedAppend, Continue
  <2> QED
    BY <1>0, <2>1, ServiceStep, ClosingTurn
<1>11. ASSUME NEW s \in Sessions, Leave(s)
       PROVE  HandInv' /\ [Next]_vars
  <2>1. CASE pc[s] = "idle"
    <3>1. /\ Turn(s, Closed) /\ UNCHANGED vars
          /\ Closed.stage \notin Waiting \cup {"accepted", "worked"}
      BY <1>11, <2>1 DEF Leave, Waiting, Closed
    <3> QED
      BY <2>1, <3>1, QuietTurn
  <2>2. CASE pc[s] # "idle"
    <3>1. Crash(s) /\ Turn(s, Closed) /\ End(s) /\ UNCHANGED issued
      BY <1>11, <2>2 DEF Leave, Crash
    <3> QED
      BY <1>0, <3>1, ServiceStep, ClosingTurn
  <2> QED
    BY <2>1, <2>2
<1>12. CASE UNCHANGED deskVars
  <2>1. UNCHANGED <<vars, page>>
    BY <1>12 DEF deskVars
  <2>2. TypeOK'
    BY <1>0, <2>1, NextKeepsTypes
  <2>3. ASSUME NEW t \in Sessions PROVE Hand(t)'
    BY <1>0, <2>1, OthersKeepHands DEF vars
  <2> QED
    BY <2>1, <2>2, <2>3 DEF HandInv
<1> QED
  BY <1>1, <1>2, <1>3, <1>4, <1>5, <1>6, <1>7, <1>8, <1>9, <1>10, <1>11,
     <1>12 DEF DeskNext

(* At first no page is open.                                               *)
LEMMA DeskStartsServing == DeskInit => HandInv /\ Init
<1> SUFFICES ASSUME DeskInit PROVE HandInv /\ Init
  OBVIOUS
<1>1. Init /\ page = [s \in Sessions |-> Closed]
  BY DEF DeskInit
<1>2. TypeOK /\ pc = [s \in Sessions |-> "idle"]
  BY <1>1, InitTypes DEF Init
<1>3. \A s \in Sessions : Hand(s)
  BY <1>1, <1>2 DEF Hand, Closed, Waiting
<1> QED
  BY <1>1, <1>2, <1>3 DEF HandInv

(* The page is a client of the service and nothing else: whatever its      *)
(* sessions do is a behaviour of PaperExecution, whose theorems thereby    *)
(* hold of the desk.                                                       *)
THEOREM DeskUsesTheService == DeskSpec => Spec /\ []HandInv
  BY DeskStartsServing, DeskStepsServe, PTL DEF DeskSpec, Spec

(* Risk evidence comes first in what the desk retains.                     *)
THEOREM DeskRiskComesFirst == DeskSpec => []RiskFirst
  BY DeskUsesTheService, RiskComesFirst, PTL

(* The portfolio and the audit timeline that the page shows side by side   *)
(* never part silently, from each other or from the service.               *)
THEOREM DeskReplaysAgree == DeskSpec => [](DivergenceIsFlagged /\ AuditTracksReplay)
  BY DeskUsesTheService, ReplaysPartOpenly, AuditIsAThirdReplay, PTL

-----------------------------------------------------------------------------
(* The kill switch. *)

(* A session that may still come to accept an order on what it has read.   *)
Approving(s) ==
  \/ page[s].stage \in {"controls", "portfolio", "ready"} /\ ~page[s].kill
  \/ page[s].stage = "submitting" /\ call[s].returns = "ACCEPTED"

(* While the switch is active, a session that has accepted an order since  *)
(* is not about to accept another.                                         *)
KillInv ==
  /\ HandInv
  /\ killed \in BOOLEAN
  /\ late \in [Sessions -> 0..1]
  /\ \A s \in Sessions : killed /\ late[s] = 1 => ~Approving(s)

(* A session that does nothing is no nearer to an acceptance.              *)
LEMMA OthersApproveNoMore ==
  ASSUME NEW t \in Sessions, Approving(t)', page'[t] = page[t],
         call'[t] = call[t]
  PROVE  Approving(t)
  BY DEF Approving

(* A step that leaves the switch and the counts alone need only keep its   *)
(* own session from approving anew.                                        *)
LEMMA OneNoNearer ==
  ASSUME KillInv, HandInv', UNCHANGED <<killed, late>>, NEW s \in Sessions,
         \A t \in Sessions \ {s} : page'[t] = page[t] /\ call'[t] = call[t],
         killed /\ Approving(s)' => Approving(s)
  PROVE  KillInv'
<1>1. ASSUME NEW t \in Sessions, killed', late'[t] = 1, Approving(t)'
      PROVE  FALSE
  <2>1. killed /\ late[t] = 1 /\ ~Approving(t)
    BY <1>1 DEF KillInv
  <2>2. CASE t = s
    BY <1>1, <2>1, <2>2
  <2>3. CASE t # s
    BY <1>1, <2>1, <2>3, OthersApproveNoMore
  <2> QED
    BY <2>2, <2>3
<1> QED
  BY <1>1 DEF KillInv

(* Every step of the desk keeps the switch's promise.                      *)
LEMMA DeskStepsMindTheSwitch == KillInv /\ [DeskNext]_deskVars => KillInv'
<1> SUFFICES ASSUME KillInv, [DeskNext]_deskVars PROVE KillInv'
  OBVIOUS
<1>0. /\ TypeOK /\ DOMAIN page = Sessions /\ \A s \in Sessions : Hand(s)
      /\ HandInv /\ HandInv'
  BY DeskStepsServe DEF KillInv, HandInv
<1>a. ASSUME NEW s \in Sessions, UNCHANGED <<killed, late>>,
             NEW to, Turn(s, to),
             \/ UNCHANGED call
             \/ \E stage, c : Goto(s, stage, c),
             killed /\ Approving(s)' => Approving(s)
      PROVE  KillInv'
  <2>1. \A t \in Sessions \ {s} : page'[t] = page[t]
    BY <1>0, <1>a, TurnEffect
  <2>2. \A t \in Sessions \ {s} : call'[t] = call[t]
    BY <1>0, <1>a, GotoEffect
  <2> QED
    BY <1>a, <1>0, <2>1, <2>2, OneNoNearer
<1>b. ASSUME NEW s \in Sessions, UNCHANGED <<killed, late>>, Turn(s, Closed),
             UNCHANGED call \/ End(s)
      PROVE  KillInv'
  <2>1. page'[s] = Closed
    BY <1>0, <1>b, TurnEffect
  <2>2. ~Approving(s)'
    BY <2>1 DEF Approving, Closed
  <2> QED
    BY <1>a, <1>b, <2>2 DEF End
<1>1. ASSUME NEW s \in Sessions,
             ReadControls(s) \/ ReadPortfolio(s) \/ ReadTimeline(s)
      PROVE  KillInv'
  <2>1. /\ UNCHANGED <<killed, late, call>>
        /\ page[s].stage \in {"closed", "controls", "portfolio"}
    BY <1>1 DEF ReadControls, ReadPortfolio, ReadTimeline, AtStage, vars
  <2>2. PICK to :
          /\ Turn(s, to) /\ to.stage \in {"controls", "portfolio", "ready"}
          /\ \/ to.kill = killed
             \/ /\ to.kill = page[s].kill
                /\ page[s].stage \in {"controls", "portfolio"}
    BY <1>1 DEF ReadControls, ReadPortfolio, ReadTimeline, AtStage
  <2>3. page'[s] = to
    BY <1>0, <2>2, TurnEffect
  <2>4. killed /\ Approving(s)' => Approving(s)
    BY <2>2, <2>3 DEF Approving
  <2> QED
    BY <1>a, <2>1, <2>2, <2>4
<1>2. ASSUME NEW s \in Sessions, NEW active \in BOOLEAN,
             SetKillSwitch(s, active)
      PROVE  KillInv'
  <2>1. /\ killed' = active /\ Turn(s, Closed) /\ UNCHANGED call
        /\ killed \in BOOLEAN /\ late \in [Sessions -> 0..1]
        /\ late' = IF active /\ ~killed THEN [t \in Sessions |-> 0] ELSE late
    BY <1>2 DEF SetKillSwitch, vars, KillInv
  <2>2. page'[s] = Closed /\ \A t \in Sessions \ {s} : page'[t] = page[t]
    BY <1>0, <2>1, TurnEffect
  <2>3. ASSUME NEW t \in Sessions, killed', late'[t] = 1, Approving(t)'
        PROVE  FALSE
    <3>1. active /\ killed /\ late[t] = 1
      BY <2>1, <2>3
    <3>2. ~Approving(t)
      BY <3>1 DEF KillInv
    <3>3. CASE t = s
      BY <2>2, <2>3, <3>3 DEF Approving, Closed
    <3>4. CASE t # s
      BY <2>1, <2>2, <2>3, <3>2, <3>4, OthersApproveNoMore
    <3> QED
      BY <3>3, <3>4
  <2>4. killed' \in BOOLEAN /\ late' \in [Sessions -> 0..1]
    BY <2>1
  <2> QED
    BY <1>0, <2>3, <2>4 DEF KillInv
<1>3. ASSUME NEW s \in Sessions, NEW intent \in Intents, NEW mark \in Prices,
             NEW at \in Stamps, PageSubmit(s, intent, mark, at)
      PROVE  KillInv'
  <2>1. PICK allowed \in BOOLEAN :
          /\ allowed => Gate(page[s].kill, page[s].figures, intent, mark)
          /\ Submit(s, intent, at, allowed)
    BY <1>3 DEF PageSubmit
  <2>2. PICK c :
          /\ Goto(s, "propose", c)
          /\ c.returns = IF allowed THEN "ACCEPTED" ELSE "REJECTED"
    BY <2>1 DEF Submit
  <2> DEFINE to == [stage |-> "submitting", intent |-> intent]
  <2>3. /\ page[s].stage = "ready" /\ Turn(s, to)
        /\ UNCHANGED <<killed, late>>
    BY <1>3 DEF PageSubmit, AtStage
  <2>4. page'[s] = to /\ call'[s] = c
    BY <1>0, <2>2, <2>3, TurnEffect, GotoEffect
  <2>5. Approving(s)' => Approving(s)
    <3>1. SUFFICES ASSUME Approving(s)' PROVE Approving(s)
      OBVIOUS
    <3>2. c.returns = "ACCEPTED"
      BY <2>4, <3>1 DEF Approving
    <3>3. ~page[s].kill
      BY <2>1, <2>2, <3>2 DEF Gate
    <3> QED
      BY <2>3, <3>3 DEF Approving
  <2> QED
    BY <1>a, <2>2, <2>3, <2>5
<1>4. ASSUME NEW s \in Sessions, NEW intent \in Intents,
             PageDuplicate(s, intent)
      PROVE  KillInv'
  BY <1>4, <1>b DEF PageDuplicate, DuplicateSubmit, Return
<1>5. ASSUME NEW s \in Sessions, PageConclude(s)
      PROVE  KillInv'
  <2>1. pc[s] = "conclude" /\ End(s) /\ UNCHANGED killed
    BY <1>5 DEF PageConclude, Conclude, Return
  <2>2. page[s].stage = "submitting"
    BY <1>0, <2>1 DEF Hand, Waiting
  <2>3. CASE call[s].returns = "ACCEPTED"
    <3> DEFINE to == [stage |-> "accepted", intent |-> page[s].intent]
    <3>1. /\ Turn(s, to)
          /\ late' = [late EXCEPT ![s] = IF killed THEN @ + 1 ELSE @]
          /\ late \in [Sessions -> 0..1] /\ killed \in BOOLEAN
      BY <1>5, <2>3 DEF PageConclude, KillInv
    <3>2. killed => late[s] = 0
      <4>1. Approving(s)
        BY <2>2, <2>3 DEF Approving
      <4>2. killed => late[s] # 1
        BY <4>1 DEF KillInv
      <4> QED
        BY <3>1, <4>2
    <3>3. late' \in [Sessions -> 0..1] /\ killed' \in BOOLEAN
      BY <2>1, <3>1, <3>2
    <3>4. /\ page'[s] = to
          /\ \A t \in Sessions \ {s} :
               page'[t] = page[t] /\ call'[t] = call[t] /\ late'[t] = late[t]
      BY <1>0, <2>1, <3>1, TurnEffect, GotoEffect DEF End
    <3>5. ASSUME NEW t \in Sessions, killed', late'[t] = 1, Approving(t)'
          PROVE  FALSE
      <4>1. CASE t = s
        BY <3>4, <3>5, <4>1 DEF Approving
      <4>2. CASE t # s
        <5>1. killed /\ late[t] = 1 /\ Approving(t)
          BY <2>1, <3>4, <3>5, <4>2, OthersApproveNoMore
        <5> QED
          BY <5>1 DEF KillInv
      <4> QED
        BY <4>1, <4>2
    <3> QED
      BY <1>0, <3>3, <3>5 DEF KillInv
  <2>4. CASE call[s].returns # "ACCEPTED"
    BY <1>5, <1>b, <2>1, <2>4 DEF PageConclude
  <2> QED
    BY <2>3, <2>4
<1>6. ASSUME NEW s \in Sessions, NEW at \in Stamps,
             \/ PageWork(s, at)
             \/ \E a \in Assumptions : PageSimulate(s, a, at)
      PROVE  KillInv'
  <2>1. PICK to :
          Turn(s, to) /\ to.stage \in {"working", "simulating"}
    BY <1>6 DEF PageWork, PageSimulate
  <2>2. page'[s] = to
    BY <1>0, <2>1, TurnEffect
  <2>3. ~Approving(s)'
    BY <2>1, <2>2 DEF Approving
  <2>4. \E stage, c : Goto(s, stage, c)
    BY <1>6 DEF PageWork, Work, PageSimulate, SimulateNoFill,
                SimulateLimitFill, WillAppend
  <2>5. UNCHANGED <<killed, late>>
    BY <1>6 DEF PageWork, PageSimulate
  <2> QED
    BY <1>a, <2>1, <2>3, <2>4, <2>5
<1>7. ASSUME NEW s \in Sessions, PageRetain(s)
      PROVE  KillInv'
  <2>1. PICK to : Turn(s, to) /\ to.stage \in {"worked", "closed"}
    BY <1>7 DEF PageRetain, Closed
  <2>2. page'[s] = to
    BY <1>0, <2>1, TurnEffect
  <2>3. ~Approving(s)'
    BY <2>1, <2>2 DEF Approving
  <2>4. UNCHANGED <<killed, late>> /\ \E stage, c : Goto(s, stage, c)
    BY <1>7 DEF PageRetain, Retain, Return, End
  <2> QED
    BY <1>a, <2>1, <2>3, <2>4
<1>8. ASSUME NEW s \in Sessions, PageContinue(s)
      PROVE  KillInv'
  <2>1. UNCHANGED <<killed, late>> /\ (Turn(s, Closed) \/ UNCHANGED page)
    BY <1>8 DEF PageContinue
  <2>2. CASE Propose(s) \/ Decide(s)
    <3>1. PICK event :
            \/ Goto(s, "decide", [call[s] EXCEPT !.event = event])
            \/ Goto(s, "conclude", [call[s] EXCEPT !.event = event])
      BY <2>2 DEF Propose, Decide
    <3>2. /\ pc'[s] \in {"decide", "conclude"}
          /\ call'[s] = [call[s] EXCEPT !.event = event]
          /\ \A t \in Sessions \ {s} : call'[t] = call[t]
      BY <1>0, <3>1, GotoEffect
    <3>3. UNCHANGED page
      BY <1>8, <3>1, <3>2 DEF PageContinue
    <3>4. call[s] \in Call
      BY <1>0, <2>2, CallTypes DEF Propose, Decide
    <3>5. call'[s].returns = call[s].returns
      BY <3>2, <3>4 DEF Call
    <3>6. Approving(s)' => Approving(s)
      BY <3>3, <3>5 DEF Approving
    <3> QED
      BY <1>0, <2>1, <3>2, <3>3, <3>6, OneNoNearer
  <2>3. CASE RecordFill(s)
    <3>1. page[s].stage = "simulating"
      BY <1>0, <2>3 DEF RecordFill, Hand, Waiting
    <3>2. \E stage, c : Goto(s, stage, c)
      BY <2>3 DEF RecordFill, WillAppend, End
    <3>3. /\ \A t \in Sessions \ {s} :
               page'[t] = page[t] /\ call'[t] = call[t]
          /\ page'[s] \in {page[s], Closed}
      BY <1>0, <2>1, <3>2, GotoEffect, TurnEffect
    <3>4. ~Approving(s)'
      BY <3>1, <3>3 DEF Approving, Closed
    <3> QED
      BY <1>0, <2>1, <3>3, <3>4, OneNoNearer
  <2> QED
    BY <1>8, <2>2, <2>3 DEF PageContinue
<1>9. ASSUME NEW s \in Sessions, PageRefused(s) \/ Leave(s)
      PROVE  KillInv'
  BY <1>9, <1>b DEF PageRefused, RefusedAppend, Leave, Crash, vars
<1>10. CASE UNCHANGED deskVars
  <2>1. UNCHANGED <<killed, late, page, call>>
    BY <1>10 DEF deskVars, vars
  <2>2. ASSUME NEW t \in Sessions, killed', late'[t] = 1, Approving(t)'
        PROVE  FALSE
    BY <2>1, <2>2, OthersApproveNoMore DEF KillInv
  <2> QED
    BY <1>0, <2>1, <2>2 DEF KillInv
<1> QED
  BY <1>1, <1>2, <1>3, <1>4, <1>5, <1>6, <1>7, <1>8, <1>9, <1>10 DEF DeskNext

(* Once the kill switch is active a session accepts at most the order its  *)
(* run was at, for any number of sessions, runs and orders.                *)
THEOREM KillSwitchWins == DeskSpec => []KillSwitchBites
<1>1. DeskInit => KillInv
  <2> SUFFICES ASSUME DeskInit PROVE KillInv
    OBVIOUS
  <2>1. HandInv /\ killed = FALSE /\ late = [s \in Sessions |-> 0]
    BY DeskStartsServing DEF DeskInit
  <2>2. late \in [Sessions -> 0..1] /\ \A s \in Sessions : late[s] # 1
    BY <2>1
  <2>3. killed \in BOOLEAN
    BY <2>1
  <2> QED
    BY <2>1, <2>2, <2>3 DEF KillInv
<1>2. KillInv => KillSwitchBites
  BY DEF KillInv, KillSwitchBites
<1> QED
  BY <1>1, <1>2, DeskStepsMindTheSwitch, PTL DEF DeskSpec

-----------------------------------------------------------------------------
(* Positions. *)

(* An event that fits leaves no position short.                            *)
LEMMA ProjectionStaysLong ==
  ASSUME NEW p \in Portfolio, NEW e \in PaperEvent,
         \A i \in Instruments : p.positions[i] >= 0
  PROVE  \A i \in Instruments : ProjectEvent(p, e).positions[i] >= 0
<1>1. /\ p.positions \in [Instruments -> Int] /\ e.instrument_id \in Instruments
      /\ e.quantity \in Nat /\ e.side \in OrderSide \cup {NoSide}
  BY DEF Portfolio, PaperEvent
<1>2. CASE Projectable(p, e)
  <2>1. p.positions[e.instrument_id] + PositionMove(e) >= 0
    <3>1. CASE e.type \in FillEvents
      <4>1. /\ e.side # NoSide
            /\ e.side = "SELL" => e.quantity <= p.positions[e.instrument_id]
        BY <1>2, <3>1 DEF Projectable, FillFits
      <4> QED
        BY <1>1, <3>1, <4>1 DEF PositionMove, OrderSide
    <3>2. CASE e.type \notin FillEvents
      BY <1>1, <3>2 DEF PositionMove
    <3> QED
      BY <3>1, <3>2
  <2>2. ProjectEvent(p, e).positions =
          [p.positions EXCEPT ![e.instrument_id] = @ + PositionMove(e)]
    BY <1>2 DEF ProjectEvent, Portfolio
  <2> QED
    BY <1>1, <2>1, <2>2
<1>3. CASE ~Projectable(p, e)
  BY <1>3 DEF ProjectEvent, Portfolio
<1> QED
  BY <1>2, <1>3

(* What is projected never goes short, whatever sessions race to sell.     *)
THEOREM PositionsAreLong == Spec => []PositionsStayLong
<1>1. Init => PositionsStayLong
  BY DEF Init, EmptyPortfolio, PositionsStayLong
<1>2. TypeOK /\ PositionsStayLong /\ [Next]_vars => PositionsStayLong'
  <2> SUFFICES ASSUME TypeOK, PositionsStayLong, [Next]_vars
               PROVE  PositionsStayLong'
    OBVIOUS
  <2>1. ASSUME NEW s \in Sessions, pc[s] # "idle", AppendEvent(call[s].event)
        PROVE  PositionsStayLong'
    <3>1. call[s].event \in PaperEvent /\ portfolio \in Portfolio
      BY <2>1, CallTypes DEF TypeOK
    <3>2. portfolio' \in {portfolio, ProjectEvent(portfolio, call[s].event)}
      BY <2>1 DEF AppendEvent
    <3> QED
      BY <3>1, <3>2, ProjectionStaysLong DEF PositionsStayLong
  <2>2. CASE UNCHANGED portfolio
    BY <2>2 DEF PositionsStayLong
  <2>3. ASSUME NEW s \in Sessions, Start(s) \/ Crash(s)
        PROVE  UNCHANGED portfolio
    BY <2>3
    DEF Start, Submit, DuplicateSubmit, Work, Cancel, Reconcile, Fill,
        SimulateNoFill, SimulateLimitFill, Crash, ledgerVars
  <2>4. ASSUME NEW s \in Sessions, RecordFill(s) \/ RefusedAppend(s)
        PROVE  UNCHANGED portfolio
    BY <2>4 DEF RecordFill, RefusedAppend, ledgerVars
  <2>5. ASSUME NEW s \in Sessions,
               Propose(s) \/ Decide(s) \/ Conclude(s) \/ Retain(s)
        PROVE  pc[s] # "idle" /\ AppendEvent(call[s].event)
    BY <2>5 DEF Propose, Decide, Conclude, Retain
  <2> QED
    BY <2>1, <2>2, <2>3, <2>4, <2>5 DEF Next, Continue, vars
<1> QED
  BY <1>1, <1>2, TypeCorrect, PTL DEF Spec

(* Nor on the desk.                                                        *)
THEOREM DeskPositionsAreLong == DeskSpec => []PositionsStayLong
  BY DeskUsesTheService, PositionsAreLong, PTL

-----------------------------------------------------------------------------
(* What counts towards the limits. *)

(* What the retention of one more event does to the figures: only an       *)
(* acceptance, a legacy submission or a reconciliation makes an order      *)
(* count, and only that one.                                               *)
LEMMA ProjectionCounts ==
  ASSUME NEW p \in Portfolio, NEW e \in PaperEvent
  PROVE  /\ SessionOrders(ProjectEvent(p, e)) \subseteq SessionOrders(p) \cup {e.order_id}
         /\ e.type \notin {"ORDER_ACCEPTED", "ORDER_SUBMITTED",
                           "RECONCILIATION_RECORDED"} =>
              SessionOrders(ProjectEvent(p, e)) \subseteq SessionOrders(p)
         /\ OpenPositions(ProjectEvent(p, e))
              \subseteq OpenPositions(p) \cup {e.instrument_id}
<1> DEFINE o == p.orders[e.order_id]
           q == ProjectEvent(p, e)
<1>1. /\ p.orders \in [OrderIds -> ProjectedOrder]
      /\ p.positions \in [Instruments -> Int]
      /\ e.order_id \in OrderIds /\ e.instrument_id \in Instruments
      /\ o \in ProjectedOrder
  BY DEF Portfolio, PaperEvent
<1>2. CASE Projectable(p, e)
  <2>1. /\ q.orders = [p.orders EXCEPT ![e.order_id] = Projected(o, e)]
        /\ q.positions = [p.positions EXCEPT ![e.instrument_id] =
                            p.positions[e.instrument_id] + PositionMove(e)]
    BY <1>2, ProjectEventEffect
  <2>2. \A x \in OrderIds :
          q.orders[x] = IF x = e.order_id THEN Projected(o, e) ELSE p.orders[x]
    BY <1>1, <2>1
  <2>3. Projected(o, e).status = Apply(o.status, e.type, e.allowed)
    BY <1>1 DEF Projected, Noted, ProjectedOrder
  <2>4. Apply(o.status, e.type, e.allowed) # OutOfSequence
    BY <1>2 DEF Projectable
  <2>5. ASSUME e.type \notin {"ORDER_ACCEPTED", "ORDER_SUBMITTED",
                              "RECONCILIATION_RECORDED"},
               Projected(o, e).status \in Counted
        PROVE  o.status \in Counted
    BY <2>3, <2>4, <2>5 DEF Apply, OutOfSequence, Counted, Actionable
  <2>6. \A i \in Instruments : i # e.instrument_id => q.positions[i] = p.positions[i]
    BY <1>1, <2>1
  <2> HIDE DEF q
  <2>7. SessionOrders(q) \subseteq SessionOrders(p) \cup {e.order_id}
    BY <2>2 DEF SessionOrders
  <2>8. ASSUME e.type \notin {"ORDER_ACCEPTED", "ORDER_SUBMITTED",
                              "RECONCILIATION_RECORDED"}
        PROVE  SessionOrders(q) \subseteq SessionOrders(p)
    BY <2>2, <2>5, <2>8 DEF SessionOrders
  <2>9. OpenPositions(q) \subseteq OpenPositions(p) \cup {e.instrument_id}
    BY <2>6 DEF OpenPositions
  <2> QED
    BY <2>7, <2>8, <2>9 DEF q
<1>3. CASE ~Projectable(p, e)
  <2>1. /\ q.orders = [p.orders EXCEPT ![e.order_id] = Noted(o, e)]
        /\ q.positions = p.positions
    BY <1>3, ProjectEventEffect
  <2>2. Noted(o, e).status = o.status
    BY <1>1 DEF Noted, ProjectedOrder
  <2>3. \A x \in OrderIds : q.orders[x].status = p.orders[x].status
    BY <1>1, <2>1, <2>2
  <2> HIDE DEF q
  <2>4. SessionOrders(q) = SessionOrders(p) /\ OpenPositions(q) = OpenPositions(p)
    BY <2>1, <2>3 DEF SessionOrders, OpenPositions
  <2> QED
    BY <2>4 DEF q
<1> QED
  BY <1>2, <1>3

(* Finitely many orders count and finitely many positions are open.        *)
FiguresAreFinite ==
  IsFiniteSet(SessionOrders(portfolio)) /\ IsFiniteSet(OpenPositions(portfolio))

(* A step of the service leaves the portfolio alone or retains the event   *)
(* of a call.                                                              *)
LEMMA PortfolioStep ==
  ASSUME TypeOK, [Next]_vars
  PROVE  \/ UNCHANGED portfolio
         \/ \E s \in Sessions :
              pc[s] # "idle" /\ AppendEvent(call[s].event)
<1>1. ASSUME NEW s \in Sessions, Start(s) \/ Crash(s)
      PROVE  UNCHANGED portfolio
  BY <1>1
  DEF Start, Submit, DuplicateSubmit, Work, Cancel, Reconcile, Fill,
      SimulateNoFill, SimulateLimitFill, Crash, ledgerVars
<1>2. ASSUME NEW s \in Sessions, RecordFill(s) \/ RefusedAppend(s)
      PROVE  UNCHANGED portfolio
  BY <1>2 DEF RecordFill, RefusedAppend, ledgerVars
<1>3. ASSUME NEW s \in Sessions,
             Propose(s) \/ Decide(s) \/ Conclude(s) \/ Retain(s)
      PROVE  pc[s] # "idle" /\ AppendEvent(call[s].event)
  BY <1>3 DEF Propose, Decide, Conclude, Retain
<1> QED
  BY <1>1, <1>2, <1>3 DEF Next, Continue, vars

LEMMA FiguresStayFinite ==
  ASSUME TypeOK, FiguresAreFinite, [Next]_vars
  PROVE  FiguresAreFinite'
<1>1. CASE UNCHANGED portfolio
  BY <1>1 DEF FiguresAreFinite, SessionOrders, OpenPositions
<1>2. ASSUME NEW s \in Sessions, pc[s] # "idle", AppendEvent(call[s].event)
      PROVE  FiguresAreFinite'
  <2> DEFINE e == call[s].event
  <2>1. e \in PaperEvent /\ portfolio \in Portfolio
    BY <1>2, CallTypes DEF TypeOK
  <2>2. portfolio' = portfolio \/ portfolio' = ProjectEvent(portfolio, e)
    BY <1>2 DEF AppendEvent
  <2>3. /\ SessionOrders(portfolio') \subseteq SessionOrders(portfolio) \cup {e.order_id}
        /\ OpenPositions(portfolio')
             \subseteq OpenPositions(portfolio) \cup {e.instrument_id}
    BY <2>1, <2>2, ProjectionCounts
  <2>4. /\ IsFiniteSet(SessionOrders(portfolio) \cup {e.order_id})
        /\ IsFiniteSet(OpenPositions(portfolio) \cup {e.instrument_id})
    BY FS_AddElement DEF FiguresAreFinite
  <2>5. IsFiniteSet(SessionOrders(portfolio')) /\ IsFiniteSet(OpenPositions(portfolio'))
    BY <2>3, <2>4, FS_Subset
  <2> QED
    BY <2>5 DEF FiguresAreFinite, SessionOrders, OpenPositions
<1> QED
  BY <1>1, <1>2, PortfolioStep

LEMMA FiguresStartFinite == Init => FiguresAreFinite
<1> SUFFICES ASSUME Init PROVE FiguresAreFinite
  OBVIOUS
<1>1. \A o \in OrderIds : portfolio.orders[o].status = "PENDING_RISK"
  BY DEF Init, EmptyPortfolio, UnknownOrder
<1>2. \A i \in Instruments : portfolio.positions[i] = 0
  BY DEF Init, EmptyPortfolio
<1>3. SessionOrders(portfolio) = {} /\ OpenPositions(portfolio) = {}
  BY <1>1, <1>2 DEF SessionOrders, OpenPositions, Counted
<1> QED
  BY <1>3, FS_EmptySet DEF FiguresAreFinite

-----------------------------------------------------------------------------
(* Types of the desk. *)

LEMMA DeskStepsKeepTypes ==
  ASSUME HandInv, HandInv', FiguresAreFinite, DeskTypeOK, [DeskNext]_deskVars
  PROVE  DeskTypeOK'
<1>0. /\ max_session_orders \in SessionLimits /\ killed \in BOOLEAN
      /\ page \in [Sessions -> Page] /\ late \in [Sessions -> Nat] /\ runs \in Nat
      /\ TypeOK
  BY DEF DeskTypeOK, HandInv
<1>1. ASSUME max_session_orders' \in SessionLimits, killed' \in BOOLEAN,
             page' \in [Sessions -> Page], late' \in [Sessions -> Nat], runs' \in Nat
      PROVE  DeskTypeOK'
  <2>1. \A s \in Sessions : Hand(s)'
    BY DEF HandInv
  <2>2. \A s \in Sessions :
          pc'[s] # "idle"
            <=> page'[s].stage \in {"submitting", "working", "simulating"}
    BY <2>1 DEF Hand, Waiting
  <2> QED
    BY <1>1, <2>2 DEF DeskTypeOK
<1>2. ASSUME NEW s \in Sessions, NEW to \in Page, Turn(s, to)
      PROVE  page' \in [Sessions -> Page]
  BY <1>0, <1>2 DEF Turn
<1>3. ASSUME NEW s \in Sessions, UNCHANGED <<max_session_orders, killed>>,
             NEW to \in Page, Turn(s, to), late' \in [Sessions -> Nat],
             runs' \in Nat
      PROVE  DeskTypeOK'
  BY <1>0, <1>1, <1>2, <1>3
<1>4. Closed \in Page
  BY DEF Page
<1>5. ASSUME NEW s \in Sessions, ReadControls(s)
      PROVE  DeskTypeOK'
  <2>1. [stage |-> "controls", kill |-> killed] \in Page
    BY <1>0 DEF Page
  <2>2. runs' \in Nat /\ late' = late /\ UNCHANGED <<max_session_orders, killed>>
    BY <1>0, <1>5 DEF ReadControls
  <2>3. Turn(s, [stage |-> "controls", kill |-> killed])
    BY <1>5 DEF ReadControls
  <2> QED
    BY <1>0, <1>3, <2>1, <2>2, <2>3
<1>6. ASSUME NEW s \in Sessions, ReadPortfolio(s)
      PROVE  DeskTypeOK'
  <2> DEFINE to == [ stage |-> "portfolio", kill |-> page[s].kill,
                     figures |-> Figures(portfolio) ]
  <2>1. page[s].kill \in BOOLEAN
    BY <1>0, <1>6 DEF ReadPortfolio, AtStage, Page, Closed
  <2>2. Figures(portfolio) \in Portfolios
    <3>1. /\ Cardinality(SessionOrders(portfolio)) \in Nat
          /\ Cardinality(OpenPositions(portfolio)) \in Nat
      BY FS_CardinalityType DEF FiguresAreFinite
    <3>2. portfolio.positions \in [Instruments -> Int] /\ portfolio.cash \in Int
      BY <1>0 DEF TypeOK, Portfolio
    <3> QED
      BY <3>1, <3>2 DEF Figures, Portfolios
  <2>3. to \in Page
    BY <2>1, <2>2 DEF Page
  <2>4. Turn(s, to) /\ UNCHANGED <<max_session_orders, killed, late, runs>>
    BY <1>6 DEF ReadPortfolio
  <2> HIDE DEF to
  <2> QED
    BY <1>0, <1>3, <2>3, <2>4
<1>7. ASSUME NEW s \in Sessions, ReadTimeline(s)
      PROVE  DeskTypeOK'
  <2> DEFINE to == [ stage |-> "ready", kill |-> page[s].kill,
                     figures |-> page[s].figures, next |-> NextId ]
  <2>1. page[s].kill \in BOOLEAN /\ page[s].figures \in Portfolios
    BY <1>0, <1>7 DEF ReadTimeline, AtStage, Page, Closed
  <2>2. NextId \in Nat
    <3>1. Len(ledger) \in Nat /\ ReadLimit \in Nat
      BY <1>0, LenProperties, ReadLimitAssumption DEF TypeOK
    <3>2. Min({Len(ledger), ReadLimit}) \in {Len(ledger), ReadLimit}
      <4> DEFINE least == IF Len(ledger) <= ReadLimit THEN Len(ledger) ELSE ReadLimit
      <4>1. /\ least \in {Len(ledger), ReadLimit}
            /\ \A y \in {Len(ledger), ReadLimit} : least <= y
        BY <3>1
      <4>2. \E x \in {Len(ledger), ReadLimit} :
              \A y \in {Len(ledger), ReadLimit} : x <= y
        BY <4>1
      <4> QED
        BY <4>2 DEF Min
    <3> QED
      BY <3>1, <3>2 DEF NextId
  <2>3. to \in Page
    BY <2>1, <2>2 DEF Page
  <2>4. Turn(s, to) /\ UNCHANGED <<max_session_orders, killed, late, runs>>
    BY <1>7 DEF ReadTimeline
  <2> HIDE DEF to
  <2> QED
    BY <1>0, <1>3, <2>3, <2>4
<1>8. ASSUME NEW s \in Sessions, NEW active \in BOOLEAN, SetKillSwitch(s, active)
      PROVE  DeskTypeOK'
  <2>1. killed' \in BOOLEAN /\ Turn(s, Closed)
    BY <1>8 DEF SetKillSwitch
  <2>2. late' \in [Sessions -> Nat]
    BY <1>0, <1>8 DEF SetKillSwitch
  <2>3. UNCHANGED <<max_session_orders, runs>>
    BY <1>8 DEF SetKillSwitch
  <2> QED
    BY <1>0, <1>1, <1>2, <1>4, <2>1, <2>2, <2>3
<1>9. ASSUME NEW s \in Sessions, NEW intent \in Intents, NEW mark \in Prices,
             NEW at \in Stamps, PageSubmit(s, intent, mark, at)
      PROVE  DeskTypeOK'
  <2>1. [stage |-> "submitting", intent |-> intent] \in Page
    BY DEF Page
  <2>2. /\ Turn(s, [stage |-> "submitting", intent |-> intent])
        /\ UNCHANGED <<max_session_orders, killed, late, runs>>
    BY <1>9 DEF PageSubmit
  <2> QED
    BY <1>0, <1>3, <2>1, <2>2
<1>10. ASSUME NEW s \in Sessions, NEW to \in Page, Turn(s, to),
              UNCHANGED <<max_session_orders, killed, late, runs>>
       PROVE  DeskTypeOK'
  BY <1>0, <1>3, <1>10
<1>11. ASSUME NEW s \in Sessions, NEW stage \in Waiting \cup {"accepted", "worked"},
              page[s].stage \in Waiting \cup {"accepted", "worked"}
       PROVE  [stage |-> stage, intent |-> page[s].intent] \in Page
  <2>1. page[s].intent \in Intents
    BY <1>0, <1>11 DEF Page, Closed, Waiting
  <2> QED
    BY <2>1 DEF Page, Waiting
<1>12. ASSUME NEW s \in Sessions, PageConclude(s)
       PROVE  DeskTypeOK'
  <2>1. page[s].stage \in Waiting
    BY <1>12 DEF PageConclude, Conclude, HandInv, Hand
  <2>2. UNCHANGED <<max_session_orders, killed, runs>>
    BY <1>12 DEF PageConclude
  <2>3. CASE call[s].returns = "ACCEPTED"
    <3>1. Turn(s, [ stage |-> "accepted", intent |-> page[s].intent ])
      BY <1>12, <2>3 DEF PageConclude
    <3>2. late' = [late EXCEPT ![s] = IF killed THEN @ + 1 ELSE @]
      BY <1>12, <2>3 DEF PageConclude
    <3>3. late' \in [Sessions -> Nat]
      BY <1>0, <3>2
    <3>4. [ stage |-> "accepted", intent |-> page[s].intent ] \in Page
      BY <1>11, <2>1
    <3> QED
      BY <1>0, <1>3, <2>2, <3>1, <3>3, <3>4
  <2>4. CASE call[s].returns # "ACCEPTED"
    <3>1. Turn(s, Closed) /\ late' = late
      BY <1>12, <2>4 DEF PageConclude
    <3> QED
      BY <1>0, <1>3, <1>4, <2>2, <3>1
  <2> QED
    BY <2>3, <2>4
<1>13. ASSUME NEW s \in Sessions,
              \/ \E at \in Stamps : PageWork(s, at)
              \/ \E at \in Stamps, a \in Assumptions : PageSimulate(s, a, at)
              \/ PageRetain(s)
       PROVE  DeskTypeOK'
  <2>1. /\ page[s].stage \in Waiting \cup {"accepted", "worked"}
        /\ UNCHANGED <<max_session_orders, killed, late, runs>>
    BY <1>13 DEF PageWork, PageSimulate, PageRetain, Retain, AtStage, HandInv, Hand
  <2>2. \/ \E stage \in Waiting \cup {"accepted", "worked"} :
             Turn(s, [stage |-> stage, intent |-> page[s].intent])
        \/ Turn(s, Closed)
    BY <1>13 DEF PageWork, PageSimulate, PageRetain, Waiting
  <2> QED
    BY <1>4, <1>10, <1>11, <2>1, <2>2
<1>14. ASSUME NEW s \in Sessions,
              \/ \E intent \in Intents : PageDuplicate(s, intent)
              \/ PageContinue(s) \/ PageRefused(s) \/ Leave(s)
       PROVE  DeskTypeOK'
  <2>1. /\ UNCHANGED <<max_session_orders, killed, late, runs>>
        /\ Turn(s, Closed) \/ UNCHANGED page
    BY <1>14 DEF PageDuplicate, PageContinue, PageRefused, Leave
  <2> QED
    BY <1>0, <1>1, <1>4, <1>10, <2>1
<1>15. CASE UNCHANGED deskVars
  BY <1>0, <1>1, <1>15 DEF deskVars
<1> QED
  BY <1>5, <1>6, <1>7, <1>8, <1>9, <1>12, <1>13, <1>14, <1>15 DEF DeskNext

(* Every variable of the desk keeps its type, and a page waits for exactly *)
(* the call it is in.                                                      *)
THEOREM DeskTypeCorrect == DeskSpec => []DeskTypeOK
<1>1. DeskInit => HandInv /\ FiguresAreFinite /\ DeskTypeOK
  <2> SUFFICES ASSUME DeskInit PROVE HandInv /\ FiguresAreFinite /\ DeskTypeOK
    OBVIOUS
  <2>1. HandInv /\ Init /\ FiguresAreFinite
    BY DeskStartsServing, FiguresStartFinite
  <2>2. /\ max_session_orders \in SessionLimits /\ killed = FALSE
        /\ page = [s \in Sessions |-> Closed] /\ late = [s \in Sessions |-> 0]
        /\ runs = 0 /\ Closed \in Page
    BY DEF DeskInit, Page
  <2>3. \A s \in Sessions : pc[s] = "idle" /\ page[s].stage = "closed"
    BY <2>1, <2>2 DEF Init, Closed
  <2> QED
    BY <2>1, <2>2, <2>3 DEF DeskTypeOK
<1>2. /\ HandInv /\ FiguresAreFinite /\ DeskTypeOK /\ [DeskNext]_deskVars
      => HandInv' /\ FiguresAreFinite' /\ DeskTypeOK'
  BY DeskStepsServe, FiguresStayFinite, DeskStepsKeepTypes DEF HandInv
<1> QED
  BY <1>1, <1>2, PTL DEF DeskSpec

-----------------------------------------------------------------------------
(* The session limit. *)

(* A session that may come to accept an order on a count below the limit.  *)
Racer(s) ==
  \/ /\ page[s].stage \in {"portfolio", "ready"}
     /\ page[s].figures.count < max_session_orders
  \/ page[s].stage = "submitting" /\ call[s].returns = "ACCEPTED"

Racers == { s \in Sessions : Racer(s) }

(* Once the limit is reached, every order beyond it and every session that *)
(* may still add one is accounted for by a session: the one that reached   *)
(* the limit has to read again.                                            *)
OvershootInv ==
  /\ max_session_orders \in Nat \ {0}
  /\ FiguresAreFinite
  /\ \A s \in Sessions :
       pc[s] = "append" => call[s].event.type # "RECONCILIATION_RECORDED"
  /\ LET count == Cardinality(SessionOrders(portfolio)) IN
     count >= max_session_orders =>
       count + Cardinality(Racers) <= max_session_orders + Cardinality(Sessions) - 1

(* The count before and after a step, and the racers before and after.     *)
LEMMA CountsStayBelow ==
  ASSUME NEW A, NEW B, NEW R, NEW Q, NEW S, NEW limit \in Nat,
         IsFiniteSet(A), IsFiniteSet(B), IsFiniteSet(S),
         R \subseteq S, Q \subseteq S,
         Cardinality(A) >= limit =>
           Cardinality(A) + Cardinality(R) <= limit + Cardinality(S) - 1,
         \/ /\ B \subseteq A
            /\ Cardinality(A) >= limit => Q \subseteq R
         \/ /\ \E o : B \subseteq A \cup {o}
            /\ \E s \in R : Q \subseteq R \ {s}
  PROVE  Cardinality(B) >= limit =>
           Cardinality(B) + Cardinality(Q) <= limit + Cardinality(S) - 1
<1>1. IsFiniteSet(R) /\ IsFiniteSet(Q)
  BY FS_Subset
<1>2. /\ Cardinality(A) \in Nat /\ Cardinality(B) \in Nat /\ Cardinality(S) \in Nat
      /\ Cardinality(R) \in Nat /\ Cardinality(Q) \in Nat
  BY <1>1, FS_CardinalityType
<1>3. CASE /\ B \subseteq A
           /\ Cardinality(A) >= limit => Q \subseteq R
  <2>1. Cardinality(B) <= Cardinality(A)
    BY <1>3, FS_Subset
  <2>2. Q \subseteq R => Cardinality(Q) <= Cardinality(R)
    BY <1>1, FS_Subset
  <2> QED
    BY <1>2, <1>3, <2>1, <2>2
<1>4. ASSUME NEW o, B \subseteq A \cup {o}, NEW s \in R, Q \subseteq R \ {s}
      PROVE  Cardinality(B) >= limit =>
               Cardinality(B) + Cardinality(Q) <= limit + Cardinality(S) - 1
  <2>1. /\ IsFiniteSet(A \cup {o})
        /\ Cardinality(A \cup {o}) <= Cardinality(A) + 1
    <3>1. /\ IsFiniteSet(A \cup {o})
          /\ Cardinality(A \cup {o}) = IF o \in A THEN Cardinality(A)
                                                 ELSE Cardinality(A) + 1
      BY FS_AddElement
    <3> QED
      BY <1>2, <3>1
  <2>2. Cardinality(B) <= Cardinality(A) + 1
    <3>1. Cardinality(B) <= Cardinality(A \cup {o})
      BY <1>4, <2>1, FS_Subset
    <3>2. Cardinality(A \cup {o}) \in Nat
      BY <2>1, FS_CardinalityType
    <3> QED
      BY <1>2, <2>1, <3>1, <3>2
  <2>3. IsFiniteSet(R \ {s}) /\ Cardinality(R \ {s}) = Cardinality(R) - 1
    BY <1>1, <1>4, FS_RemoveElement
  <2>4. Cardinality(Q) <= Cardinality(R) - 1
    BY <1>4, <2>3, FS_Subset
  <2>5. Cardinality(R) <= Cardinality(S)
    BY FS_Subset
  <2> QED
    BY <1>2, <2>2, <2>4, <2>5
<1> QED
  BY <1>3, <1>4

(* The step of one session, by what it does to the portfolio and to its    *)
(* own part in the race.                                                   *)
LEMMA OneSessionRaces ==
  ASSUME EvidenceInv, HandInv, OvershootInv, FiguresAreFinite', NEW s \in Sessions,
         UNCHANGED max_session_orders,
         \A t \in Sessions \ {s} :
           page'[t] = page[t] /\ call'[t] = call[t] /\ pc'[t] = pc[t],
         pc'[s] = "append" => call'[s].event.type # "RECONCILIATION_RECORDED",
         \/ UNCHANGED portfolio
         \/ /\ pc[s] \in {"propose", "decide", "conclude", "append"}
            /\ AppendEvent(call[s].event),
         \/ /\ UNCHANGED portfolio \/ call[s].event.type # "ORDER_ACCEPTED"
            /\ \/ Racer(s)' => Racer(s)
               \/ Cardinality(SessionOrders(portfolio)) < max_session_orders
         \/ Racer(s) /\ ~Racer(s)'
  PROVE  OvershootInv'
<1> DEFINE A == SessionOrders(portfolio)
           B == SessionOrders(portfolio')
           Q == Racers'
<1>1. /\ Q \subseteq Sessions /\ Racers \subseteq Sessions
      /\ (Racer(s)' => Racer(s)) => Q \subseteq Racers
      /\ ~Racer(s)' => Q \subseteq Racers \ {s}
  <2>1. \A t \in Sessions \ {s} : Racer(t)' => Racer(t)
    BY DEF Racer
  <2>2. Q = { t \in Sessions : Racer(t)' }
    BY DEF Racers
  <2> QED
    BY <2>1, <2>2 DEF Racers
<1>2. /\ IsFiniteSet(A) /\ IsFiniteSet(B) /\ IsFiniteSet(Sessions)
      /\ max_session_orders \in Nat
      /\ Cardinality(A) >= max_session_orders =>
           Cardinality(A) + Cardinality(Racers)
             <= max_session_orders + Cardinality(Sessions) - 1
  BY SessionsAssumption DEF OvershootInv, FiguresAreFinite, SessionOrders
<1>3. ASSUME pc[s] \in {"propose", "decide", "conclude", "append"},
             AppendEvent(call[s].event)
      PROVE  /\ \E o : B \subseteq A \cup {o}
             /\ call[s].event.type # "ORDER_ACCEPTED" => B \subseteq A
  <2> DEFINE e == call[s].event
  <2>1. e \in PaperEvent /\ portfolio \in Portfolio /\ CallEvidenced(pc[s], call[s])
    BY <1>3, CallTypes DEF EvidenceInv, TypeOK, CallsAreEvidenced
  <2>2. e.type \notin {"ORDER_SUBMITTED", "RECONCILIATION_RECORDED"}
    <3>1. CASE pc[s] = "append"
      BY <2>1, <3>1 DEF CallEvidenced, OvershootInv, AcceptedEvidence
    <3>2. CASE pc[s] \in {"propose", "decide", "conclude"}
      BY <2>1, <3>2 DEF CallEvidenced
    <3> QED
      BY <1>3, <3>1, <3>2
  <2>3. portfolio' = portfolio \/ portfolio' = ProjectEvent(portfolio, e)
    BY <1>3 DEF AppendEvent
  <2> QED
    BY <2>1, <2>2, <2>3, ProjectionCounts
<1>4. \/ /\ B \subseteq A
         /\ Cardinality(A) >= max_session_orders => Q \subseteq Racers
      \/ /\ \E o : B \subseteq A \cup {o}
         /\ \E t \in Racers : Q \subseteq Racers \ {t}
  <2>1. CASE UNCHANGED portfolio
    <3>1. A = B
      BY <2>1
    <3>2. Racer(s) => s \in Racers
      BY DEF Racers
    <3>3. Cardinality(A) < max_session_orders => ~(Cardinality(A) >= max_session_orders)
      BY <1>2, FS_CardinalityType
    <3> HIDE DEF A, B, Q
    <3>4. CASE (Racer(s)' => Racer(s)) \/ Cardinality(A) < max_session_orders
      BY <1>1, <3>1, <3>3, <3>4
    <3>5. CASE Racer(s) /\ ~Racer(s)'
      BY <1>1, <3>1, <3>2, <3>5
    <3> QED
      BY <3>4, <3>5 DEF A
  <2>2. CASE /\ pc[s] \in {"propose", "decide", "conclude", "append"}
             /\ AppendEvent(call[s].event)
    <3>1. /\ \E o : B \subseteq A \cup {o}
          /\ call[s].event.type # "ORDER_ACCEPTED" => B \subseteq A
      BY <1>3, <2>2
    <3>2. Racer(s) => s \in Racers
      BY DEF Racers
    <3>3. Cardinality(A) < max_session_orders => ~(Cardinality(A) >= max_session_orders)
      BY <1>2, FS_CardinalityType
    <3>4. UNCHANGED portfolio => B = A
      OBVIOUS
    <3> HIDE DEF A, B, Q
    <3>5. CASE /\ UNCHANGED portfolio \/ call[s].event.type # "ORDER_ACCEPTED"
               /\ (Racer(s)' => Racer(s)) \/ Cardinality(A) < max_session_orders
      BY <1>1, <3>1, <3>3, <3>4, <3>5
    <3>6. CASE Racer(s) /\ ~Racer(s)'
      BY <1>1, <3>1, <3>2, <3>6
    <3> QED
      BY <3>5, <3>6 DEF A
  <2> QED
    BY <2>1, <2>2
<1>5. Cardinality(B) >= max_session_orders =>
        Cardinality(B) + Cardinality(Q)
          <= max_session_orders + Cardinality(Sessions) - 1
  <2> DEFINE limit == max_session_orders
             R == Racers
  <2>1. /\ Q \subseteq Sessions /\ R \subseteq Sessions /\ limit \in Nat
        /\ Cardinality(A) >= limit =>
             Cardinality(A) + Cardinality(R) <= limit + Cardinality(Sessions) - 1
        /\ \/ /\ B \subseteq A
              /\ Cardinality(A) >= limit => Q \subseteq R
           \/ /\ \E o : B \subseteq A \cup {o}
              /\ \E t \in R : Q \subseteq R \ {t}
    BY <1>1, <1>2, <1>4
  <2>2. IsFiniteSet(A) /\ IsFiniteSet(B) /\ IsFiniteSet(Sessions)
    BY <1>2
  <2> HIDE DEF A, B, Q, limit, R
  <2>3. Cardinality(B) >= limit =>
          Cardinality(B) + Cardinality(Q) <= limit + Cardinality(Sessions) - 1
    BY <2>1, <2>2, CountsStayBelow
  <2> QED
    BY <2>3 DEF limit
<1>6. \A t \in Sessions :
        pc'[t] = "append" => call'[t].event.type # "RECONCILIATION_RECORDED"
  BY DEF OvershootInv
<1>7. /\ max_session_orders' = max_session_orders
      /\ max_session_orders \in Nat \ {0} /\ FiguresAreFinite'
  BY DEF OvershootInv
<1>8. LET count == Cardinality(SessionOrders(portfolio')) IN
      count >= max_session_orders' =>
        count + Cardinality(Racers')
          <= max_session_orders' + Cardinality(Sessions) - 1
  BY <1>5, <1>7 DEF A, B, Q
<1> QED
  BY <1>6, <1>7, <1>8 DEF OvershootInv

(* Every step of the desk keeps the race within its bound.                 *)
LEMMA DeskStepsRace ==
  ASSUME HandInv, EvidenceInv, OvershootInv, FiguresAreFinite',
         [DeskNext]_deskVars
  PROVE  OvershootInv'
<1>0. /\ TypeOK /\ DOMAIN page = Sessions /\ \A s \in Sessions : Hand(s)
      /\ \A s \in Sessions : pc[s] # "idle" => CallEvidenced(pc[s], call[s])
      /\ \A s \in Sessions :
           pc[s] = "append" => call[s].event.type # "RECONCILIATION_RECORDED"
  BY DEF HandInv, EvidenceInv, CallsAreEvidenced, OvershootInv
<1>a. ASSUME NEW s \in Sessions, UNCHANGED max_session_orders,
             UNCHANGED page \/ \E to : Turn(s, to),
             UNCHANGED <<pc, call>> \/ \E stage, c : Goto(s, stage, c)
      PROVE  \A t \in Sessions \ {s} :
               page'[t] = page[t] /\ call'[t] = call[t] /\ pc'[t] = pc[t]
  <2>1. \A t \in Sessions \ {s} : page'[t] = page[t]
    BY <1>0, <1>a, TurnEffect
  <2>2. \A t \in Sessions \ {s} : call'[t] = call[t] /\ pc'[t] = pc[t]
    BY <1>0, <1>a, GotoEffect
  <2> QED
    BY <2>1, <2>2
(* A step that retains nothing, of a session no nearer to an acceptance.   *)
<1>b. ASSUME NEW s \in Sessions, UNCHANGED <<max_session_orders, portfolio>>,
             UNCHANGED page \/ \E to : Turn(s, to),
             \/ UNCHANGED <<pc, call>>
             \/ \E stage, c :
                  /\ Goto(s, stage, c)
                  /\ stage = "append" => c.event.type # "RECONCILIATION_RECORDED",
             \/ Racer(s)' => Racer(s)
             \/ Cardinality(SessionOrders(portfolio)) < max_session_orders
      PROVE  OvershootInv'
  <2>1. pc'[s] = "append" => call'[s].event.type # "RECONCILIATION_RECORDED"
    BY <1>0, <1>b, GotoEffect
  <2>2. \A t \in Sessions \ {s} :
          page'[t] = page[t] /\ call'[t] = call[t] /\ pc'[t] = pc[t]
    BY <1>a, <1>b
  <2> QED
    BY <1>b, <2>1, <2>2, OneSessionRaces
(* A step that retains the event of its call.                              *)
<1>c. ASSUME NEW s \in Sessions, UNCHANGED max_session_orders,
             pc[s] \in {"propose", "decide", "conclude", "append"},
             AppendEvent(call[s].event),
             UNCHANGED page \/ \E to : Turn(s, to),
             \E stage, c : Goto(s, stage, c) /\ stage # "append",
             \/ /\ call[s].event.type # "ORDER_ACCEPTED"
                /\ Racer(s)' => Racer(s)
             \/ Racer(s) /\ ~Racer(s)'
      PROVE  OvershootInv'
  <2>1. pc'[s] # "append"
    BY <1>0, <1>c, GotoEffect
  <2>2. \A t \in Sessions \ {s} :
          page'[t] = page[t] /\ call'[t] = call[t] /\ pc'[t] = pc[t]
    BY <1>a, <1>c
  <2> QED
    BY <1>c, <2>1, <2>2, OneSessionRaces
<1>d. ASSUME NEW s \in Sessions, NEW to, Turn(s, to),
             to.stage \notin {"portfolio", "ready", "submitting"}
      PROVE  ~Racer(s)'
  <2>1. page'[s] = to
    BY <1>0, <1>d, TurnEffect
  <2> QED
    BY <1>d, <2>1 DEF Racer
<1>1. ASSUME NEW s \in Sessions,
             \/ ReadControls(s)
             \/ \E active \in BOOLEAN : SetKillSwitch(s, active)
             \/ pc[s] = "idle" /\ Leave(s)
      PROVE  OvershootInv'
  <2>1. /\ UNCHANGED <<max_session_orders, vars>>
        /\ \E to : Turn(s, to) /\ to.stage \notin {"portfolio", "ready", "submitting"}
    BY <1>1 DEF ReadControls, SetKillSwitch, Leave, Closed
  <2>2. UNCHANGED <<max_session_orders, portfolio, pc, call>>
    BY <2>1 DEF vars
  <2>3. ~Racer(s)'
    BY <1>d, <2>1
  <2> QED
    BY <1>b, <2>1, <2>2, <2>3
<1>2. ASSUME NEW s \in Sessions, ReadPortfolio(s)
      PROVE  OvershootInv'
  <2> DEFINE to == [ stage |-> "portfolio", kill |-> page[s].kill,
                     figures |-> Figures(portfolio) ]
  <2>1. Turn(s, to) /\ UNCHANGED <<max_session_orders, portfolio, pc, call>>
    BY <1>2 DEF ReadPortfolio, vars
  <2>2. page'[s] = to
    BY <1>0, <2>1, TurnEffect
  <2>3. Racer(s)' => Cardinality(SessionOrders(portfolio)) < max_session_orders
    BY <2>1, <2>2 DEF Racer, Figures
  <2> QED
    BY <1>b, <2>1, <2>3
<1>3. ASSUME NEW s \in Sessions, ReadTimeline(s)
      PROVE  OvershootInv'
  <2> DEFINE to == [ stage |-> "ready", kill |-> page[s].kill,
                     figures |-> page[s].figures, next |-> NextId ]
  <2>1. /\ Turn(s, to) /\ UNCHANGED <<max_session_orders, portfolio, pc, call>>
        /\ page[s].stage = "portfolio"
    BY <1>3 DEF ReadTimeline, AtStage, vars
  <2>2. page'[s] = to
    BY <1>0, <2>1, TurnEffect
  <2>3. Racer(s)' => Racer(s)
    BY <2>1, <2>2 DEF Racer
  <2> QED
    BY <1>b, <2>1, <2>3
<1>4. ASSUME NEW s \in Sessions, NEW intent \in Intents, NEW mark \in Prices,
             NEW at \in Stamps, PageSubmit(s, intent, mark, at)
      PROVE  OvershootInv'
  <2>1. PICK allowed \in BOOLEAN :
          /\ allowed => Gate(page[s].kill, page[s].figures, intent, mark)
          /\ Submit(s, intent, at, allowed)
    BY <1>4 DEF PageSubmit
  <2>2. PICK c :
          /\ Goto(s, "propose", c)
          /\ c.returns = IF allowed THEN "ACCEPTED" ELSE "REJECTED"
    BY <2>1 DEF Submit
  <2> DEFINE to == [stage |-> "submitting", intent |-> intent]
  <2>3. /\ page[s].stage = "ready" /\ Turn(s, to)
        /\ UNCHANGED <<max_session_orders, portfolio>>
    BY <1>4, <2>1 DEF PageSubmit, AtStage, Submit, ledgerVars
  <2>4. page'[s] = to /\ call'[s] = c
    BY <1>0, <2>2, <2>3, TurnEffect, GotoEffect
  <2>5. Racer(s)' => Racer(s)
    <3>1. Racer(s)' => c.returns = "ACCEPTED"
      BY <2>4 DEF Racer
    <3>2. c.returns = "ACCEPTED" => page[s].figures.count < max_session_orders
      BY <2>1, <2>2 DEF Gate
    <3> QED
      BY <2>3, <3>1, <3>2 DEF Racer
  <2> QED
    BY <1>b, <2>2, <2>3, <2>5
<1>5. ASSUME NEW s \in Sessions,
             \/ \E intent \in Intents : PageDuplicate(s, intent)
             \/ \E at \in Stamps : PageWork(s, at)
             \/ \E at \in Stamps, a \in Assumptions : PageSimulate(s, a, at)
             \/ PageRefused(s)
             \/ pc[s] # "idle" /\ Leave(s)
      PROVE  OvershootInv'
  <2>1. /\ UNCHANGED <<max_session_orders, portfolio>>
        /\ \E to : Turn(s, to) /\ to.stage \notin {"portfolio", "ready", "submitting"}
    <3>1. CASE \/ \E at \in Stamps : PageWork(s, at)
               \/ \E at \in Stamps, a \in Assumptions : PageSimulate(s, a, at)
      <4>1. UNCHANGED <<max_session_orders, portfolio>>
        BY <3>1 DEF PageWork, PageSimulate, Work, SimulateNoFill,
                    SimulateLimitFill, ledgerVars
      <4>2. \E stage \in Waiting \ {"submitting"} :
              Turn(s, [stage |-> stage, intent |-> page[s].intent])
        BY <3>1 DEF PageWork, PageSimulate, Waiting
      <4> QED
        BY <4>1, <4>2 DEF Waiting
    <3>2. CASE \/ \E intent \in Intents : PageDuplicate(s, intent)
               \/ PageRefused(s)
               \/ pc[s] # "idle" /\ Leave(s)
      <4>1. UNCHANGED <<max_session_orders, portfolio>> /\ Turn(s, Closed)
        BY <3>2 DEF PageDuplicate, PageRefused, Leave, DuplicateSubmit,
                    RefusedAppend, Crash, ledgerVars
      <4> QED
        BY <4>1 DEF Closed
    <3> QED
      BY <1>5, <3>1, <3>2
  <2>2. \E stage, c :
          /\ Goto(s, stage, c)
          /\ stage = "append" => c.event.type # "RECONCILIATION_RECORDED"
    <3>1. CASE \E at \in Stamps : PageWork(s, at)
      BY <3>1 DEF PageWork, Work, WillAppend, TermsEvent, BareEvent
    <3>2. CASE \E at \in Stamps, a \in Assumptions : PageSimulate(s, a, at)
      <4>1. PICK at \in Stamps, a \in Assumptions : PageSimulate(s, a, at)
        BY <3>2
      <4> DEFINE order == InHand(s, "WORKING")
                 event == [ TermsEvent("ORDER_UNFILLED", order.intent, at) EXCEPT
                              !.cumulative = Held(order).filled,
                              !.reason = NoFillReason(a) ]
      <4>2. event.type # "RECONCILIATION_RECORDED"
        BY DEF TermsEvent, BareEvent
      <4>3. \/ SimulateNoFill(s, order, a, at)
            \/ SimulateLimitFill(s, order, a, at)
        BY <4>1 DEF PageSimulate
      <4> DEFINE c == [ order |-> order, event |-> event,
                        returns |-> Held(order).status ]
      <4>4. Goto(s, "append", c) \/ \E d : Goto(s, "record", d)
        BY <4>3 DEF SimulateNoFill, SimulateLimitFill, WillAppend
      <4>5. c.event.type # "RECONCILIATION_RECORDED"
        BY <4>2
      <4> HIDE DEF c
      <4> QED
        BY <4>4, <4>5
    <3>3. CASE \/ \E intent \in Intents : PageDuplicate(s, intent)
               \/ PageRefused(s)
               \/ pc[s] # "idle" /\ Leave(s)
      BY <3>3 DEF PageDuplicate, DuplicateSubmit, Return, PageRefused,
                  RefusedAppend, Leave, Crash, End
    <3> QED
      BY <1>5, <3>1, <3>2, <3>3
  <2>3. ~Racer(s)'
    BY <1>d, <2>1
  <2> QED
    BY <1>b, <2>1, <2>2, <2>3
<1>6. ASSUME NEW s \in Sessions, PageConclude(s)
      PROVE  OvershootInv'
  <2>1. /\ pc[s] = "conclude" /\ End(s) /\ AppendEvent(call[s].event)
        /\ UNCHANGED max_session_orders
    BY <1>6 DEF PageConclude, Conclude, Return
  <2>2. /\ page[s].stage = "submitting"
        /\ call[s].event.type = "ORDER_ACCEPTED" => call[s].returns = "ACCEPTED"
    BY <1>0, <2>1 DEF Hand, Waiting, CallEvidenced
  <2>3. \E to : Turn(s, to) /\ to.stage \notin {"portfolio", "ready", "submitting"}
    BY <1>6 DEF PageConclude, Closed
  <2>4. ~Racer(s)'
    BY <1>d, <2>3
  <2>5. call[s].event.type = "ORDER_ACCEPTED" => Racer(s)
    BY <2>2 DEF Racer
  <2> QED
    BY <1>c, <2>1, <2>3, <2>4, <2>5 DEF End
<1>7. ASSUME NEW s \in Sessions, PageRetain(s)
      PROVE  OvershootInv'
  <2>1. /\ pc[s] = "append" /\ End(s) /\ AppendEvent(call[s].event)
        /\ UNCHANGED max_session_orders
    BY <1>7 DEF PageRetain, Retain, Return
  <2>2. call[s].event.type # "ORDER_ACCEPTED"
    BY <1>0, <2>1 DEF CallEvidenced, AcceptedEvidence
  <2>3. \E to : Turn(s, to) /\ to.stage \notin {"portfolio", "ready", "submitting"}
    BY <1>7 DEF PageRetain, Closed
  <2>4. ~Racer(s)'
    BY <1>d, <2>3
  <2> QED
    BY <1>c, <2>1, <2>2, <2>3, <2>4 DEF End
<1>8. ASSUME NEW s \in Sessions, PageContinue(s)
      PROVE  OvershootInv'
  <2>1. UNCHANGED max_session_orders /\ (UNCHANGED page \/ Turn(s, Closed))
    BY <1>8 DEF PageContinue
  <2>2. CASE Propose(s) \/ Decide(s)
    <3>1. pc[s] \in {"propose", "decide"} /\ AppendEvent(call[s].event)
      BY <2>2 DEF Propose, Decide
    <3>2. PICK event :
            \/ Goto(s, "decide", [call[s] EXCEPT !.event = event])
            \/ Goto(s, "conclude", [call[s] EXCEPT !.event = event])
      BY <2>2 DEF Propose, Decide
    <3>3. pc'[s] # "idle" /\ call'[s] = [call[s] EXCEPT !.event = event]
      BY <1>0, <3>2, GotoEffect
    <3>4. UNCHANGED page /\ call[s] \in Call
      <4>1. pc[s] # "idle"
        BY <3>1
      <4> QED
        BY <1>0, <1>8, <3>3, <4>1, CallTypes DEF PageContinue
    <3>5. Racer(s)' => Racer(s)
      <4>1. call'[s].returns = call[s].returns
        BY <3>3, <3>4 DEF Call
      <4> QED
        BY <2>1, <3>4, <4>1 DEF Racer
    <3>6. call[s].event.type # "ORDER_ACCEPTED"
      BY <1>0, <3>1 DEF CallEvidenced
    <3> QED
      BY <1>c, <2>1, <3>1, <3>2, <3>5, <3>6
  <2>3. CASE RecordFill(s)
    <3>1. pc[s] = "record" /\ UNCHANGED portfolio
      BY <2>3 DEF RecordFill, ledgerVars
    <3>2. \E stage, c :
            /\ Goto(s, stage, c)
            /\ stage = "append" => c.event.type # "RECONCILIATION_RECORDED"
      <4> DEFINE order == call[s].order
                 draft == call[s].event
                 event == FillEvent(order, draft.quantity, draft.price,
                                    draft.reason, draft.at)
                 c == [ order |-> order, event |-> event,
                        returns |-> FillStatus(order, draft.quantity) ]
      <4>1. event.type \in {"ORDER_FILLED", "ORDER_PARTIALLY_FILLED"}
        BY DEF FillEvent, TermsEvent, BareEvent
      <4>2. Goto(s, "append", c) \/ Goto(s, "idle", NoCall)
        BY <2>3 DEF RecordFill, WillAppend, End
      <4>3. c.event = event
        OBVIOUS
      <4> HIDE DEF c, event
      <4> QED
        BY <4>1, <4>2, <4>3
    <3>3. ~Racer(s)'
      <4>1. page[s].stage = "simulating"
        BY <1>0, <3>1 DEF Hand, Waiting
      <4>2. CASE UNCHANGED page
        BY <4>1, <4>2 DEF Racer
      <4>3. CASE Turn(s, Closed)
        BY <1>d, <4>3 DEF Closed
      <4> QED
        BY <2>1, <4>2, <4>3
    <3> QED
      BY <1>b, <2>1, <3>1, <3>2, <3>3
  <2> QED
    BY <1>8, <2>2, <2>3 DEF PageContinue
<1>9. CASE UNCHANGED deskVars
  <2>1. UNCHANGED <<max_session_orders, portfolio, pc, call, page>>
    BY <1>9 DEF deskVars, vars
  <2>2. Racers' = Racers
    BY <2>1 DEF Racers, Racer
  <2>3. SessionOrders(portfolio)' = SessionOrders(portfolio)
    BY <2>1
  <2> QED
    BY <2>1, <2>2, <2>3 DEF OvershootInv
<1> QED
  BY <1>1, <1>2, <1>3, <1>4, <1>5, <1>6, <1>7, <1>8, <1>9 DEF DeskNext

(* At first no order counts and no session has read anything.              *)
LEMMA RacesStart == DeskInit => OvershootInv
<1> SUFFICES ASSUME DeskInit PROVE OvershootInv
  OBVIOUS
<1>1. FiguresAreFinite /\ Init
  BY FiguresStartFinite, DeskStartsServing
<1>2. max_session_orders \in Nat \ {0}
  BY LimitsAssumption DEF DeskInit
<1>3. SessionOrders(portfolio) = {}
  <2>1. \A o \in OrderIds : portfolio.orders[o].status = "PENDING_RISK"
    BY <1>1 DEF Init, EmptyPortfolio, UnknownOrder
  <2> QED
    BY <2>1 DEF SessionOrders, Counted
<1>4. ~(Cardinality(SessionOrders(portfolio)) >= max_session_orders)
  BY <1>2, <1>3, FS_EmptySet
<1>5. \A s \in Sessions : pc[s] = "idle"
  BY <1>1 DEF Init
<1> QED
  BY <1>1, <1>2, <1>4, <1>5 DEF OvershootInv

(* The session limit is read with the portfolio and used after it: however *)
(* many sessions race, each passes it by at most one order, and the one    *)
(* that reaches the limit by none.                                         *)
THEOREM OvershootStaysBounded == DeskSpec => []OvershootIsBounded
<1> DEFINE Inv == HandInv /\ EvidenceInv /\ FiguresAreFinite /\ OvershootInv
<1>1. DeskInit => Inv
  BY DeskStartsServing, FiguresStartFinite, RacesStart, InitEvidence
<1>2. Inv /\ [DeskNext]_deskVars => Inv'
  <2> SUFFICES ASSUME Inv, [DeskNext]_deskVars PROVE Inv'
    OBVIOUS
  <2>1. HandInv' /\ [Next]_vars
    BY DeskStepsServe
  <2>2. EvidenceInv'
    BY <2>1, NextKeepsEvidence
  <2>3. FiguresAreFinite'
    BY <2>1, FiguresStayFinite DEF HandInv
  <2>4. OvershootInv'
    BY <2>3, DeskStepsRace
  <2> QED
    BY <2>1, <2>2, <2>3, <2>4
<1>3. Inv => OvershootIsBounded
  <2> SUFFICES ASSUME Inv PROVE OvershootIsBounded
    OBVIOUS
  <2> DEFINE count == Cardinality(SessionOrders(portfolio))
  <2>1. /\ count \in Nat /\ max_session_orders \in Nat
        /\ Cardinality(Sessions) \in Nat
    BY FS_CardinalityType, SessionsAssumption
    DEF FiguresAreFinite, OvershootInv
  <2>2. IsFiniteSet(Racers) /\ Cardinality(Racers) \in Nat
    BY SessionsAssumption, FS_Subset, FS_CardinalityType DEF Racers
  <2>3. count >= max_session_orders =>
          count + Cardinality(Racers)
            <= max_session_orders + Cardinality(Sessions) - 1
    BY DEF OvershootInv
  <2> QED
    BY <2>1, <2>2, <2>3 DEF OvershootIsBounded
<1> QED
  BY <1>1, <1>2, <1>3, PTL DEF DeskSpec

=============================================================================
