------------------------------ MODULE PaperDesk ------------------------------
(***************************************************************************)
(* The paper page of the workbench as several browser sessions run it: one *)
(* script run reads the risk controls, the projected portfolio and the     *)
(* audit timeline one after the other, and may then set the kill switch or *)
(* submit an order, put it to work and simulate its fill, on what it read. *)
(*                                                                         *)
(* Order identities are numbers: a new one is the number of events the     *)
(* timeline showed, plus one.  The kill switch is the durable one at the   *)
(* granularity of its changes; RiskControls opens up how one is made.      *)
(***************************************************************************)
EXTENDS PaperExecution, FiniteSetsExt, SequencesExt

CONSTANTS
  SessionLimits,     \* limits the local policy may set on session orders
  MaxOpenPositions,  \* limit of the central policy
  MaxRuns            \* bound on the script runs of a behaviour

ASSUME LimitsAssumption ==
  /\ SessionLimits \subseteq Nat \ {0} /\ MaxOpenPositions \in Nat \ {0}
  /\ MaxRuns \in Nat
ASSUME OrderIdsAssumption == OrderIds \subseteq Nat
ASSUME SessionsAssumption == IsFiniteSet(Sessions)

VARIABLES
  max_session_orders,  \* of the local policy, which no session changes
  killed,  \* the durable kill switch
  page,    \* per session, its script run: the stage and what it read
  late,    \* per session, its acceptances since the switch was activated
  runs     \* script runs so far

deskVars == <<vars, max_session_orders, killed, page, late, runs>>

Counted ==
  { "ACCEPTED", "WORKING", "PARTIALLY_FILLED", "FILLED", "CANCELLED",
    "RECONCILED" }

(* The figures of a projection that the gate reads.                        *)
SessionOrders(p) == { o \in OrderIds : p.orders[o].status \in Counted }
OpenPositions(p) == { i \in Instruments : p.positions[i] # 0 }

Figures(p) ==
  [ count |-> Cardinality(SessionOrders(p)),
    open |-> Cardinality(OpenPositions(p)),
    positions |-> p.positions, cash |-> p.cash ]

Portfolios ==
  [ count : Nat, open : Nat, positions : [Instruments -> Int], cash : Int ]

Closed == [ stage |-> "closed" ]
Page ==
  {Closed}
  \cup [ stage : {"controls"}, kill : BOOLEAN ]
  \cup [ stage : {"portfolio"}, kill : BOOLEAN, figures : Portfolios ]
  \cup [ stage : {"ready"}, kill : BOOLEAN, figures : Portfolios,
         next : Nat ]
  \cup [ stage : {"submitting", "accepted", "working", "worked",
                  "simulating"},
         intent : Intents ]

DeskInit ==
  /\ Init
  /\ max_session_orders \in SessionLimits
  /\ killed = FALSE
  /\ page = [s \in Sessions |-> Closed]
  /\ late = [s \in Sessions |-> 0]
  /\ runs = 0

Turn(s, to) == page' = [page EXCEPT ![s] = to]
AtStage(s, stage) == page[s].stage = stage /\ pc[s] = "idle"

-----------------------------------------------------------------------------
(* What a script run reads, in three transactions.                         *)

ReadControls(s) ==
  /\ AtStage(s, "closed")
  /\ runs < MaxRuns
  /\ runs' = runs + 1
  /\ Turn(s, [stage |-> "controls", kill |-> killed])
  /\ UNCHANGED <<vars, max_session_orders, killed, late>>

ReadPortfolio(s) ==
  /\ AtStage(s, "controls")
  /\ Turn(s, [ stage |-> "portfolio", kill |-> page[s].kill,
               figures |-> Figures(portfolio) ])
  /\ UNCHANGED <<vars, max_session_orders, killed, late, runs>>

(* The timeline is read up to the limit, as the ledger was.                *)
NextId == Min({Len(ledger), ReadLimit}) + 1

ReadTimeline(s) ==
  /\ AtStage(s, "portfolio")
  /\ Turn(s, [ stage |-> "ready", kill |-> page[s].kill,
               figures |-> page[s].figures, next |-> NextId ])
  /\ UNCHANGED <<vars, max_session_orders, killed, late, runs>>

-----------------------------------------------------------------------------
(* What its buttons do.                                                    *)

SetKillSwitch(s, active) ==
  /\ AtStage(s, "ready")
  /\ killed' = active
  /\ late' = IF active /\ ~killed THEN [t \in Sessions |-> 0] ELSE late
  /\ Turn(s, Closed)
  /\ UNCHANGED <<vars, max_session_orders, runs>>

(* Mutants: a gate that lets one order too many through, and one that does *)
(* not ask for the switch.                                                 *)
GateAtMost(kill, figures, intent, mark) ==
  /\ ~kill
  /\ figures.open < MaxOpenPositions
  /\ figures.count <= max_session_orders
  /\ intent.side = "SELL" =>
       intent.quantity <= figures.positions[intent.instrument_id]
  /\ intent.side = "BUY" => intent.quantity * mark <= figures.cash

GateWithoutSwitch(kill, figures, intent, mark) ==
  /\ figures.open < MaxOpenPositions
  /\ figures.count < max_session_orders
  /\ intent.side = "SELL" =>
       intent.quantity <= figures.positions[intent.instrument_id]
  /\ intent.side = "BUY" => intent.quantity * mark <= figures.cash

(* What an approval of both policies requires.  Their limits on quantity,  *)
(* notionals, concentration and realized loss depend on marks of the       *)
(* caller and may refuse what passes here.                                 *)
Gate(kill, figures, intent, mark) ==
  /\ ~kill
  /\ figures.open < MaxOpenPositions
  /\ figures.count < max_session_orders
  /\ intent.side = "SELL" =>
       intent.quantity <= figures.positions[intent.instrument_id]
  /\ intent.side = "BUY" => intent.quantity * mark <= figures.cash

PageSubmit(s, intent, mark, at) ==
  /\ AtStage(s, "ready")
  /\ intent.order_id = page[s].next
  /\ \E allowed \in BOOLEAN :
       /\ allowed => Gate(page[s].kill, page[s].figures, intent, mark)
       /\ Submit(s, intent, at, allowed)
  /\ Turn(s, [stage |-> "submitting", intent |-> intent])
  /\ UNCHANGED <<max_session_orders, killed, late, runs>>

PageDuplicate(s, intent) ==
  /\ AtStage(s, "ready")
  /\ intent.order_id = page[s].next
  /\ DuplicateSubmit(s, intent)
  /\ Turn(s, Closed)
  /\ UNCHANGED <<max_session_orders, killed, late, runs>>

PageConclude(s) ==
  /\ Conclude(s)
  /\ IF call[s].returns = "ACCEPTED"
     THEN /\ Turn(s, [ stage |-> "accepted", intent |-> page[s].intent ])
          /\ late' = [late EXCEPT ![s] = IF killed THEN @ + 1 ELSE @]
     ELSE Turn(s, Closed) /\ UNCHANGED late
  /\ UNCHANGED <<max_session_orders, killed, runs>>

InHand(s, status) == [intent |-> page[s].intent, status |-> status]

PageWork(s, at) ==
  /\ AtStage(s, "accepted")
  /\ Work(s, InHand(s, "ACCEPTED"), at)
  /\ Turn(s, [ stage |-> "working", intent |-> page[s].intent ])
  /\ UNCHANGED <<max_session_orders, killed, late, runs>>

PageSimulate(s, a, at) ==
  /\ AtStage(s, "worked")
  /\ \/ SimulateNoFill(s, InHand(s, "WORKING"), a, at)
     \/ SimulateLimitFill(s, InHand(s, "WORKING"), a, at)
  /\ Turn(s, [ stage |-> "simulating", intent |-> page[s].intent ])
  /\ UNCHANGED <<max_session_orders, killed, late, runs>>

PageRetain(s) ==
  /\ Retain(s)
  /\ Turn(s, IF page[s].stage = "working"
             THEN [ stage |-> "worked", intent |-> page[s].intent ]
             ELSE Closed)
  /\ UNCHANGED <<max_session_orders, killed, late, runs>>

(* The calls that go on, and the inserts that raise.                       *)
PageContinue(s) ==
  /\ Propose(s) \/ Decide(s) \/ RecordFill(s)
  /\ IF pc'[s] = "idle" THEN Turn(s, Closed) ELSE UNCHANGED page
  /\ UNCHANGED <<max_session_orders, killed, late, runs>>

(* Mutant of PageRefused: the page does not notice that its call raised.   *)
PageRefusedUnnoticed(s) ==
  /\ RefusedAppend(s)
  /\ UNCHANGED <<max_session_orders, page, killed, late, runs>>

PageRefused(s) ==
  /\ RefusedAppend(s)
  /\ Turn(s, Closed)
  /\ UNCHANGED <<max_session_orders, killed, late, runs>>

(* The run ends without a button, raises, is cut short by the next one, or *)
(* its process dies.                                                       *)
Leave(s) ==
  /\ page[s] # Closed
  /\ IF pc[s] = "idle" THEN UNCHANGED vars ELSE Crash(s)
  /\ Turn(s, Closed)
  /\ UNCHANGED <<max_session_orders, killed, late, runs>>

DeskNext ==
  \E s \in Sessions :
    \/ ReadControls(s) \/ ReadPortfolio(s) \/ ReadTimeline(s)
    \/ \E active \in BOOLEAN : SetKillSwitch(s, active)
    \/ \E intent \in Intents :
         \/ \E mark \in Prices, at \in Stamps : PageSubmit(s, intent, mark, at)
         \/ PageDuplicate(s, intent)
    \/ \E at \in Stamps :
         \/ PageWork(s, at)
         \/ \E a \in Assumptions : PageSimulate(s, a, at)
    \/ PageContinue(s) \/ PageConclude(s) \/ PageRetain(s)
    \/ PageRefused(s) \/ Leave(s)

DeskSpec == DeskInit /\ [][DeskNext]_deskVars

-----------------------------------------------------------------------------
(* Properties.                                                             *)

(* Every variable keeps its type, and a page is in a call exactly at the   *)
(* stages that wait for one.                                               *)
DeskTypeOK ==
  /\ max_session_orders \in SessionLimits
  /\ killed \in BOOLEAN
  /\ page \in [Sessions -> Page]
  /\ late \in [Sessions -> Nat] /\ runs \in Nat
  /\ \A s \in Sessions :
       pc[s] # "idle"
         <=> page[s].stage \in {"submitting", "working", "simulating"}

(* Once the kill switch is active a session accepts at most one more       *)
(* order, the one its run was at: a run that starts afterwards reads the   *)
(* switch.                                                                 *)
KillSwitchBites == \A s \in Sessions : late[s] <= 1

(* The session limit is read with the portfolio and used after it; sessions *)
(* that race can pass it, but never by more than one order each.           *)
OvershootIsBounded ==
  Cardinality(SessionOrders(portfolio))
    <= max_session_orders + Cardinality(Sessions) - 1

(* Sessions that sell one position at once are both approved; what is      *)
(* projected of their fills never goes short.                              *)
PositionsStayLong == \A i \in Instruments : portfolio.positions[i] >= 0

(* "This makes the next local risk check use prior durable local events"   *)
(* (docs/LOCAL_PAPER_PROJECTION.md).  Of a desk that one session runs: the *)
(* figures a run goes by are those of the whole ledger.                    *)
FiguresAreOfTheLedger ==
  \A s \in Sessions :
    page[s].stage \in {"portfolio", "ready"} =>
      page[s].figures = Figures(FoldLeft(ProjectEvent, EmptyPortfolio, ledger))

=============================================================================
