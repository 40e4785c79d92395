---------------------------- MODULE LocalEventBus ----------------------------
(***************************************************************************)
(* The in-process event bus of one browser session: bounded traces of      *)
(* events and deliveries, and synchronous subscribers whose failures are   *)
(* isolated.  What a subscriber does is not in the source: while it is     *)
(* called it may use the bus itself, and it may raise.                     *)
(*                                                                         *)
(* Producers publish once their evidence is retained; here an event is a   *)
(* name for such a reference, and equal content is the same name.          *)
(***************************************************************************)
EXTENDS Integers, Sequences, FiniteSets, SequencesExt

CONSTANTS
  Events,         \* event identities
  Subscribers,    \* subscriber names
  MaxEvents,      \* retained events
  MaxDeliveries,  \* retained delivery rows
  MaxDepth,       \* bound on publications inside each other
  MaxPublished,   \* bound on the publications of a behaviour
  None

ASSUME BoundsAssumption ==
  /\ MaxEvents \in Nat \ {0} /\ MaxDeliveries \in Nat \ {0}
  /\ MaxDepth \in Nat \ {0} /\ MaxPublished \in Nat

Statuses == {"DELIVERED", "FAILED"}
Delivery == [ event : Events, subscriber : Subscribers, status : Statuses ]

VARIABLES
  events,       \* retained events
  deliveries,   \* retained delivery rows
  subscribers,  \* names in the order of their registration
  stack,        \* publications in progress, the innermost last
  published,    \* every accepted event of this session
  outcome       \* of the publication that ended last

vars == <<events, deliveries, subscribers, stack, published, outcome>>

(* A publication in progress: the registrations its loop started from, the *)
(* rows it has written and whether a subscriber is being called.           *)
Frame == [ event : Events, registered : Seq(Subscribers),
           rows : Seq(Delivery), calling : BOOLEAN ]

ASSUME NoneAssumption ==
  None \notin [ kind : STRING, event : Events, registered : Seq(Subscribers),
                rows : Seq(Delivery) ]

Init ==
  /\ events = <<>> /\ deliveries = <<>> /\ subscribers = <<>>
  /\ stack = <<>> /\ published = <<>> /\ outcome = None

(* Mutant: one element too many is kept.                                   *)
NewestAndOneMore(seq, n) ==
  SubSeq(seq, Len(seq) - Min({n + 1, Len(seq)}) + 1, Len(seq))

(* What deque(maxlen = n) keeps of a sequence.                             *)
Newest(seq, n) == SubSeq(seq, Len(seq) - Min({n, Len(seq)}) + 1, Len(seq))

Top == stack[Len(stack)]
Pop == Front(stack)
WithTop(frame) == Append(Pop, frame)

(* The bus can be used when it is idle and by a subscriber being called.   *)
CanUse == stack # <<>> => Top.calling

Subscribe(name) ==
  /\ CanUse
  /\ ~Contains(subscribers, name)
  /\ subscribers' = Append(subscribers, name)
  /\ UNCHANGED <<events, deliveries, stack, published, outcome>>

End(kind, event, registered, rows) ==
  outcome' = [ kind |-> kind, event |-> event, registered |-> registered,
               rows |-> rows ]

PublishDuplicate(event) ==
  /\ CanUse
  /\ Contains(events, event)
  /\ End("duplicate", event, subscribers, <<>>)
  /\ UNCHANGED <<events, deliveries, subscribers, stack, published>>

(* Mutant: nothing is recognized as a duplicate.                           *)
PublishAgain(event) ==
  /\ CanUse
  /\ Len(stack) < MaxDepth /\ Len(published) < MaxPublished
  /\ events' = Newest(Append(events, event), MaxEvents)
  /\ published' = Append(published, event)
  /\ stack' = Append(stack, [ event |-> event, registered |-> subscribers,
                              rows |-> <<>>, calling |-> FALSE ])
  /\ UNCHANGED <<deliveries, subscribers, outcome>>

Publish(event) ==
  /\ CanUse
  /\ ~Contains(events, event)
  /\ Len(stack) < MaxDepth /\ Len(published) < MaxPublished
  /\ events' = Newest(Append(events, event), MaxEvents)
  /\ published' = Append(published, event)
  /\ stack' = Append(stack, [ event |-> event, registered |-> subscribers,
                              rows |-> <<>>, calling |-> FALSE ])
  /\ UNCHANGED <<deliveries, subscribers, outcome>>

(* The loop runs over the dictionary of subscribers itself and raises,     *)
(* outside its try block, at its next turn after a registration.           *)
Looping == stack # <<>> /\ ~Top.calling
Disturbed == subscribers # Top.registered

CallNext ==
  /\ Looping /\ ~Disturbed
  /\ Len(Top.rows) < Len(Top.registered)
  /\ stack' = WithTop([ Top EXCEPT !.calling = TRUE ])
  /\ UNCHANGED <<events, deliveries, subscribers, published, outcome>>

(* Mutant: a failed call is repeated.                                      *)
DeliverUntilSuccess(status) ==
  /\ stack # <<>> /\ Top.calling
  /\ LET row == [ event |-> Top.event, status |-> status,
                  subscriber |-> Top.registered[Len(Top.rows) + 1] ]
     IN /\ deliveries' = Newest(Append(deliveries, row), MaxDeliveries)
        /\ stack' = WithTop([ Top EXCEPT !.calling = FALSE,
               !.rows = IF status = "FAILED" THEN @ ELSE Append(@, row) ])
  /\ UNCHANGED <<events, subscribers, published, outcome>>

Deliver(status) ==
  /\ stack # <<>> /\ Top.calling
  /\ LET row == [ event |-> Top.event, status |-> status,
                  subscriber |-> Top.registered[Len(Top.rows) + 1] ]
     IN /\ deliveries' = Newest(Append(deliveries, row), MaxDeliveries)
        /\ stack' = WithTop([ Top EXCEPT !.calling = FALSE,
                                         !.rows = Append(@, row) ])
  /\ UNCHANGED <<events, subscribers, published, outcome>>

(* Mutant: a failed call ends the publication.                             *)
ReturnOnFailure ==
  /\ Looping /\ ~Disturbed
  /\ \/ Len(Top.rows) = Len(Top.registered)
     \/ \E k \in DOMAIN Top.rows : Top.rows[k].status = "FAILED"
  /\ End("accepted", Top.event, Top.registered, Top.rows)
  /\ stack' = Pop
  /\ UNCHANGED <<events, deliveries, subscribers, published>>

Return ==
  /\ Looping /\ ~Disturbed
  /\ Len(Top.rows) = Len(Top.registered)
  /\ End("accepted", Top.event, Top.registered, Top.rows)
  /\ stack' = Pop
  /\ UNCHANGED <<events, deliveries, subscribers, published>>

(* The error reaches the producer, or the subscriber that published.       *)
RaiseChanged ==
  /\ Looping /\ Disturbed
  /\ End("raised", Top.event, Top.registered, Top.rows)
  /\ stack' = Pop
  /\ UNCHANGED <<events, deliveries, subscribers, published>>

(* The bus is kept in the state of a browser session and lost with it.     *)
Restart ==
  /\ events' = <<>> /\ deliveries' = <<>> /\ subscribers' = <<>>
  /\ stack' = <<>> /\ published' = <<>> /\ outcome' = None

Next ==
  \/ \E name \in Subscribers : Subscribe(name)
  \/ \E event \in Events : PublishDuplicate(event) \/ Publish(event)
  \/ CallNext \/ Return \/ RaiseChanged
  \/ \E status \in Statuses : Deliver(status)
  \/ Restart

Spec == Init /\ [][Next]_vars

-----------------------------------------------------------------------------
(* Properties.                                                             *)

(* Every variable keeps its type, within its bound.                        *)
TypeOK ==
  /\ events \in Seq(Events) /\ Len(events) <= MaxEvents
  /\ deliveries \in Seq(Delivery) /\ Len(deliveries) <= MaxDeliveries
  /\ subscribers \in Seq(Subscribers) /\ IsInjective(subscribers)
  /\ stack \in Seq(Frame) /\ Len(stack) <= MaxDepth
  /\ published \in Seq(Events)
  /\ outcome # None =>
       /\ outcome.kind \in {"accepted", "duplicate", "raised"}
       /\ outcome.event \in Events /\ outcome.registered \in Seq(Subscribers)
       /\ outcome.rows \in Seq(Delivery)

(* The retained events are the latest accepted ones in publication order,  *)
(* none twice, also when subscribers publish in the middle of others.      *)
EventsAreTheLatest ==
  /\ IsSuffix(events, published) /\ IsInjective(events)
  /\ Len(events) < MaxEvents => events = published

(* A publication that returns has called every subscriber once, in the     *)
(* order of registration, whichever of them failed or published.           *)
Served(rows, registered) ==
  /\ Len(rows) = Len(registered)
  /\ \A k \in DOMAIN rows : rows[k].subscriber = registered[k]

AcceptedServesAll ==
  outcome # None /\ outcome.kind = "accepted" =>
    /\ Served(outcome.rows, outcome.registered)
    /\ \A k \in DOMAIN outcome.rows : outcome.rows[k].event = outcome.event

(* The audit's totals: of an event that was accepted once no subscriber    *)
(* has more than one row, so the counts cannot exceed the subscribers.     *)
Once(event) == Cardinality({ k \in DOMAIN published : published[k] = event }) = 1

AuditCountsEachOnce ==
  \A j, k \in DOMAIN deliveries :
    /\ deliveries[j].event = deliveries[k].event
    /\ deliveries[j].subscriber = deliveries[k].subscriber
    /\ Once(deliveries[j].event)
    => j = k

=============================================================================
