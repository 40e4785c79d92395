------------------------- MODULE LocalEventBusProofs -------------------------
(***************************************************************************)
(* Theorems about LocalEventBus for every number of events, subscribers    *)
(* and publications and for every retention: the retained events are the   *)
(* latest accepted ones, a publication that returns has called everybody   *)
(* once, and the audit rows count nobody twice.                            *)
(***************************************************************************)
EXTENDS LocalEventBus, FiniteSetTheorems, TLAPS

-----------------------------------------------------------------------------
(* Bounded sequences. *)

Kept(seq, n) == IF n <= Len(seq) THEN n ELSE Len(seq)

(* What a bounded deque keeps, element by element.                         *)
KeepsNewest(S, seq, n) ==
  /\ Newest(seq, n) \in Seq(S)
  /\ Len(Newest(seq, n)) = Kept(seq, n)
  /\ DOMAIN Newest(seq, n) = 1..Kept(seq, n)
  /\ Kept(seq, n) \in Nat /\ Kept(seq, n) <= Len(seq) /\ Len(seq) \in Nat
  /\ \A i \in 1..Kept(seq, n) :
       Newest(seq, n)[i] = seq[Len(seq) - Kept(seq, n) + i]

LEMMA NewestEffect ==
  ASSUME NEW S, NEW seq \in Seq(S), NEW n \in Nat
  PROVE  KeepsNewest(S, seq, n)
<1> DEFINE m == Kept(seq, n)
           low == Len(seq) - m + 1
<1>1. Len(seq) \in Nat /\ m \in Nat /\ m <= Len(seq)
  BY DEF Kept
<1>2. Min({n, Len(seq)}) = m
  <2>1. m \in {n, Len(seq)} /\ \A y \in {n, Len(seq)} : m <= y
    BY <1>1 DEF Kept
  <2>2. \A x \in {n, Len(seq)} :
          (\A y \in {n, Len(seq)} : x <= y) => x = m
    BY <1>1, <2>1
  <2> QED
    BY <2>1, <2>2 DEF Min
<1>3. Newest(seq, n) = SubSeq(seq, low, Len(seq))
  BY <1>2 DEF Newest
<1>4. low \in 1..(Len(seq) + 1)
  BY <1>1
<1>5. SubSeq(seq, low, Len(seq)) = [i \in 1..m |-> seq[low + i - 1]]
  <2>1. Len(seq) - low + 1 = m /\ low \in Int
    BY <1>1
  <2> HIDE DEF low, m
  <2> QED
    BY <1>1, <2>1 
<1>6. \A i \in 1..m : low + i - 1 \in 1..Len(seq) /\ low + i - 1 = Len(seq) - m + i
  BY <1>1
<1> HIDE DEF low, m
<1>7. [i \in 1..m |-> seq[low + i - 1]] \in Seq(S)
  <2>1. \A i \in 1..m : seq[low + i - 1] \in S
    BY <1>6
  <2> QED
    BY <1>1, <2>1
<1>8. Len([i \in 1..m |-> seq[low + i - 1]]) = m
  BY <1>1
<1> QED
  BY <1>1, <1>3, <1>5, <1>6, <1>7, <1>8 DEF m, KeepsNewest

(* A retained element is an element of what was retained from.             *)
LEMMA NewestIsPart ==
  ASSUME NEW S, NEW seq \in Seq(S), NEW n \in Nat,
         NEW i \in DOMAIN Newest(seq, n)
  PROVE  /\ Len(seq) - Kept(seq, n) + i \in DOMAIN seq
         /\ Newest(seq, n)[i] = seq[Len(seq) - Kept(seq, n) + i]
<1>0. KeepsNewest(S, seq, n)
  BY NewestEffect
<1> DEFINE m == Kept(seq, n)
<1>1. /\ i \in 1..m /\ m \in Nat /\ m <= Len(seq) /\ Len(seq) \in Nat
      /\ Newest(seq, n)[i] = seq[Len(seq) - m + i]
  BY <1>0 DEF KeepsNewest
<1> HIDE DEF m
<1>2. Len(seq) - m + i \in 1..Len(seq)
  BY <1>1
<1> QED
  BY <1>1, <1>2 DEF m

(* The newest elements are the end of the sequence.                        *)
LEMMA NewestIsSuffix ==
  ASSUME NEW S, NEW seq \in Seq(S), NEW n \in Nat
  PROVE  IsSuffix(Newest(seq, n), seq)
<1>0. KeepsNewest(S, seq, n)
  BY NewestEffect
<1> DEFINE m == Kept(seq, n)
           new == Newest(seq, n)
<1>1. /\ m \in Nat /\ Len(seq) \in Nat /\ m <= Len(seq)
      /\ new \in Seq(S) /\ Len(new) = m
      /\ \A i \in 1..m : new[i] = seq[Len(seq) - m + i]
  BY <1>0 DEF KeepsNewest
<1> HIDE DEF m, new
<1>2. /\ Reverse(new) = [i \in 1..m |-> new[m - i + 1]]
      /\ Reverse(seq) = [i \in 1..Len(seq) |-> seq[Len(seq) - i + 1]]
  BY <1>1 DEF Reverse
<1>3. /\ Reverse(new) \in Seq(S) /\ Reverse(seq) \in Seq(S)
      /\ Len(Reverse(new)) = m /\ Len(Reverse(seq)) = Len(seq)
  <2>1. \A i \in 1..m : m - i + 1 \in 1..m /\ new[m - i + 1] \in S
    BY <1>1
  <2>2. \A i \in 1..Len(seq) : seq[Len(seq) - i + 1] \in S
    BY <1>1
  <2> QED
    BY <1>1, <1>2, <2>1, <2>2
<1>4. \A i \in 1..m : Reverse(new)[i] = Reverse(seq)[i]
  <2> SUFFICES ASSUME NEW i \in 1..m PROVE Reverse(new)[i] = Reverse(seq)[i]
    OBVIOUS
  <2>1. Reverse(new)[i] = new[m - i + 1] /\ Reverse(seq)[i] = seq[Len(seq) - i + 1]
    BY <1>1, <1>2
  <2>2. m - i + 1 \in 1..m /\ Len(seq) - m + (m - i + 1) = Len(seq) - i + 1
    BY <1>1
  <2> QED
    BY <1>1, <2>1, <2>2
<1> HIDE <1>2
<1>5. SubSeq(Reverse(new), 1, m) = SubSeq(Reverse(seq), 1, m)
  <2>1. SubSeq(Reverse(new), 1, m) = [i \in 1..m |-> Reverse(new)[i]]
    BY <1>1, <1>3
  <2>2. SubSeq(Reverse(seq), 1, m) = [i \in 1..m |-> Reverse(seq)[i]]
    BY <1>1, <1>3
  <2> QED
    BY <1>4, <2>1, <2>2
<1> QED
  BY <1>1, <1>3, <1>5 DEF IsSuffix, IsPrefix, new

(* Where an element ends up among the retained ones: old of len elements   *)
(* are retained before one more is appended, and m after.                  *)
LEMMA KeptPlaces ==
  ASSUME NEW n \in Nat \ {0}, NEW len \in Nat, NEW old \in Nat, NEW m \in Nat,
         old = IF n <= len THEN n ELSE len,
         m = IF n <= len + 1 THEN n ELSE len + 1,
         NEW i \in 1..m, i # m
  PROVE  /\ old + 1 - m + i \in 1..old
         /\ len + 1 - m + i \in 1..len
         /\ len - old + (old + 1 - m + i) = len + 1 - m + i
  OBVIOUS

(* Retaining as one goes keeps what retaining at the end would.            *)
LEMMA NewestAsOneGoes ==
  ASSUME NEW S, NEW seq \in Seq(S), NEW e \in S, NEW n \in Nat \ {0}
  PROVE  Newest(Append(Newest(seq, n), e), n) = Newest(Append(seq, e), n)
<1> DEFINE old == Newest(seq, n)
           left == Newest(Append(old, e), n)
           right == Newest(Append(seq, e), n)
           m == Kept(Append(seq, e), n)
<1>0. n \in Nat \ {0} /\ KeepsNewest(S, seq, n)
  BY NewestEffect
<1>1. /\ old \in Seq(S) /\ Len(old) = Kept(seq, n) /\ Len(seq) \in Nat
      /\ \A i \in 1..Kept(seq, n) : old[i] = seq[Len(seq) - Kept(seq, n) + i]
  BY <1>0 DEF KeepsNewest
<1>2. /\ Append(seq, e) \in Seq(S) /\ Len(Append(seq, e)) = Len(seq) + 1
      /\ \A i \in 1..Len(seq) : Append(seq, e)[i] = seq[i]
      /\ Append(seq, e)[Len(seq) + 1] = e
  BY <1>1
<1> HIDE DEF old
<1>3. /\ Append(old, e) \in Seq(S) /\ Len(Append(old, e)) = Len(old) + 1
      /\ \A i \in 1..Len(old) : Append(old, e)[i] = old[i]
      /\ Append(old, e)[Len(old) + 1] = e
  BY <1>1
<1>4. Kept(Append(old, e), n) = m /\ m \in 1..n
  BY <1>1, <1>2, <1>3 DEF Kept
<1>5. /\ left \in Seq(S) /\ Len(left) = m
      /\ \A i \in 1..m : left[i] = Append(old, e)[Len(old) + 1 - m + i]
  <2>1. KeepsNewest(S, Append(old, e), n)
    BY <1>0, <1>3, NewestEffect
  <2> QED
    BY <1>3, <1>4, <2>1 DEF KeepsNewest
<1>6. /\ right \in Seq(S) /\ Len(right) = m
      /\ \A i \in 1..m : right[i] = Append(seq, e)[Len(seq) + 1 - m + i]
  <2>1. KeepsNewest(S, Append(seq, e), n)
    BY <1>0, <1>2, NewestEffect
  <2> QED
    BY <1>2, <2>1 DEF KeepsNewest
<1>7. \A i \in 1..m : left[i] = right[i]
  <2> SUFFICES ASSUME NEW i \in 1..m PROVE left[i] = right[i]
    OBVIOUS
  <2>1. CASE i = m
    <3>1. /\ Len(old) + 1 - m + i = Len(old) + 1
          /\ Len(seq) + 1 - m + i = Len(seq) + 1
      BY <1>1, <1>4, <2>1
    <3> QED
      BY <1>2, <1>3, <1>5, <1>6, <3>1
  <2>2. CASE i # m
    <3> DEFINE len == Len(seq)
               kept == Kept(seq, n)
    <3>1. /\ m = IF n <= len + 1 THEN n ELSE len + 1
          /\ kept = IF n <= len THEN n ELSE len
          /\ kept \in Nat /\ len \in Nat /\ m \in Nat
      BY <1>1, <1>2, <1>4 DEF Kept
    <3> HIDE DEF m, len, kept
    <3>2. /\ kept + 1 - m + i \in 1..kept
          /\ len + 1 - m + i \in 1..len
          /\ len - kept + (kept + 1 - m + i) = len + 1 - m + i
      BY <2>2, <3>1, KeptPlaces
    <3> USE DEF len, kept
    <3>3. old[Len(old) + 1 - m + i] = seq[Len(seq) + 1 - m + i]
      BY <1>1, <3>2
    <3> QED
      BY <1>1, <1>2, <1>3, <1>5, <1>6, <3>2, <3>3
  <2> QED
    BY <2>1, <2>2
<1> HIDE DEF left, right, m
<1>8. left = right
  BY <1>5, <1>6, <1>7
<1> QED
  BY <1>8 DEF left, right, old

(* The innermost publication.                                              *)
LEMMA TopEffect ==
  ASSUME NEW S, stack \in Seq(S), stack # <<>>
  PROVE  /\ Top \in S /\ Len(stack) \in DOMAIN stack
         /\ Pop \in Seq(S) /\ Len(Pop) = Len(stack) - 1
         /\ \A i \in 1..(Len(stack) - 1) : Pop[i] = stack[i]
<1>1. Len(stack) \in Nat \ {0}
  OBVIOUS
<1>2. Pop = [i \in 1..(Len(stack) - 1) |-> stack[i]]
  BY <1>1 DEF Pop, Front
<1> QED
  BY <1>1, <1>2 DEF Top

LEMMA WithTopEffect ==
  ASSUME NEW S, stack \in Seq(S), stack # <<>>, NEW frame \in S
  PROVE  /\ WithTop(frame) \in Seq(S) /\ Len(WithTop(frame)) = Len(stack)
         /\ \A i \in 1..(Len(stack) - 1) : WithTop(frame)[i] = stack[i]
         /\ WithTop(frame)[Len(stack)] = frame
<1>1. Len(stack) \in Nat \ {0}
  OBVIOUS
<1> QED
  BY <1>1, TopEffect DEF WithTop

LEMMA AppendStaysInjective ==
  ASSUME NEW S, NEW seq \in Seq(S), NEW e \in S, IsInjective(seq),
         ~Contains(seq, e)
  PROVE  IsInjective(Append(seq, e))
<1>1. /\ Len(seq) \in Nat /\ DOMAIN seq = 1..Len(seq)
      /\ DOMAIN Append(seq, e) = 1..(Len(seq) + 1)
      /\ \A i \in 1..Len(seq) : Append(seq, e)[i] = seq[i]
      /\ Append(seq, e)[Len(seq) + 1] = e
  OBVIOUS
<1>2. \A i \in 1..Len(seq) : seq[i] # e
  BY DEF Contains
<1>3. \A i \in 1..(Len(seq) + 1) : i \in 1..Len(seq) \/ i = Len(seq) + 1
  BY <1>1
<1>4. \A i, j \in 1..Len(seq) : seq[i] = seq[j] => i = j
  BY <1>1 DEF IsInjective
<1> SUFFICES ASSUME NEW i \in 1..(Len(seq) + 1), NEW j \in 1..(Len(seq) + 1),
                    Append(seq, e)[i] = Append(seq, e)[j]
             PROVE  i = j
  BY <1>1 DEF IsInjective
<1> QED
  BY <1>1, <1>2, <1>3, <1>4

LEMMA NewestStaysInjective ==
  ASSUME NEW S, NEW seq \in Seq(S), NEW n \in Nat, IsInjective(seq)
  PROVE  IsInjective(Newest(seq, n))
<1> SUFFICES ASSUME NEW i \in DOMAIN Newest(seq, n),
                    NEW j \in DOMAIN Newest(seq, n),
                    Newest(seq, n)[i] = Newest(seq, n)[j]
             PROVE  i = j
  BY DEF IsInjective
<1> DEFINE m == Kept(seq, n)
<1>1. /\ Len(seq) - m + i \in DOMAIN seq /\ Len(seq) - m + j \in DOMAIN seq
      /\ seq[Len(seq) - m + i] = seq[Len(seq) - m + j]
  BY NewestIsPart
<1>2. Len(seq) - m + i = Len(seq) - m + j
  BY <1>1 DEF IsInjective
<1>3. KeepsNewest(S, seq, n)
  BY NewestEffect
<1>4. i \in Nat /\ j \in Nat /\ m \in Nat /\ Len(seq) \in Nat
  BY <1>3 DEF KeepsNewest
<1> HIDE DEF m
<1> QED
  BY <1>2, <1>4

-----------------------------------------------------------------------------
(* Types, the window and what a publication has done. *)

(* A publication in progress has called the first of its registrations,    *)
(* each once, and knows whom it calls next.                                *)
FrameOK(frame) ==
  /\ IsInjective(frame.registered)
  /\ Len(frame.rows) <= Len(frame.registered)
  /\ frame.calling => Len(frame.rows) < Len(frame.registered)
  /\ \A k \in DOMAIN frame.rows :
       /\ frame.rows[k].subscriber = frame.registered[k]
       /\ frame.rows[k].event = frame.event

BusInv ==
  /\ TypeOK
  /\ \A i \in DOMAIN stack : FrameOK(stack[i])
  /\ events = Newest(published, MaxEvents)
  /\ IsInjective(events)
  /\ AcceptedServesAll

(* A step that replaces, removes or adds the innermost publication.        *)
LEMMA StackStep ==
  ASSUME BusInv,
         \/ stack # <<>> /\ stack' = Pop
         \/ /\ stack # <<>>
            /\ \E frame \in Frame : FrameOK(frame) /\ stack' = WithTop(frame)
         \/ /\ Len(stack) < MaxDepth
            /\ \E frame \in Frame : FrameOK(frame) /\ stack' = Append(stack, frame)
  PROVE  /\ stack' \in Seq(Frame) /\ Len(stack') <= MaxDepth
         /\ \A i \in DOMAIN stack' : FrameOK(stack'[i])
<1>1. /\ stack \in Seq(Frame) /\ Len(stack) \in Nat /\ Len(stack) <= MaxDepth
      /\ MaxDepth \in Nat /\ \A i \in 1..Len(stack) : FrameOK(stack[i])
  BY BoundsAssumption DEF BusInv, TypeOK
<1>2. CASE stack # <<>> /\ stack' = Pop
  <2>1. /\ stack' \in Seq(Frame) /\ Len(stack') = Len(stack) - 1
        /\ \A i \in 1..(Len(stack) - 1) : stack'[i] = stack[i]
    BY <1>1, <1>2, TopEffect
  <2> QED
    BY <1>1, <2>1
<1>3. CASE /\ stack # <<>>
           /\ \E frame \in Frame : FrameOK(frame) /\ stack' = WithTop(frame)
  <2>1. PICK frame \in Frame : FrameOK(frame) /\ stack' = WithTop(frame)
    BY <1>3
  <2>2. /\ stack' \in Seq(Frame) /\ Len(stack') = Len(stack)
        /\ \A i \in 1..(Len(stack) - 1) : stack'[i] = stack[i]
        /\ stack'[Len(stack)] = frame
    BY <1>1, <1>3, <2>1, WithTopEffect
  <2>3. \A i \in DOMAIN stack' : i \in 1..(Len(stack) - 1) \/ i = Len(stack)
    BY <1>1, <2>2
  <2> QED
    BY <1>1, <2>1, <2>2, <2>3
<1>4. CASE /\ Len(stack) < MaxDepth
           /\ \E frame \in Frame : FrameOK(frame) /\ stack' = Append(stack, frame)
  <2>1. PICK frame \in Frame : FrameOK(frame) /\ stack' = Append(stack, frame)
    BY <1>4
  <2>2. /\ stack' \in Seq(Frame) /\ Len(stack') = Len(stack) + 1
        /\ \A i \in 1..Len(stack) : stack'[i] = stack[i]
        /\ stack'[Len(stack) + 1] = frame
    BY <1>1, <2>1
  <2>3. \A i \in DOMAIN stack' : i \in 1..Len(stack) \/ i = Len(stack) + 1
    BY <1>1, <2>2
  <2> QED
    BY <1>1, <1>4, <2>1, <2>2, <2>3
<1> QED
  BY <1>2, <1>3, <1>4

(* The publication in progress that is innermost.                          *)
LEMMA InnermostIsOK ==
  ASSUME BusInv, stack # <<>>
  PROVE  /\ Top \in Frame /\ FrameOK(Top)
         /\ Top.event \in Events /\ Top.registered \in Seq(Subscribers)
         /\ Top.rows \in Seq(Delivery)
<1>1. Top \in Frame /\ Len(stack) \in DOMAIN stack
  BY TopEffect DEF BusInv, TypeOK
<1> QED
  BY <1>1 DEF BusInv, Top, Frame

(* The row that a subscriber's answer adds.                                *)
RowOf(status) ==
  [ event |-> Top.event, status |-> status,
    subscriber |-> Top.registered[Len(Top.rows) + 1] ]

LEMMA DeliverEffect ==
  ASSUME BusInv, NEW status \in Statuses, Deliver(status)
  PROVE  /\ RowOf(status) \in Delivery
         /\ [ Top EXCEPT !.calling = FALSE,
                         !.rows = Append(@, RowOf(status)) ] \in Frame
         /\ FrameOK([ Top EXCEPT !.calling = FALSE,
                                 !.rows = Append(@, RowOf(status)) ])
<1> DEFINE row == RowOf(status)
           next == [ Top EXCEPT !.calling = FALSE, !.rows = Append(@, row) ]
<1>1. /\ stack # <<>> /\ Top.calling
      /\ Top \in Frame /\ FrameOK(Top)
      /\ Top.event \in Events /\ Top.registered \in Seq(Subscribers)
      /\ Top.rows \in Seq(Delivery)
  BY InnermostIsOK DEF Deliver
<1>2. /\ Len(Top.rows) \in Nat /\ Len(Top.registered) \in Nat
      /\ Len(Top.rows) < Len(Top.registered)
  BY <1>1 DEF FrameOK
<1>3. Top.registered[Len(Top.rows) + 1] \in Subscribers
  BY <1>1, <1>2
<1>4. row \in Delivery
  BY <1>1, <1>3 DEF RowOf, Delivery
<1>5. /\ row.event = Top.event
      /\ row.subscriber = Top.registered[Len(Top.rows) + 1]
  BY DEF RowOf
<1> HIDE DEF row
<1>6. /\ next.event = Top.event /\ next.registered = Top.registered
      /\ next.rows = Append(Top.rows, row) /\ ~next.calling
  BY <1>1 DEF Frame
<1>7. /\ Append(Top.rows, row) \in Seq(Delivery)
      /\ Len(Append(Top.rows, row)) = Len(Top.rows) + 1
      /\ \A k \in 1..Len(Top.rows) : Append(Top.rows, row)[k] = Top.rows[k]
      /\ Append(Top.rows, row)[Len(Top.rows) + 1] = row
  BY <1>1, <1>4
<1>8. next \in Frame
  BY <1>1, <1>7 DEF Frame
<1> HIDE DEF next
<1>9. ASSUME NEW k \in DOMAIN Append(Top.rows, row)
      PROVE  /\ Append(Top.rows, row)[k].subscriber = Top.registered[k]
             /\ Append(Top.rows, row)[k].event = Top.event
  <2>1. k \in 1..Len(Top.rows) \/ k = Len(Top.rows) + 1
    BY <1>2, <1>7
  <2>2. \A j \in 1..Len(Top.rows) :
          /\ Top.rows[j].subscriber = Top.registered[j]
          /\ Top.rows[j].event = Top.event
    BY <1>1 DEF FrameOK
  <2> QED
    BY <1>5, <1>7, <2>1, <2>2
<1>10. FrameOK(next)
  <2>1. IsInjective(Top.registered)
    BY <1>1 DEF FrameOK
  <2> QED
    BY <1>2, <1>6, <1>7, <1>9, <2>1 DEF FrameOK
<1> QED
  BY <1>4, <1>8, <1>10 DEF row, next

(* What ended: the record of a publication.                                *)
OutcomeOK ==
  /\ outcome # None =>
       /\ outcome.kind \in {"accepted", "duplicate", "raised"}
       /\ outcome.event \in Events /\ outcome.registered \in Seq(Subscribers)
       /\ outcome.rows \in Seq(Delivery)
  /\ AcceptedServesAll

(* A bus that has seen nothing.                                            *)
LEMMA FreshBus ==
  ASSUME NEW n \in Nat
  PROVE  /\ <<>> \in Seq(Events) /\ <<>> \in Seq(Delivery)
         /\ <<>> \in Seq(Subscribers) /\ <<>> \in Seq(Frame)
         /\ Len(<<>>) = 0 /\ IsInjective(<<>>) /\ Newest(<<>>, n) = <<>>
<1>1. KeepsNewest(Events, <<>>, n)
  <2>1. <<>> \in Seq(Events)
    OBVIOUS
  <2> QED
    BY <2>1, NewestEffect
<1>2. Newest(<<>>, n) \in Seq(Events) /\ Len(Newest(<<>>, n)) = 0
  BY <1>1 DEF KeepsNewest, Kept
<1>3. Newest(<<>>, n) = <<>>
  BY <1>2
<1> QED
  BY <1>3 DEF IsInjective

LEMMA BusStarts == Init => BusInv
<1> SUFFICES ASSUME Init PROVE BusInv
  OBVIOUS
<1>1. /\ events = <<>> /\ deliveries = <<>> /\ subscribers = <<>>
      /\ stack = <<>> /\ published = <<>> /\ outcome = None
      /\ MaxEvents \in Nat /\ MaxDeliveries \in Nat /\ MaxDepth \in Nat
  BY BoundsAssumption DEF Init
<1>2. TypeOK /\ AcceptedServesAll
  BY <1>1, FreshBus DEF TypeOK, AcceptedServesAll
<1> QED
  BY <1>1, <1>2, FreshBus DEF BusInv

(* Every step of the bus keeps its invariant.                              *)
LEMMA BusKeeps == BusInv /\ [Next]_vars => BusInv'
<1> SUFFICES ASSUME BusInv, [Next]_vars PROVE BusInv'
  OBVIOUS
<1>0. /\ events \in Seq(Events) /\ Len(events) <= MaxEvents
      /\ deliveries \in Seq(Delivery) /\ Len(deliveries) <= MaxDeliveries
      /\ subscribers \in Seq(Subscribers) /\ IsInjective(subscribers)
      /\ stack \in Seq(Frame) /\ Len(stack) <= MaxDepth
      /\ published \in Seq(Events)
      /\ \A i \in DOMAIN stack : FrameOK(stack[i])
      /\ events = Newest(published, MaxEvents) /\ IsInjective(events)
      /\ OutcomeOK
      /\ MaxEvents \in Nat \ {0} /\ MaxDeliveries \in Nat \ {0}
      /\ MaxDepth \in Nat \ {0}
  BY BoundsAssumption DEF BusInv, TypeOK, OutcomeOK
(* What the parts of the invariant need.                                   *)
<1>a. ASSUME \/ UNCHANGED <<events, published>>
             \/ \E event \in Events :
                  /\ ~Contains(events, event)
                  /\ events' = Newest(Append(events, event), MaxEvents)
                  /\ published' = Append(published, event),
             \/ UNCHANGED deliveries
             \/ \E row \in Delivery :
                  deliveries' = Newest(Append(deliveries, row), MaxDeliveries),
             \/ UNCHANGED subscribers
             \/ \E name \in Subscribers :
                  /\ ~Contains(subscribers, name)
                  /\ subscribers' = Append(subscribers, name),
             /\ stack' \in Seq(Frame) /\ Len(stack') <= MaxDepth
             /\ \A i \in DOMAIN stack' : FrameOK(stack'[i]),
             OutcomeOK'
      PROVE  BusInv'
  <2>1. /\ events' \in Seq(Events) /\ Len(events') <= MaxEvents
        /\ published' \in Seq(Events)
        /\ events' = Newest(published', MaxEvents) /\ IsInjective(events')
    <3>1. CASE UNCHANGED <<events, published>>
      BY <1>0, <3>1
    <3>2. ASSUME NEW event \in Events, ~Contains(events, event),
                 events' = Newest(Append(events, event), MaxEvents),
                 published' = Append(published, event)
          PROVE  /\ events' \in Seq(Events) /\ Len(events') <= MaxEvents
                 /\ published' \in Seq(Events)
                 /\ events' = Newest(published', MaxEvents)
                 /\ IsInjective(events')
      <4>1. Append(events, event) \in Seq(Events) /\ MaxEvents \in Nat
        BY <1>0
      <4>2. KeepsNewest(Events, Append(events, event), MaxEvents)
        BY <4>1, NewestEffect
      <4>3. events' \in Seq(Events) /\ Len(events') <= MaxEvents
        BY <1>0, <3>2, <4>2 DEF KeepsNewest, Kept
      <4>4. IsInjective(Append(events, event))
        BY <1>0, <3>2, AppendStaysInjective
      <4>5. IsInjective(events')
        BY <3>2, <4>1, <4>4, NewestStaysInjective
      <4>6. Newest(Append(Newest(published, MaxEvents), event), MaxEvents)
              = Newest(Append(published, event), MaxEvents)
        BY <1>0, NewestAsOneGoes
      <4> QED
        BY <1>0, <3>2, <4>3, <4>5, <4>6
    <3> QED
      BY <1>a, <3>1, <3>2
  <2>2. deliveries' \in Seq(Delivery) /\ Len(deliveries') <= MaxDeliveries
    <3>1. ASSUME NEW row \in Delivery,
                 deliveries' = Newest(Append(deliveries, row), MaxDeliveries)
          PROVE  deliveries' \in Seq(Delivery) /\ Len(deliveries') <= MaxDeliveries
      <4>1. Append(deliveries, row) \in Seq(Delivery) /\ MaxDeliveries \in Nat
        BY <1>0
      <4>2. KeepsNewest(Delivery, Append(deliveries, row), MaxDeliveries)
        BY <4>1, NewestEffect
      <4> QED
        BY <1>0, <3>1, <4>2 DEF KeepsNewest, Kept
    <3>2. CASE UNCHANGED deliveries
      BY <1>0, <3>2
    <3> QED
      BY <1>a, <3>1, <3>2
  <2>3. subscribers' \in Seq(Subscribers) /\ IsInjective(subscribers')
    <3>1. ASSUME NEW name \in Subscribers, ~Contains(subscribers, name),
                 subscribers' = Append(subscribers, name)
          PROVE  subscribers' \in Seq(Subscribers) /\ IsInjective(subscribers')
      BY <1>0, <3>1, AppendStaysInjective
    <3>2. CASE UNCHANGED subscribers
      BY <1>0, <3>2
    <3> QED
      BY <1>a, <3>1, <3>2
  <2>4. /\ TypeOK' /\ AcceptedServesAll'
    BY <1>a, <2>1, <2>2, <2>3 DEF TypeOK, OutcomeOK
  <2> QED
    BY <1>a, <2>1, <2>4 DEF BusInv
<1>b. ASSUME UNCHANGED outcome PROVE OutcomeOK'
  BY <1>0, <1>b DEF OutcomeOK, AcceptedServesAll
<1>c. ASSUME UNCHANGED stack
      PROVE  /\ stack' \in Seq(Frame) /\ Len(stack') <= MaxDepth
             /\ \A i \in DOMAIN stack' : FrameOK(stack'[i])
  BY <1>0, <1>c
<1>1. ASSUME NEW name \in Subscribers, Subscribe(name) PROVE BusInv'
  <2>1. /\ ~Contains(subscribers, name) /\ subscribers' = Append(subscribers, name)
        /\ UNCHANGED <<events, deliveries, stack, published, outcome>>
    BY <1>1 DEF Subscribe
  <2> QED
    BY <1>a, <1>b, <1>c, <2>1
<1>2. ASSUME NEW event \in Events, PublishDuplicate(event) PROVE BusInv'
  <2>1. /\ End("duplicate", event, subscribers, <<>>)
        /\ UNCHANGED <<events, deliveries, subscribers, stack, published>>
    BY <1>2 DEF PublishDuplicate
  <2>2. OutcomeOK'
    BY <1>0, <2>1 DEF End, OutcomeOK, AcceptedServesAll
  <2> QED
    BY <1>a, <1>c, <2>1, <2>2
<1>3. ASSUME NEW event \in Events, Publish(event) PROVE BusInv'
  <2> DEFINE frame == [ event |-> event, registered |-> subscribers,
                        rows |-> <<>>, calling |-> FALSE ]
  <2>1. /\ ~Contains(events, event) /\ Len(stack) < MaxDepth
        /\ events' = Newest(Append(events, event), MaxEvents)
        /\ published' = Append(published, event)
        /\ stack' = Append(stack, frame)
        /\ UNCHANGED <<deliveries, subscribers, outcome>>
    BY <1>3 DEF Publish
  <2>2. frame \in Frame
    BY <1>0 DEF Frame
  <2>3. FrameOK(frame)
    BY <1>0 DEF FrameOK
  <2> HIDE DEF frame
  <2>4. /\ stack' \in Seq(Frame) /\ Len(stack') <= MaxDepth
        /\ \A i \in DOMAIN stack' : FrameOK(stack'[i])
    BY <2>1, <2>2, <2>3, StackStep
  <2> QED
    BY <1>a, <1>b, <2>1, <2>4
<1>4. CASE CallNext
  <2> DEFINE frame == [ Top EXCEPT !.calling = TRUE ]
  <2>1. /\ stack # <<>> /\ Len(Top.rows) < Len(Top.registered)
        /\ stack' = WithTop(frame)
        /\ UNCHANGED <<events, deliveries, subscribers, published, outcome>>
    BY <1>4 DEF CallNext, Looping
  <2>2. Top \in Frame /\ FrameOK(Top)
    BY <2>1, InnermostIsOK
  <2>3. /\ frame \in Frame /\ frame.event = Top.event
        /\ frame.registered = Top.registered /\ frame.rows = Top.rows
    BY <2>2 DEF Frame
  <2> HIDE DEF frame
  <2>4. FrameOK(frame)
    BY <2>1, <2>2, <2>3 DEF FrameOK
  <2>5. /\ stack' \in Seq(Frame) /\ Len(stack') <= MaxDepth
        /\ \A i \in DOMAIN stack' : FrameOK(stack'[i])
    BY <2>1, <2>3, <2>4, StackStep
  <2> QED
    BY <1>a, <1>b, <2>1, <2>5
<1>5. ASSUME NEW status \in Statuses, Deliver(status) PROVE BusInv'
  <2> DEFINE frame == [ Top EXCEPT !.calling = FALSE,
                                   !.rows = Append(@, RowOf(status)) ]
  <2>1. /\ stack # <<>> /\ stack' = WithTop(frame)
        /\ deliveries' = Newest(Append(deliveries, RowOf(status)), MaxDeliveries)
        /\ UNCHANGED <<events, subscribers, published, outcome>>
    BY <1>5 DEF Deliver, RowOf
  <2>2. RowOf(status) \in Delivery /\ frame \in Frame /\ FrameOK(frame)
    BY <1>5, DeliverEffect
  <2> HIDE DEF frame
  <2>3. /\ stack' \in Seq(Frame) /\ Len(stack') <= MaxDepth
        /\ \A i \in DOMAIN stack' : FrameOK(stack'[i])
    BY <2>1, <2>2, StackStep
  <2> QED
    BY <1>a, <1>b, <2>1, <2>2, <2>3
<1>6. CASE Return \/ RaiseChanged
  <2>1. /\ stack # <<>> /\ stack' = Pop
        /\ UNCHANGED <<events, deliveries, subscribers, published>>
    BY <1>6 DEF Return, RaiseChanged, Looping
  <2>2. /\ stack' \in Seq(Frame) /\ Len(stack') <= MaxDepth
        /\ \A i \in DOMAIN stack' : FrameOK(stack'[i])
    BY <2>1, StackStep
  <2>3. OutcomeOK'
    <3>1. /\ FrameOK(Top) /\ Top.event \in Events
          /\ Top.registered \in Seq(Subscribers) /\ Top.rows \in Seq(Delivery)
      BY <2>1, InnermostIsOK
    <3>2. CASE Return
      <4>1. /\ End("accepted", Top.event, Top.registered, Top.rows)
            /\ Len(Top.rows) = Len(Top.registered)
        BY <3>2 DEF Return
      <4>2. /\ outcome'.kind = "accepted" /\ outcome'.event = Top.event
            /\ outcome'.registered = Top.registered /\ outcome'.rows = Top.rows
        BY <4>1 DEF End
      <4>3. /\ Served(Top.rows, Top.registered)
            /\ \A k \in DOMAIN Top.rows : Top.rows[k].event = Top.event
        BY <3>1, <4>1 DEF FrameOK, Served
      <4> QED
        BY <3>1, <4>2, <4>3 DEF OutcomeOK, AcceptedServesAll
    <3>3. CASE RaiseChanged
      <4>1. End("raised", Top.event, Top.registered, Top.rows)
        BY <3>3 DEF RaiseChanged
      <4>2. /\ outcome'.kind = "raised" /\ outcome'.event = Top.event
            /\ outcome'.registered = Top.registered /\ outcome'.rows = Top.rows
        BY <4>1 DEF End
      <4> QED
        BY <3>1, <4>2 DEF OutcomeOK, AcceptedServesAll
    <3> QED
      BY <1>6, <3>2, <3>3
  <2> QED
    BY <1>a, <2>1, <2>2, <2>3
<1>7. CASE Restart
  <2>1. /\ events' = <<>> /\ deliveries' = <<>> /\ subscribers' = <<>>
        /\ stack' = <<>> /\ published' = <<>> /\ outcome' = None
        /\ MaxEvents \in Nat /\ MaxDeliveries \in Nat /\ MaxDepth \in Nat
    BY <1>0, <1>7 DEF Restart
  <2>2. TypeOK' /\ AcceptedServesAll'
    BY <2>1, FreshBus DEF TypeOK, AcceptedServesAll
  <2> QED
    BY <2>1, <2>2, FreshBus DEF BusInv
<1>8. CASE UNCHANGED vars
  BY <1>a, <1>b, <1>c, <1>8 DEF vars
<1> QED
  BY <1>1, <1>2, <1>3, <1>4, <1>5, <1>6, <1>7, <1>8 DEF Next

(* Every variable keeps its type within its bound.                         *)
THEOREM BusTypeCorrect == Spec => []TypeOK
<1>1. BusInv => TypeOK
  BY DEF BusInv
<1> QED
  BY <1>1, BusStarts, BusKeeps, PTL DEF Spec

(* The retained events are the latest accepted ones in publication order,  *)
(* none twice, also when subscribers publish in the middle of others.      *)
THEOREM WindowIsTheLatest == Spec => []EventsAreTheLatest
<1>1. BusInv => EventsAreTheLatest
  <2> SUFFICES ASSUME BusInv PROVE EventsAreTheLatest
    OBVIOUS
  <2>1. /\ published \in Seq(Events) /\ MaxEvents \in Nat /\ events \in Seq(Events)
        /\ events = Newest(published, MaxEvents) /\ IsInjective(events)
    BY BoundsAssumption DEF BusInv, TypeOK
  <2>2. IsSuffix(events, published)
    BY <2>1, NewestIsSuffix
  <2>3. KeepsNewest(Events, published, MaxEvents)
    BY <2>1, NewestEffect
  <2>4. ASSUME Len(events) < MaxEvents PROVE events = published
    <3>1. Kept(published, MaxEvents) = Len(published)
      BY <2>1, <2>3, <2>4 DEF KeepsNewest, Kept
    <3>2. /\ Len(events) = Len(published)
          /\ \A i \in 1..Len(published) :
               events[i] = published[Len(published) - Len(published) + i]
      BY <2>1, <2>3, <3>1 DEF KeepsNewest
    <3>3. \A i \in 1..Len(published) : events[i] = published[i]
      BY <2>1, <3>2
    <3> QED
      BY <2>1, <3>2, <3>3
  <2> QED
    BY <2>1, <2>2, <2>4 DEF EventsAreTheLatest
<1> QED
  BY <1>1, BusStarts, BusKeeps, PTL DEF Spec

(* A publication that returns has called every subscriber once, in the     *)
(* order of registration, whichever of them failed or published.           *)
THEOREM AcceptedMeansServed == Spec => []AcceptedServesAll
<1>1. BusInv => AcceptedServesAll
  BY DEF BusInv
<1> QED
  BY <1>1, BusStarts, BusKeeps, PTL DEF Spec

-----------------------------------------------------------------------------
(* The audit's rows. *)

OccursIn(seq, event) == \E n \in DOMAIN seq : seq[n] = event
OnceIn(seq, event) == Cardinality({ k \in DOMAIN seq : seq[k] = event }) = 1

(* AuditCountsEachOnce, of any publications and rows.                      *)
RowsApart(seq, rows) ==
  \A j, k \in DOMAIN rows :
    /\ rows[j].event = rows[k].event
    /\ rows[j].subscriber = rows[k].subscriber
    /\ OnceIn(seq, rows[j].event)
    => j = k

(* Of an event that is published once there is one publication at most,    *)
(* and what it has delivered are the rows of that publication.             *)
AuditInv ==
  /\ \A k \in DOMAIN deliveries : OccursIn(published, deliveries[k].event)
  /\ \A i \in DOMAIN stack : OccursIn(published, stack[i].event)
  /\ \A i, j \in DOMAIN stack :
       stack[i].event = stack[j].event /\ OnceIn(published, stack[i].event) => i = j
  /\ \A i \in DOMAIN stack, k \in DOMAIN deliveries :
       deliveries[k].event = stack[i].event /\ OnceIn(published, stack[i].event) =>
         \E r \in DOMAIN stack[i].rows :
           stack[i].rows[r].subscriber = deliveries[k].subscriber
  /\ RowsApart(published, deliveries)

(* What one more publication does to the events that are published once.   *)
LEMMA OncePublished ==
  ASSUME published \in Seq(Events), NEW x \in Events, NEW e,
         published' = Append(published, x), OnceIn(published', e)
  PROVE  IF e = x THEN ~OccursIn(published, e) ELSE OnceIn(published, e)
<1> DEFINE Places == { k \in DOMAIN published : published[k] = e }
           PlacesAfter == { k \in DOMAIN published' : published'[k] = e }
           len == Len(published)
<1>1. /\ len \in Nat /\ DOMAIN published = 1..len
      /\ DOMAIN published' = 1..(len + 1)
      /\ \A k \in 1..len : published'[k] = published[k]
      /\ published'[len + 1] = x
  OBVIOUS
<1>2. Cardinality(PlacesAfter) = 1
  BY DEF OnceIn
<1>3. CASE e # x
  <2>1. PlacesAfter = Places
    BY <1>1, <1>3
  <2> QED
    BY <1>2, <1>3, <2>1 DEF OnceIn
<1>4. CASE e = x
  <2>1. PlacesAfter = Places \cup {len + 1} /\ len + 1 \notin Places
    BY <1>1, <1>4
  <2>2. IsFiniteSet(Places)
    <3>1. Places \subseteq 1..len /\ 1 \in Int /\ len \in Int
      BY <1>1
    <3> QED
      BY <3>1, FS_Interval, FS_Subset
  <2>3. Cardinality(PlacesAfter) = Cardinality(Places) + 1
    BY <2>1, <2>2, FS_AddElement
  <2>4. Cardinality(Places) = 0
    <3>1. Cardinality(Places) \in Nat
      BY <2>2, FS_CardinalityType
    <3> HIDE DEF Places, PlacesAfter
    <3> QED
      BY <1>2, <2>3, <3>1
  <2>5. Places = {}
    BY <2>2, <2>4, FS_EmptySet
  <2> QED
    BY <1>4, <2>5 DEF OccursIn
<1> QED
  BY <1>3, <1>4

(* What a session starts with.                                             *)
LEMMA AuditStarts == Init => AuditInv
<1> SUFFICES ASSUME Init PROVE AuditInv
  OBVIOUS
<1>1. DOMAIN deliveries = {} /\ DOMAIN stack = {}
  BY DEF Init
<1> QED
  BY <1>1 DEF AuditInv, RowsApart

(* Every step of the bus keeps the audit's counts apart.                   *)
LEMMA AuditKeeps == BusInv /\ AuditInv /\ [Next]_vars => AuditInv'
<1> SUFFICES ASSUME BusInv, AuditInv, [Next]_vars PROVE AuditInv'
  OBVIOUS
<1>0. /\ deliveries \in Seq(Delivery) /\ stack \in Seq(Frame)
      /\ published \in Seq(Events) /\ Len(stack) \in Nat
      /\ DOMAIN stack = 1..Len(stack)
      /\ MaxDeliveries \in Nat
  BY BoundsAssumption DEF BusInv, TypeOK
(* Publications that go on or end add nothing.                             *)
<1>a. ASSUME UNCHANGED <<published, deliveries>>,
             \A i \in DOMAIN stack' :
               /\ i \in DOMAIN stack
               /\ stack'[i].event = stack[i].event
               /\ stack'[i].rows = stack[i].rows
      PROVE  AuditInv'
  <2>1. \A e : /\ OnceIn(published', e) <=> OnceIn(published, e)
               /\ OccursIn(published', e) <=> OccursIn(published, e)
    BY <1>a DEF OnceIn, OccursIn
  <2>2. RowsApart(published', deliveries')
    BY <1>a, <2>1 DEF AuditInv, RowsApart
  <2>3. \A i \in DOMAIN stack' : OccursIn(published', stack'[i].event)
    BY <1>a, <2>1 DEF AuditInv
  <2>4. \A k \in DOMAIN deliveries' : OccursIn(published', deliveries'[k].event)
    BY <1>a, <2>1 DEF AuditInv
  <2>5. \A i, j \in DOMAIN stack' :
          stack'[i].event = stack'[j].event /\ OnceIn(published', stack'[i].event) => i = j
    BY <1>a, <2>1 DEF AuditInv
  <2>6. \A i \in DOMAIN stack', k \in DOMAIN deliveries' :
          deliveries'[k].event = stack'[i].event /\ OnceIn(published', stack'[i].event) =>
            \E r \in DOMAIN stack'[i].rows :
              stack'[i].rows[r].subscriber = deliveries'[k].subscriber
    BY <1>a, <2>1 DEF AuditInv
  <2> QED
    BY <2>2, <2>3, <2>4, <2>5, <2>6 DEF AuditInv
<1>1. ASSUME \/ \E name \in Subscribers : Subscribe(name)
             \/ \E event \in Events : PublishDuplicate(event)
             \/ UNCHANGED vars
      PROVE  AuditInv'
  <2>1. UNCHANGED <<published, deliveries, stack>>
    BY <1>1 DEF Subscribe, PublishDuplicate, vars
  <2> QED
    BY <1>a, <2>1
<1>2. ASSUME NEW event \in Events, Publish(event) PROVE AuditInv'
  <2> DEFINE frame == [ event |-> event, registered |-> subscribers,
                        rows |-> <<>>, calling |-> FALSE ]
             len == Len(stack)
  <2>1. /\ published' = Append(published, event) /\ UNCHANGED deliveries
        /\ stack' = Append(stack, frame)
    BY <1>2 DEF Publish
  <2>2. frame \in Frame
    BY DEF Frame, BusInv, TypeOK
  <2>3. frame.event = event
    OBVIOUS
  <2> HIDE DEF frame
  <2>4. /\ DOMAIN stack' = 1..(len + 1) /\ len \in Nat
        /\ \A i \in 1..len : stack'[i] = stack[i]
        /\ stack'[len + 1] = frame
    BY <1>0, <2>1, <2>2
  <2>5. \A i \in DOMAIN stack' : i \in DOMAIN stack \/ i = len + 1
    BY <1>0, <2>4
  <2>6. \A e : OnceIn(published', e) =>
               IF e = event THEN ~OccursIn(published, e) ELSE OnceIn(published, e)
    BY <1>0, <2>1, OncePublished
  <2>7. \A e : OccursIn(published, e) \/ e = event => OccursIn(published', e)
    <3>1. /\ \A n \in DOMAIN published :
               n \in DOMAIN published' /\ published'[n] = published[n]
          /\ Len(published) + 1 \in DOMAIN published'
          /\ published'[Len(published) + 1] = event
      BY <1>0, <2>1
    <3> QED
      BY <3>1 DEF OccursIn
  <2>8. \A k \in DOMAIN deliveries' :
          /\ OccursIn(published', deliveries'[k].event)
          /\ OnceIn(published', deliveries'[k].event) =>
               deliveries'[k].event # event /\ OnceIn(published, deliveries'[k].event)
    BY <2>1, <2>6, <2>7 DEF AuditInv
  <2>9. RowsApart(published', deliveries')
    BY <2>1, <2>8 DEF AuditInv, RowsApart
  <2>10. ASSUME NEW i \in DOMAIN stack' PROVE OccursIn(published', stack'[i].event)
    BY <1>0, <2>3, <2>4, <2>5, <2>7 DEF AuditInv
  <2>11. \A i \in DOMAIN stack :
           OnceIn(published', stack[i].event) =>
             stack[i].event # event /\ OnceIn(published, stack[i].event)
    BY <2>6 DEF AuditInv
  <2>12. ASSUME NEW i \in DOMAIN stack', NEW j \in DOMAIN stack',
                stack'[i].event = stack'[j].event, OnceIn(published', stack'[i].event)
         PROVE  i = j
    BY <1>0, <2>3, <2>4, <2>5, <2>11, <2>12 DEF AuditInv
  <2>13. ASSUME NEW i \in DOMAIN stack', NEW k \in DOMAIN deliveries',
                deliveries'[k].event = stack'[i].event, OnceIn(published', stack'[i].event)
         PROVE  \E r \in DOMAIN stack'[i].rows :
                  stack'[i].rows[r].subscriber = deliveries'[k].subscriber
    <3>1. CASE i \in DOMAIN stack
      <4>1. stack'[i] = stack[i] /\ OnceIn(published, stack[i].event)
        BY <1>0, <2>4, <2>11, <2>13, <3>1
      <4> QED
        BY <2>1, <2>13, <3>1, <4>1 DEF AuditInv
    <3>2. CASE i = len + 1
      BY <2>3, <2>4, <2>8, <2>13, <3>2
    <3> QED
      BY <2>5, <3>1, <3>2
  <2> QED
    BY <2>8, <2>9, <2>10, <2>12, <2>13 DEF AuditInv
<1>3. CASE CallNext
  <2> DEFINE frame == [ Top EXCEPT !.calling = TRUE ]
             len == Len(stack)
  <2>1. /\ stack # <<>> /\ stack' = WithTop(frame)
        /\ UNCHANGED <<published, deliveries>>
    BY <1>3 DEF CallNext, Looping
  <2>2. /\ frame \in Frame /\ frame.event = Top.event /\ frame.rows = Top.rows
    BY <2>1, InnermostIsOK DEF Frame
  <2> HIDE DEF frame
  <2>3. /\ DOMAIN stack' = 1..len
        /\ \A i \in 1..(len - 1) : stack'[i] = stack[i]
        /\ stack'[len] = frame
    <3>1. /\ WithTop(frame) \in Seq(Frame) /\ Len(WithTop(frame)) = Len(stack)
          /\ \A i \in 1..(Len(stack) - 1) : WithTop(frame)[i] = stack[i]
          /\ WithTop(frame)[Len(stack)] = frame
      BY <1>0, <2>1, <2>2, WithTopEffect
    <3> QED
      BY <2>1, <3>1
  <2>4. \A i \in DOMAIN stack' : i \in 1..(len - 1) \/ i = len
    BY <1>0, <2>3
  <2> QED
    BY <1>0, <1>a, <2>1, <2>2, <2>3, <2>4 DEF Top
<1>4. CASE Return \/ RaiseChanged
  <2>1. /\ stack # <<>> /\ stack' = Pop /\ UNCHANGED <<published, deliveries>>
    BY <1>4 DEF Return, RaiseChanged, Looping
  <2>2. /\ Pop \in Seq(Frame) /\ Len(Pop) = Len(stack) - 1
        /\ \A i \in 1..(Len(stack) - 1) : Pop[i] = stack[i]
    BY <1>0, <2>1, TopEffect
  <2>3. DOMAIN stack' = 1..(Len(stack) - 1)
    BY <1>0, <2>1, <2>2
  <2>4. \A i \in DOMAIN stack' : i \in DOMAIN stack /\ stack'[i] = stack[i]
    BY <1>0, <2>1, <2>2, <2>3
  <2> QED
    BY <1>a, <2>1, <2>4
<1>5. ASSUME NEW status \in Statuses, Deliver(status) PROVE AuditInv'
  <2> DEFINE row == RowOf(status)
             frame == [ Top EXCEPT !.calling = FALSE, !.rows = Append(@, row) ]
             len == Len(stack)
             more == Append(deliveries, row)
             many == Len(deliveries)
  <2>1. /\ stack # <<>> /\ stack' = WithTop(frame)
        /\ deliveries' = Newest(more, MaxDeliveries)
        /\ UNCHANGED published
    BY <1>5 DEF Deliver, RowOf
  <2>2. /\ row \in Delivery /\ frame \in Frame /\ FrameOK(frame)
        /\ Top \in Frame /\ FrameOK(Top) /\ Top.rows \in Seq(Delivery)
        /\ Top.registered \in Seq(Subscribers)
        /\ Len(Top.rows) < Len(Top.registered)
    BY <1>5, <2>1, DeliverEffect, InnermostIsOK DEF Deliver, FrameOK
  <2>3. /\ frame.event = Top.event /\ frame.rows = Append(Top.rows, row)
        /\ row.event = Top.event
        /\ row.subscriber = Top.registered[Len(Top.rows) + 1]
    BY <2>2 DEF Frame, RowOf
  <2> HIDE DEF row, frame, more
  <2>4. /\ DOMAIN stack' = 1..len /\ len \in DOMAIN stack
        /\ \A i \in 1..(len - 1) : stack'[i] = stack[i]
        /\ stack'[len] = frame /\ Top = stack[len]
    <3>1. /\ WithTop(frame) \in Seq(Frame) /\ Len(WithTop(frame)) = Len(stack)
          /\ \A i \in 1..(Len(stack) - 1) : WithTop(frame)[i] = stack[i]
          /\ WithTop(frame)[Len(stack)] = frame
      BY <1>0, <2>1, <2>2, WithTopEffect
    <3>2. len \in DOMAIN stack
      BY <1>0, <2>1
    <3> QED
      BY <2>1, <3>1, <3>2 DEF Top
  <2>5. \A i \in DOMAIN stack' :
          /\ i \in DOMAIN stack /\ stack'[i].event = stack[i].event
          /\ \/ stack'[i].rows = stack[i].rows
             \/ i = len /\ stack'[i].rows = Append(stack[i].rows, row)
    <3>1. \A i \in DOMAIN stack' : i \in 1..(len - 1) \/ i = len
      BY <1>0, <2>4
    <3> QED
      BY <1>0, <2>3, <2>4, <3>1
  <2>6. \A e : /\ OnceIn(published', e) <=> OnceIn(published, e)
               /\ OccursIn(published', e) <=> OccursIn(published, e)
    BY <2>1 DEF OnceIn, OccursIn
  (* The rows with the new one, before the oldest may be dropped.          *)
  <2>7. /\ more \in Seq(Delivery) /\ DOMAIN more = 1..(many + 1) /\ many \in Nat
        /\ DOMAIN deliveries = 1..many
        /\ \A k \in 1..many : more[k] = deliveries[k]
        /\ more[many + 1] = row
    BY <1>0, <2>2 DEF more
  <2>8. \A k \in DOMAIN more : k \in DOMAIN deliveries \/ k = many + 1
    BY <2>7
  <2>9. \A k \in DOMAIN more : OccursIn(published, more[k].event)
    BY <2>3, <2>4, <2>7, <2>8 DEF AuditInv
  <2>10. \A r \in DOMAIN Top.rows :
           Top.rows[r].subscriber = Top.registered[r] /\ r # Len(Top.rows) + 1
    BY <2>2 DEF FrameOK
  (* The new row is of nobody whom this publication has called.            *)
  <2>11. ASSUME NEW k \in DOMAIN deliveries, OnceIn(published, Top.event),
                deliveries[k].event = row.event,
                deliveries[k].subscriber = row.subscriber
         PROVE  FALSE
    <3>1. PICK r \in DOMAIN Top.rows :
                 Top.rows[r].subscriber = deliveries[k].subscriber
      BY <2>3, <2>4, <2>11 DEF AuditInv
    <3>2. Top.registered[r] = Top.registered[Len(Top.rows) + 1]
      BY <2>3, <2>10, <2>11, <3>1
    <3>3. r \in DOMAIN Top.registered /\ Len(Top.rows) + 1 \in DOMAIN Top.registered
      BY <2>2, <3>1
    <3> QED
      BY <2>2, <2>10, <3>1, <3>2, <3>3 DEF FrameOK, IsInjective
  <2>12. ASSUME NEW j \in DOMAIN more, NEW k \in DOMAIN more,
                more[j].event = more[k].event,
                more[j].subscriber = more[k].subscriber, OnceIn(published, more[j].event)
         PROVE  j = k
    <3>1. CASE j \in DOMAIN deliveries /\ k \in DOMAIN deliveries
      BY <2>7, <2>12, <3>1 DEF AuditInv, RowsApart
    <3>2. CASE j \in DOMAIN deliveries /\ k = many + 1
      BY <2>3, <2>7, <2>11, <2>12, <3>2
    <3>3. CASE k \in DOMAIN deliveries /\ j = many + 1
      BY <2>3, <2>7, <2>11, <2>12, <3>3
    <3> QED
      BY <2>8, <3>1, <3>2, <3>3
  <2>13. ASSUME NEW i \in DOMAIN stack', NEW k \in DOMAIN more,
                more[k].event = stack'[i].event, OnceIn(published, stack'[i].event)
         PROVE  \E r \in DOMAIN stack'[i].rows :
                  stack'[i].rows[r].subscriber = more[k].subscriber
    <3>1. i \in DOMAIN stack /\ stack'[i].event = stack[i].event
      BY <2>5
    <3>2. \A r \in DOMAIN stack[i].rows :
            /\ r \in DOMAIN stack'[i].rows
            /\ stack'[i].rows[r] = stack[i].rows[r]
      <4>1. stack[i] \in Frame
        BY <1>0, <3>1
      <4>2. stack[i].rows \in Seq(Delivery)
        BY <4>1 DEF Frame
      <4>3. \/ stack'[i].rows = stack[i].rows
            \/ stack'[i].rows = Append(stack[i].rows, row)
        BY <2>5
      <4> QED
        BY <2>2, <4>2, <4>3
    <3>3. CASE k \in DOMAIN deliveries
      <4>1. \E r \in DOMAIN stack[i].rows :
              stack[i].rows[r].subscriber = deliveries[k].subscriber
        BY <2>7, <2>13, <3>1, <3>3 DEF AuditInv
      <4> QED
        BY <2>7, <3>2, <3>3, <4>1
    <3>4. CASE k = many + 1
      <4>1. i = len
        BY <2>3, <2>4, <2>7, <2>13, <3>1, <3>4 DEF AuditInv
      <4>2. /\ Len(Top.rows) + 1 \in DOMAIN frame.rows
            /\ frame.rows[Len(Top.rows) + 1] = row
        BY <2>2, <2>3
      <4> QED
        BY <2>4, <2>7, <3>4, <4>1, <4>2
    <3> QED
      BY <2>8, <3>3, <3>4
  (* What is retained of them.                                             *)
  <2>14. \A k \in DOMAIN deliveries' :
           /\ Len(more) - Kept(more, MaxDeliveries) + k \in DOMAIN more
           /\ deliveries'[k] = more[Len(more) - Kept(more, MaxDeliveries) + k]
           /\ k \in Nat
    <3>1. KeepsNewest(Delivery, more, MaxDeliveries)
      BY <1>0, <2>7, NewestEffect
    <3>2. \A k \in DOMAIN deliveries' : k \in Nat
      BY <2>1, <3>1 DEF KeepsNewest
    <3> QED
      BY <1>0, <2>1, <2>7, <3>2, NewestIsPart
  <2>15. Len(more) \in Nat /\ Kept(more, MaxDeliveries) \in Nat
    BY <1>0, <2>7 DEF Kept
  <2>16. \A k \in DOMAIN deliveries' : OccursIn(published', deliveries'[k].event)
    BY <2>6, <2>9, <2>14
  <2>17. RowsApart(published', deliveries')
    <3> SUFFICES ASSUME NEW j \in DOMAIN deliveries', NEW k \in DOMAIN deliveries',
                        deliveries'[j].event = deliveries'[k].event,
                        deliveries'[j].subscriber = deliveries'[k].subscriber,
                        OnceIn(published', deliveries'[j].event)
                 PROVE  j = k
      BY DEF RowsApart
    <3> DEFINE off == Len(more) - Kept(more, MaxDeliveries)
    <3>1. off + j = off + k
      BY <2>6, <2>12, <2>14
    <3>2. off \in Int /\ j \in Nat /\ k \in Nat
      BY <2>14, <2>15
    <3> HIDE DEF off
    <3> QED
      BY <3>1, <3>2
  <2>18. \A i \in DOMAIN stack', k \in DOMAIN deliveries' :
           deliveries'[k].event = stack'[i].event /\ OnceIn(published', stack'[i].event) =>
             \E r \in DOMAIN stack'[i].rows :
               stack'[i].rows[r].subscriber = deliveries'[k].subscriber
    BY <2>6, <2>13, <2>14
  <2>19. \A i \in DOMAIN stack' : OccursIn(published', stack'[i].event)
    BY <2>5, <2>6 DEF AuditInv
  <2>20. \A i, j \in DOMAIN stack' :
           stack'[i].event = stack'[j].event /\ OnceIn(published', stack'[i].event) => i = j
    BY <2>5, <2>6 DEF AuditInv
  <2> QED
    BY <2>16, <2>17, <2>18, <2>19, <2>20 DEF AuditInv
<1>6. CASE Restart
  <2>1. DOMAIN deliveries' = {} /\ DOMAIN stack' = {}
    BY <1>6 DEF Restart
  <2> QED
    BY <2>1 DEF AuditInv, RowsApart
<1> QED
  BY <1>1, <1>2, <1>3, <1>4, <1>5, <1>6 DEF Next

(* The audit's totals: of an event that was accepted once no subscriber    *)
(* has more than one row, whatever publishes, fails or is evicted between. *)
THEOREM AuditCountsOnce == Spec => []AuditCountsEachOnce
<1>1. AuditInv => AuditCountsEachOnce
  BY DEF AuditInv, RowsApart, OnceIn, AuditCountsEachOnce, Once
<1> QED
  BY <1>1, BusStarts, BusKeeps, AuditStarts, AuditKeeps, PTL DEF Spec

=============================================================================
