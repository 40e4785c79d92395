--------------------------- MODULE InstrumentMaster ---------------------------
(***************************************************************************)
(* The broker's public instrument master and the local copies of it:       *)
(* application/instrument_sync.py and public_instrument_source.py over     *)
(* infrastructure/instruments/sqlite_repository.py, and the download of    *)
(* infrastructure/instruments/angel_one.py, as several browser sessions    *)
(* use them at once.                                                       *)
(*                                                                         *)
(* A sync takes its time stamp, asks for the latest copy and the last      *)
(* check, downloads, looks for the content, inserts it and records the     *)
(* check; each of these is a transaction or a request of its own, so that  *)
(* the steps of two sessions interleave and a session may end between any  *)
(* two.  A session here is a thread that runs the page: the services of    *)
(* the master keep nothing between calls, so that it does not matter whose *)
(* browser a thread serves.  The publisher replaces the master whenever it *)
(* likes, also during a transfer.                                          *)
(*                                                                         *)
(* A content hash is the content.  A master is transferred in two halves,  *)
(* so that a resumed transfer may join halves of different masters.        *)
(***************************************************************************)
EXTENDS Integers, Sequences

CONSTANTS
  Sessions,     \* threads that run a page
  Masters,      \* what the publisher may publish
  Instruments,  \* canonical instrument identities
  Listed,       \* per master, the instruments in each of its halves
  MaxAttempts,  \* connections one download makes at most
  MaxAge,       \* of a check that still counts as fresh
  MaxNow,       \* bound on the stamps of a behaviour
  PerSecond,    \* stamps in a second, the resolution of a snapshot's name
  Absent

ASSUME ListedAssumption ==
  Listed \in [Masters -> (SUBSET Instruments) \X (SUBSET Instruments)]
ASSUME BoundsAssumption ==
  /\ MaxAttempts \in Nat \ {0} /\ PerSecond \in Nat \ {0}
  /\ MaxAge \in Nat /\ MaxNow \in Nat

Stamps == 0..MaxNow
Content == Masters \X Masters
Snapshot == [ content : Content, downloaded_at : Stamps ]
SnapshotId == [ content : Content, second : Nat ]
Check == [ snapshot_id : SnapshotId, last_checked_at : Stamps ]

IdOf(snapshot) ==
  [ content |-> snapshot.content,
    second |-> snapshot.downloaded_at \div PerSecond ]

InstrumentsOf(content) == Listed[content[1]][1] \cup Listed[content[2]][2]

(* A normalized snapshot names no instrument twice.                        *)
WellFormed(content) == Listed[content[1]][1] \cap Listed[content[2]][2] = {}

Answer ==
  [ snapshot : Snapshot, since : Stamps,
    reason : { "fresh_snapshot", "unchanged_content",
               "downloaded_new_snapshot" } ]

(* A call's locals: its stamp, whether it was forced, the latest copy it   *)
(* read, the halves received, the connections made, and the copy it will   *)
(* answer with.                                                            *)
Call ==
  [ now : Stamps, force : BOOLEAN, latest : Snapshot \cup {Absent},
    received : Seq(Masters), attempts : Nat,
    result : Snapshot \cup {Absent} ]

ASSUME AbsentAssumption ==
  /\ Absent \notin Masters
  /\ Absent \notin Stamps
  /\ Absent \notin Snapshot \cup Check \cup Answer \cup Call

VARIABLES
  now,        \* the last stamp anybody took
  published,  \* the master that the source serves
  withdrawn,  \* when each other master was last served (a history)
  snapshots,  \* the retained snapshots
  checked,    \* the row of instrument_master_sync_state
  answer,     \* the last answer given to a caller (a history)
  orderly,    \* no two syncs overlapped and no master came back (a history)
  pc,         \* per session, the stage of its sync
  call        \* per session, the locals of that sync

tables == <<snapshots, checked>>
world == <<published, withdrawn>>
master == <<now, world, tables, answer, orderly, pc, call>>

Stages ==
  {"idle", "age", "download", "find", "confirm", "lookup", "insert", "record"}

CallsOK ==
  /\ pc \in [Sessions -> Stages]
  /\ call \in [Sessions -> Call \cup {Absent}]
  /\ \A s \in Sessions :
       /\ pc[s] = "idle" <=> call[s] = Absent
       /\ pc[s] # "idle" =>
            Len(call[s].received) <= 2 /\ call[s].attempts < MaxAttempts

TypeOK ==
  /\ now \in Stamps
  /\ published \in Masters
  /\ withdrawn \in [Masters -> Stamps \cup {Absent}]
  /\ snapshots \subseteq Snapshot
  /\ checked \in Check \cup {Absent}
  /\ answer \in Answer \cup {Absent}
  /\ orderly \in BOOLEAN
  /\ CallsOK

Init ==
  /\ now = 0
  /\ published \in Masters
  /\ withdrawn = [m \in Masters |-> Absent]
  /\ snapshots = {}
  /\ checked = Absent
  /\ answer = Absent
  /\ orderly = TRUE
  /\ pc = [s \in Sessions |-> "idle"]
  /\ call = [s \in Sessions |-> Absent]

-----------------------------------------------------------------------------
(* Helpers. *)

TakeStamp == now < MaxNow /\ now' = now + 1

Goto(s, stage, c) ==
  /\ pc' = [pc EXCEPT ![s] = stage]
  /\ call' = [call EXCEPT ![s] = c]

(* The call is over: it answered, it raised, or its session ended.         *)
End(s) == Goto(s, "idle", Absent)

AnswerWith(s, snapshot, since, reason) ==
  /\ End(s)
  /\ answer' = [snapshot |-> snapshot, since |-> since, reason |-> reason]

(* Mutant of Latest: the other end of the order.                           *)
Oldest ==
  IF snapshots = {} THEN Absent
  ELSE CHOOSE r \in snapshots :
         \A q \in snapshots : r.downloaded_at <= q.downloaded_at

Latest ==
  IF snapshots = {} THEN Absent
  ELSE CHOOSE r \in snapshots :
         \A q \in snapshots : q.downloaded_at <= r.downloaded_at

WithContent(content) == { r \in snapshots : r.content = content }

-----------------------------------------------------------------------------
(* The publisher replaces the master. *)
Publish(m) ==
  /\ m # published
  /\ published' = m
  /\ withdrawn' = [withdrawn EXCEPT ![published] = now]
  /\ orderly' = (orderly /\ withdrawn[m] = Absent)
  /\ UNCHANGED <<answer, now, tables, pc, call>>

(* sync_if_stale, up to the download.  The Data & instruments page always  *)
(* forces; other callers of the service need not.                          *)
Begin(s, force) ==
  /\ pc[s] = "idle"
  /\ TakeStamp
  /\ Goto(s, "age",
          [ now |-> now', force |-> force, latest |-> Latest,
            received |-> << >>, attempts |-> 0, result |-> Absent ])
  /\ orderly' = (orderly /\ \A t \in Sessions : pc[t] = "idle")
  /\ UNCHANGED <<answer, world, tables>>

Fresh(c) ==
  /\ ~c.force /\ c.latest # Absent /\ checked # Absent
  /\ c.now - checked.last_checked_at <= MaxAge

AnswerFresh(s) ==
  /\ pc[s] = "age"
  /\ Fresh(call[s])
  /\ AnswerWith(s, call[s].latest, checked.last_checked_at, "fresh_snapshot")
  /\ UNCHANGED <<now, world, tables, orderly>>

(* The download; what the call has read is of no more use to it.           *)
GoOnline(s) ==
  /\ pc[s] = "age"
  /\ ~Fresh(call[s])
  /\ Goto(s, "download", [call[s] EXCEPT !.force = TRUE, !.latest = Absent])
  /\ UNCHANGED <<answer, now, world, tables, orderly>>

(* Mutant of TryAgain: one connection more than allowed.                   *)
TryOnceMore(s, received) ==
  LET c == call[s] IN
  IF c.attempts < MaxAttempts
  THEN Goto(s, "download",
            [c EXCEPT !.attempts = @ + 1, !.received = received])
  ELSE End(s)

(* One more connection of the bounded loop, or the end of it.              *)
TryAgain(s, received) ==
  LET c == call[s] IN
  IF c.attempts + 1 < MaxAttempts
  THEN Goto(s, "download",
            [c EXCEPT !.attempts = @ + 1, !.received = received])
  ELSE End(s)

(* The connection gives nothing: no answer, a refused range.               *)
FailToConnect(s) ==
  /\ pc[s] = "download"
  /\ TryAgain(s, call[s].received)
  /\ UNCHANGED <<answer, now, world, tables, orderly>>

(* The source does not honour the range of a resumed transfer.             *)
IgnoreRange(s) ==
  /\ pc[s] = "download"
  /\ call[s].received # << >>
  /\ End(s)
  /\ UNCHANGED <<answer, now, world, tables, orderly>>

(* The bytes are decoded and normalized in memory: a master cut short is   *)
(* no JSON list, and one made of two masters may or may not be one.        *)
Decode(s, received) ==
  \/ /\ Len(received) = 2
     /\ WellFormed(received)
     /\ Goto(s, "find",
             [ call[s] EXCEPT
                 !.received = << >>, !.attempts = 0,
                 !.result = [ content |-> <<received[1], received[2]>>,
                              downloaded_at |-> call[s].now ] ])
  \/ /\ Len(received) = 2 => received[1] # received[2]
     /\ End(s)

(* Some more of the master arrives.  A transfer is finished when it has    *)
(* the length the source declared, and when it ended by itself if the      *)
(* source declared none; whatever has arrived, either may be so.           *)
Receive(s, halves, finished) ==
  LET received == call[s].received \o [i \in 1..halves |-> published] IN
  /\ pc[s] = "download"
  /\ Len(call[s].received) < 2 /\ Len(received) <= 2
  /\ IF finished THEN Decode(s, received) ELSE TryAgain(s, received)
  /\ UNCHANGED <<answer, now, world, tables, orderly>>

(* find_by_content_hash.                                                   *)
Find(s) ==
  LET known == WithContent(call[s].result.content) IN
  /\ pc[s] = "find"
  /\ IF known # {}
     THEN \E r \in known : Goto(s, "confirm", [call[s] EXCEPT !.result = r])
     ELSE Goto(s, "lookup", call[s])
  /\ UNCHANGED <<answer, now, world, tables, orderly>>

(* save looks its name up, outside of any transaction, and then inserts.   *)
(* Mutant of Lookup: the check is recorded before the snapshot is saved.   *)
LookupChecking(s) ==
  LET id == IdOf(call[s].result) IN
  /\ pc[s] = "lookup"
  /\ checked' = [snapshot_id |-> id, last_checked_at |-> call[s].now]
  /\ Goto(s, IF \E r \in snapshots : IdOf(r) = id THEN "record" ELSE "insert",
          call[s])
  /\ UNCHANGED <<answer, now, world, snapshots, orderly>>

Lookup(s) ==
  LET id == IdOf(call[s].result) IN
  /\ pc[s] = "lookup"
  /\ Goto(s, IF \E r \in snapshots : IdOf(r) = id THEN "record" ELSE "insert",
          call[s])
  /\ UNCHANGED <<answer, now, world, tables, orderly>>

(* The content is UNIQUE: the insert of a session that comes second raises.*)
Insert(s) ==
  /\ pc[s] = "insert"
  /\ IF WithContent(call[s].result.content) = {}
     THEN /\ snapshots' = snapshots \cup {call[s].result}
          /\ Goto(s, "record", call[s])
     ELSE End(s) /\ UNCHANGED snapshots
  /\ UNCHANGED <<answer, now, world, checked, orderly>>

(* record_check, of the copy found or of the copy saved.                   *)
RecordCheck(s) ==
  /\ pc[s] \in {"confirm", "record"}
  /\ checked' = [ snapshot_id |-> IdOf(call[s].result),
                  last_checked_at |-> call[s].now ]
  /\ AnswerWith(s, call[s].result, call[s].now,
                IF pc[s] = "confirm" THEN "unchanged_content"
                                     ELSE "downloaded_new_snapshot")
  /\ UNCHANGED <<now, world, snapshots, orderly>>

(* The session ends, or a step raises: the call is lost, what it committed *)
(* is not.                                                                 *)
Abandon(s) ==
  /\ pc[s] # "idle"
  /\ End(s)
  /\ UNCHANGED <<answer, now, world, tables, orderly>>

Sync(s) ==
  \/ \E force \in BOOLEAN : Begin(s, force)
  \/ AnswerFresh(s) \/ GoOnline(s)
  \/ FailToConnect(s) \/ IgnoreRange(s)
  \/ \E halves \in 0..2, finished \in BOOLEAN : Receive(s, halves, finished)
  \/ Find(s) \/ Lookup(s) \/ Insert(s) \/ RecordCheck(s)
  \/ Abandon(s)

Next == (\E m \in Masters : Publish(m)) \/ (\E s \in Sessions : Sync(s))

Spec == Init /\ [][Next]_master

-----------------------------------------------------------------------------
(* The source served both halves of the content at or after a stamp.       *)
ServedSince(m, stamp) ==
  m = published \/ (withdrawn[m] # Absent /\ withdrawn[m] >= stamp)
BothServedSince(content, stamp) ==
  ServedSince(content[1], stamp) /\ ServedSince(content[2], stamp)

(* The local tables never claim more than was seen.  Whatever the source   *)
(* published meanwhile, whatever transfers broke off and were resumed,     *)
(* whichever sessions raced or died: a retained snapshot was served at or  *)
(* after its download time, no content is retained twice, and the recorded *)
(* check names a retained snapshot that was served at or after its time.   *)
ChecksAreBacked ==
  /\ \A r \in snapshots : BothServedSince(r.content, r.downloaded_at)
  /\ \A r, q \in snapshots : r.content = q.content => r = q
  /\ checked # Absent =>
       /\ \E r \in snapshots : IdOf(r) = checked.snapshot_id
       /\ BothServedSince(checked.snapshot_id.content, checked.last_checked_at)

(* What a caller is told was so.  A downloaded or unchanged snapshot is    *)
(* retained and was served since the call began; a fresh one was served    *)
(* since the last recorded check, as long as no two syncs overlapped and   *)
(* the publisher never went back to an earlier master.                     *)
AnswersAreServed ==
  answer # Absent =>
    /\ \E r \in snapshots : IdOf(r) = IdOf(answer.snapshot)
    /\ answer.reason # "fresh_snapshot" \/ orderly =>
         BothServedSince(answer.snapshot.content, answer.since)

=============================================================================
