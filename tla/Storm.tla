------------------------------- MODULE Storm -------------------------------
(***************************************************************************)
(* One instance of the service with its pool of connections, and webhook   *)
(* storms: each sends the same payment event several times to the          *)
(* instance's own port and reports on the answers.  A delivery takes a     *)
(* connection twice, for the account check and then for its transaction,   *)
(* and the pool serves those who wait in the order they came.              *)
(***************************************************************************)
EXTENDS Naturals, SequencesExt

CONSTANTS
  Storm,      \* requests to POST /demo/webhook-storm
  Delivery,   \* the requests they send, all of them
  StormOf,    \* the storm a delivery belongs to
  EventOf,    \* the event id of a storm
  IsUser,     \* whether the storm's user_id names an account of kind 'user'
  PoolMax,    \* config.poolMax
  MaxFaults   \* bound: lost requests, lost answers, timeouts, failed commits

StormAssumption ==
  /\ IsFiniteSet(Delivery)
  /\ StormOf \in [Delivery -> Storm]
  /\ IsUser \in [Storm -> BOOLEAN]
  /\ PoolMax \in Nat \ {0}

VARIABLES
  pc,        \* where each delivery is
  held,      \* how many of the pool's connections each delivery has
  queue,     \* the deliveries that wait for a connection, first come first
  answer,    \* what each delivery was answered: kind and entry id
  holder,    \* the deliveries that hold an uncommitted reservation
  entry,     \* the committed entry id of each event, 0 for no row
  lastId,    \* journal_entries' sequence
  count,     \* httpDeliveryCount
  before,    \* each storm's deliveriesBefore
  report,    \* each storm's answer
  faults

vars == <<pc, held, queue, answer, holder, entry, lastId, count, before,
          report, faults>>
database == <<holder, entry, lastId>>
client   == <<count, before, report>>

Event(d) == EventOf[StormOf[d]]
Kind == {"none", "posted", "deduplicated", "failed"}
NoAnswer == [kind |-> "none", id |-> 0]
Failed   == [kind |-> "failed", id |-> 0]
NoReport == [posted |-> 0, deduplicated |-> 0, failed |-> 0,
             deliveries |-> 0, ids |-> {}]

Goto(d, place) == pc' = [pc EXCEPT ![d] = place]
Take(d)        == held' = [held EXCEPT ![d] = @ + 1]
Release(d)     == held' = [held EXCEPT ![d] = 0]
Answer(d, a)   == answer' = [answer EXCEPT ![d] = a]

(* The fault of one delivery: what it gets is a 500, or no answer at all.  *)
Fault == faults < MaxFaults /\ faults' = faults + 1

-----------------------------------------------------------------------------
(* Promise.all over an array of fetches: all of them go out.               *)
StartStorm(s) ==
  /\ report[s] = <<>>
  /\ report' = [report EXCEPT ![s] = <<NoReport>>]
  /\ before' = [before EXCEPT ![s] = count]
  /\ pc' = [d \in Delivery |-> IF StormOf[d] = s THEN "sent" ELSE pc[d]]
  /\ UNCHANGED <<held, queue, answer, database, count, faults>>

(* Altered: the counter is read again for each delivery that goes out.     *)
ArriveReread(d) ==
  /\ pc[d] = "sent"
  /\ count' = count + 1
  /\ before' = [before EXCEPT ![StormOf[d]] = count]
  /\ Goto(d, "check")
  /\ queue' = Append(queue, d)
  /\ UNCHANGED <<held, answer, database, report, faults>>

(* The request is counted and the account check asks for a connection.     *)
Arrive(d) ==
  /\ pc[d] = "sent"
  /\ count' = count + 1
  /\ Goto(d, "check")
  /\ queue' = Append(queue, d)
  /\ UNCHANGED <<held, answer, database, before, report, faults>>

(* The pool hands a connection to the first in its queue.                  *)
Grant(d) ==
  /\ queue # <<>> /\ d = Head(queue)
  /\ MapThenSumSet(LAMBDA o : held[o], Delivery) < PoolMax
  /\ Take(d)
  /\ queue' = Tail(queue)
  /\ Goto(d, IF pc[d] = "check" THEN "checking" ELSE "reserve")
  /\ UNCHANGED <<answer, database, client, faults>>

(* Altered: the connection of the account check is kept.                   *)
CheckAccountKept(d) ==
  /\ pc[d] = "checking"
  /\ IF IsUser[StormOf[d]]
     THEN Goto(d, "connect") /\ queue' = Append(queue, d)
          /\ UNCHANGED <<answer, held>>
     ELSE Goto(d, "done") /\ Answer(d, Failed) /\ Release(d) /\ UNCHANGED queue
  /\ UNCHANGED <<database, client, faults>>

(* The account check releases its connection; then withTx asks for one.    *)
CheckAccount(d) ==
  /\ pc[d] = "checking"
  /\ Release(d)
  /\ IF IsUser[StormOf[d]]
     THEN Goto(d, "connect") /\ queue' = Append(queue, d) /\ UNCHANGED answer
     ELSE Goto(d, "done") /\ Answer(d, Failed) /\ UNCHANGED queue
  /\ UNCHANGED <<database, client, faults>>

-----------------------------------------------------------------------------
(* Altered: an uncommitted reservation of another delivery is not waited   *)
(* for.                                                                    *)
ReservableAtOnce(d) == TRUE

(* ON CONFLICT DO NOTHING waits for an uncommitted row of the same key.    *)
Reservable(d) == \A o \in holder : Event(o) # Event(d)

Reserve(d) ==
  /\ pc[d] = "reserve"
  /\ Reservable(d)
  /\ IF entry[Event(d)] = 0
     THEN holder' = holder \cup {d} /\ Goto(d, "post") /\ UNCHANGED answer
     ELSE /\ Answer(d, [kind |-> "deduplicated", id |-> entry[Event(d)]])
          /\ Goto(d, "commit") /\ UNCHANGED holder
  /\ UNCHANGED <<held, queue, entry, lastId, client, faults>>

(* postEntry locks the gateway, which every deposit moves, and takes the   *)
(* next id of the sequence.                                                *)
Post(d) ==
  /\ pc[d] = "post"
  /\ \A o \in holder : pc[o] # "commit"
  /\ lastId' = lastId + 1
  /\ Answer(d, [kind |-> "posted", id |-> lastId'])
  /\ Goto(d, "commit")
  /\ UNCHANGED <<held, queue, holder, entry, client, faults>>

Commit(d) ==
  /\ pc[d] = "commit"
  /\ Goto(d, "done")
  /\ Release(d)
  /\ holder' = holder \ {d}
  /\ entry' = IF d \in holder
              THEN [entry EXCEPT ![Event(d)] = answer[d].id] ELSE entry
  /\ UNCHANGED <<queue, answer, lastId, client, faults>>

(* A statement fails: ROLLBACK, the connection goes back, and a 500.       *)
Abort(d) ==
  /\ pc[d] \in {"reserve", "post", "commit"}
  /\ Fault
  /\ holder' = holder \ {d}
  /\ Release(d)
  /\ Answer(d, Failed)
  /\ Goto(d, "done")
  /\ UNCHANGED <<queue, entry, lastId, client>>

(* connectionTimeoutMillis: who waits too long in the queue leaves it.     *)
TimeOut(d) ==
  /\ pc[d] \in {"check", "connect"}
  /\ Fault
  /\ \E i \in DOMAIN queue : queue[i] = d /\ queue' = RemoveAt(queue, i)
  /\ Release(d)
  /\ Answer(d, Failed)
  /\ Goto(d, "done")
  /\ UNCHANGED <<database, client>>

(* fetch rejects: the request never arrives, or its answer is lost.        *)
Lose(d) ==
  /\ \/ pc[d] = "sent"
     \/ pc[d] = "done" /\ answer[d].kind # "failed"
        /\ report[StormOf[d]] = <<NoReport>>
  /\ Fault
  /\ Answer(d, Failed)
  /\ Goto(d, "done")
  /\ UNCHANGED <<held, queue, database, client>>

-----------------------------------------------------------------------------
Of(s, kind) == {d \in Delivery : StormOf[d] = s /\ answer[d].kind = kind}

Report(s) ==
  /\ report[s] = <<NoReport>>
  /\ \A d \in Delivery : StormOf[d] = s => pc[d] = "done"
  /\ report' = [report EXCEPT ![s] = <<
       [posted       |-> Cardinality(Of(s, "posted")),
        deduplicated |-> Cardinality(Of(s, "deduplicated")),
        failed       |-> Cardinality(Of(s, "failed")),
        deliveries   |-> count - before[s],
        ids |-> {answer[d].id : d \in Of(s, "posted")
                                      \cup Of(s, "deduplicated")}]>>]
  /\ UNCHANGED <<pc, held, queue, answer, database, count, before, faults>>

Init ==
  /\ pc = [d \in Delivery |-> "idle"]
  /\ held = [d \in Delivery |-> 0] /\ queue = <<>>
  /\ answer = [d \in Delivery |-> NoAnswer]
  /\ holder = {} /\ entry = [s \in {EventOf[t] : t \in Storm} |-> 0]
  /\ lastId = 0 /\ count = 0 /\ faults = 0
  /\ before = [s \in Storm |-> 0]
  /\ report = [s \in Storm |-> <<>>]

Serve(d) ==
  Arrive(d) \/ Grant(d) \/ CheckAccount(d) \/ Reserve(d) \/ Post(d) \/ Commit(d)

Break(d) == Abort(d) \/ TimeOut(d) \/ Lose(d)

Next ==
  \/ \E s \in Storm : StartStorm(s) \/ Report(s)
  \/ \E d \in Delivery : Serve(d) \/ Break(d)

Spec == Init /\ [][Next]_vars

(* The event loop and the database do their work; nothing has to time out, *)
(* fail or get lost.                                                       *)
FairSpec ==
  /\ Spec
  /\ \A d \in Delivery : WF_vars(Serve(d))
  /\ \A s \in Storm : WF_vars(Report(s))

-----------------------------------------------------------------------------
(* What the console makes of a report: "held" or "failed".                 *)
ProtectionHeld(s) == Cardinality(report[s][1].ids) = 1

Reported(s) == report[s] \notin {<<>>, <<NoReport>>}

(* However many storms and deliveries carry an event, and whichever of     *)
(* them fail or lose their answer, one entry at most is credited for it    *)
(* and every answer that names an entry names that one (webhook.ts:17-39,  *)
(* payments.ts:80-92).                                                     *)
CreditedOnce ==
  \A d \in Delivery :
    pc[d] = "done" /\ answer[d].kind \in {"posted", "deduplicated"} =>
      /\ answer[d].id = entry[Event(d)]
      /\ answer[d].kind = "posted" =>
           \A o \in Delivery \ {d} :
             pc[o] = "done" /\ Event(o) = Event(d) =>
               answer[o].kind # "posted"

(* A report counts at least the deliveries that were answered well, and    *)
(* names one entry if there were any (payments.ts:122-152).                *)
ReportHolds ==
  \A s \in Storm : Reported(s) =>
    LET r == report[s][1] IN
    /\ r.posted + r.deduplicated <= r.deliveries
    /\ r.posted + r.deduplicated > 0 => r.ids = {entry[EventOf[s]]}

(* Every storm is reported on, however small the pool: no delivery keeps   *)
(* others from a connection while it waits for one (db.ts:12-17).          *)
StormAnswered == \A s \in Storm : report[s] # <<>> ~> Reported(s)

(* payments.ts:33-34: "The storm endpoint reports the delta across its own *)
(* run".                                                                   *)
DeliveriesAreOwn ==
  \A s \in Storm :
    Reported(s) =>
      report[s][1].deliveries <= Cardinality({d \in Delivery : StormOf[d] = s})

(* AdvancedProofs.tsx:225: 'Duplicate protection failed' is said only of a *)
(* storm that moved money more than once (:200, "Only one may move         *)
(* money").                                                                *)
FailedMeansTwice ==
  \A s \in Storm :
    Reported(s) => ProtectionHeld(s) \/ Cardinality(report[s][1].ids) > 1
=============================================================================
