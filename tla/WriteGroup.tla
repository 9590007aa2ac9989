----------------------------- MODULE WriteGroup -----------------------------
(***************************************************************************)
(* DB::write: how concurrent writers form groups.  A writer that finds the *)
(* queue empty leads: it drains the queue, writes every batch in it and    *)
(* answers each request through a condition variable.  What writing a      *)
(* group does to the engine is module Engine; here a group succeeds, or    *)
(* fails before or after its batches were applied.                         *)
(*                                                                         *)
(* The request (PendingWrite) of a call is named by the writer and the     *)
(* number of the call.                                                     *)
(*                                                                         *)
(* Definitions named Faulty... are mistakes one could make in the code;    *)
(* each makes some property fail, which shows that the property is about   *)
(* that code.  Nothing else uses them.                                     *)
(***************************************************************************)
EXTENDS Naturals, Sequences

CONSTANTS
    Writers,
    MaxCalls   \* bound: MaxCalls[w] calls of writer w

ASSUME MaxCallsAssumption == MaxCalls \in [Writers -> Nat]

VARIABLES
    queue,    \* DBInner::write_group
    pc,       \* where each writer is in DB::write
    group,    \* a leader's drained requests that it has not answered yet
    outcome,  \* what apply_write_group returned to a leader
    batch,    \* the requests whose PendingWrite::batch is present
    result,   \* PendingWrite::result of each request
    calls,    \* calls each writer has made
    applied   \* ghost: how often the engine applied each request's batch

vars == <<queue, pc, group, outcome, batch, result, calls, applied>>

Outcomes == {"none", "ok", "err"}
Requests == UNION {{w} \X (1..MaxCalls[w]) : w \in Writers}
Writer(r) == r[1]
Current(w) == <<w, calls[w]>>

Init ==
    /\ queue = <<>>
    /\ pc = [w \in Writers |-> "idle"]
    /\ group = [w \in Writers |-> <<>>]
    /\ outcome = [w \in Writers |-> "none"]
    /\ batch = {}
    /\ result = [r \in Requests |-> "none"]
    /\ calls = [w \in Writers |-> 0]
    /\ applied = [r \in Requests |-> 0]

Members(s) == {s[i] : i \in DOMAIN s}

\* Waits on the request of the previous call.
FaultyNewRequest(w) == <<w, calls[w]>>

\* PendingWrite::new
NewRequest(w) == <<w, calls[w] + 1>>

\* Looks at the queue too late, with one request already in it.
FaultyLeads == Len(queue) <= 1

\* Under the queue's lock: the first in an empty queue is the leader.
Leads == queue = <<>>

Enqueue(w) ==
    /\ pc[w] = "idle" /\ calls[w] < MaxCalls[w]
    /\ pc' = [pc EXCEPT ![w] = IF Leads THEN "lead" ELSE "wait"]
    /\ queue' = Append(queue, NewRequest(w))
    /\ batch' = batch \cup {NewRequest(w)}
    /\ calls' = [calls EXCEPT ![w] = @ + 1]
    /\ UNCHANGED <<group, outcome, result, applied>>

\* Limits the size of a group, and loses the rest of the queue.
FaultyTaken(q) == IF Len(q) > 2 THEN SubSeq(q, 1, 2) ELSE q

\* group.drain(..): the leader takes whatever has gathered behind it.
Taken(q) == q

Drain(w) ==
    /\ pc[w] = "lead"
    /\ group' = [group EXCEPT ![w] = Taken(queue)]
    /\ queue' = <<>>
    /\ pc' = [pc EXCEPT ![w] = "apply"]
    /\ UNCHANGED <<outcome, batch, result, calls, applied>>

\* Answers Ok for an error before the memtable.
FaultyCanReport(ok, written) == TRUE

\* Ok comes only from the end of apply_write_group_to_memtable.
CanReport(ok, written) == ok => written

\* apply_write_group: take_batch on every request, then Ok for all, or one
\* error for all, from before the batches reached the memtable (write
\* pressure, Closed, WAL) or from the flush after it.
ApplyGroup(w, ok, written) ==
    /\ pc[w] = "apply" /\ CanReport(ok, written)
    /\ Members(group[w]) \subseteq batch
    /\ batch' = batch \ Members(group[w])
    /\ applied' = [r \in Requests |->
                     IF written /\ r \in Members(group[w]) THEN applied[r] + 1 ELSE applied[r]]
    /\ outcome' = [outcome EXCEPT ![w] = IF ok THEN "ok" ELSE "err"]
    /\ pc' = [pc EXCEPT ![w] = "complete"]
    /\ UNCHANGED <<queue, group, result, calls>>

\* PendingWrite::complete stores the result ...
SetResult(w) ==
    /\ pc[w] = "complete" /\ group[w] # <<>>
    /\ result' = [result EXCEPT ![Head(group[w])] = outcome[w]]
    /\ pc' = [pc EXCEPT ![w] = "notify"]
    /\ UNCHANGED <<queue, group, outcome, batch, calls, applied>>

\* Does not notify.
FaultyWoken(r) == {}

\* ... and then, the lock released, wakes the waiter if it sleeps.
Woken(r) ==
    {w \in {Writer(r)} : pc[w] = "asleep" /\ r = Current(w)}

NotifyOne(w) ==
    /\ pc[w] = "notify"
    /\ pc' = [u \in Writers |-> IF u = w THEN "complete"
                               ELSE IF u \in Woken(Head(group[w])) THEN "wait" ELSE pc[u]]
    /\ group' = [group EXCEPT ![w] = Tail(@)]
    /\ UNCHANGED <<queue, outcome, batch, result, calls, applied>>

\* The leader waits for its own result like everybody.
LeaderWaits(w) ==
    /\ pc[w] = "complete" /\ group[w] = <<>>
    /\ pc' = [pc EXCEPT ![w] = "wait"]
    /\ UNCHANGED <<queue, group, outcome, batch, result, calls, applied>>

\* PendingWrite::wait: with the lock held, return the result if it is there,
\* else sleep, which releases the lock in the same step.  The result taken is
\* left in place: nobody looks at it again.
Return(w) ==
    /\ pc[w] = "wait" /\ result[Current(w)] # "none"
    /\ pc' = [pc EXCEPT ![w] = "idle"]
    /\ UNCHANGED <<queue, group, outcome, batch, result, calls, applied>>

Sleep(w) ==
    /\ pc[w] = "wait" /\ result[Current(w)] = "none"
    /\ pc' = [pc EXCEPT ![w] = "asleep"]
    /\ UNCHANGED <<queue, group, outcome, batch, result, calls, applied>>

\* A condition variable may wake without a notification.
SpuriousWakeup(w) ==
    /\ pc[w] = "asleep"
    /\ pc' = [pc EXCEPT ![w] = "wait"]
    /\ UNCHANGED <<queue, group, outcome, batch, result, calls, applied>>

Step(w) ==
    \/ Drain(w)
    \/ \E ok, written \in BOOLEAN : ApplyGroup(w, ok, written)
    \/ SetResult(w) \/ NotifyOne(w) \/ LeaderWaits(w) \/ Return(w) \/ Sleep(w)

AllReturned == \A w \in Writers : pc[w] = "idle" /\ calls[w] = MaxCalls[w]

Next ==
    \/ \E w \in Writers : Enqueue(w) \/ Step(w) \/ SpuriousWakeup(w)
    \/ AllReturned /\ UNCHANGED vars

\* A writer inside DB::write goes on; nobody has to call it, and nobody can
\* count on spurious wakeups.
Spec == Init /\ [][Next]_vars /\ \A w \in Writers : WF_vars(Step(w))

-----------------------------------------------------------------------------
\* DBInner::write_group, the requests and each writer's place in DB::write
\* keep their types.
TypeOK ==
    /\ queue \in Seq(Requests)
    /\ pc \in [Writers -> {"idle", "lead", "apply", "complete", "notify", "wait", "asleep"}]
    /\ group \in [Writers -> Seq(Requests)]
    /\ outcome \in [Writers -> Outcomes]
    /\ batch \subseteq Requests
    /\ result \in [Requests -> Outcomes]
    /\ calls \in [Writers -> Nat] /\ \A w \in Writers : calls[w] <= MaxCalls[w]
    /\ applied \in [Requests -> Nat]

\* Requests in the queue have somebody who will drain them: the writer of the
\* first one, and no other, leads.
QueueHasLeader ==
    {w \in Writers : pc[w] = "lead"} = IF queue = <<>> THEN {} ELSE {Writer(Head(queue))}

\* A request whose writer is inside DB::write without an answer is in exactly
\* one place: in the queue or in the hands of one leader.
Places(r) ==
    {<<"queue", i>> : i \in {j \in DOMAIN queue : queue[j] = r}}
    \cup UNION {{<<l, i>> : i \in {j \in DOMAIN group[l] : group[l][j] = r}} : l \in Writers}
HeldOnce ==
    \A w \in Writers :
        pc[w] # "idle" /\ result[Current(w)] = "none" =>
            \E p \in Places(Current(w)) : Places(Current(w)) = {p}

\* A call that returns Ok had its batch applied exactly once, by whichever
\* thread led, and no batch is ever applied twice.
OkMeansApplied ==
    \A r \in Requests : applied[r] <= 1 /\ (result[r] = "ok" => applied[r] = 1)

\* Every call of DB::write returns: no wakeup is lost and no request stays
\* behind in the queue.
WritesReturn == \A w \in Writers : pc[w] # "idle" ~> pc[w] = "idle"

-----------------------------------------------------------------------------
(* Why: where each request is, and what has happened to it there *)

\* The places in a leader's hands that it has not answered: between storing a
\* result and notifying, its first request has got its answer already, and the
\* writer of that one may be on its next call.
Unanswered(l) == {i \in DOMAIN group[l] : pc[l] = "notify" => i > 1}

\* The request of a writer that waits for this answer.
Pending(r) == r = Current(Writer(r)) /\ result[r] = "none"

\* No place is shared, within the queue, within a group and between them.
PlacesDisjoint ==
    /\ \A i, j \in DOMAIN queue : queue[i] = queue[j] => i = j
    /\ \A l \in Writers : \A i, j \in DOMAIN group[l] : group[l][i] = group[l][j] => i = j
    /\ \A l, m \in Writers : \A i \in DOMAIN group[l], j \in DOMAIN group[m] :
          group[l][i] = group[m][j] => l = m
    /\ \A l \in Writers : \A i \in DOMAIN group[l], j \in DOMAIN queue : group[l][i] # queue[j]

QueueInv ==
    \A i \in DOMAIN queue :
        /\ Pending(queue[i]) /\ queue[i] \in batch /\ applied[queue[i]] = 0
        /\ pc[Writer(queue[i])] \in IF i = 1 THEN {"lead"} ELSE {"wait", "asleep"}

LeaderInv ==
    /\ \A w \in Writers : pc[w] = "lead" => queue # <<>> /\ w = Writer(queue[1])
    /\ \A l \in Writers :
         /\ group[l] # <<>> => pc[l] \in {"apply", "complete", "notify"}
         /\ pc[l] = "notify" => group[l] # <<>> /\ result[group[l][1]] # "none"
         /\ pc[l] \in {"complete", "notify"} => outcome[l] # "none"

GroupInv ==
    \A l \in Writers :
        /\ \A i \in Unanswered(l) :
              /\ Pending(group[l][i])
              /\ Writer(group[l][i]) = l \/ pc[Writer(group[l][i])] \in {"wait", "asleep"}
        /\ \A i \in DOMAIN group[l] :
              LET r == group[l][i]
              IN  /\ r[2] <= calls[r[1]]
                  /\ pc[l] = "apply" => r \in batch /\ applied[r] = 0
                  /\ pc[l] # "apply" /\ outcome[l] = "ok" => applied[r] = 1

\* A writer without its answer has its request somewhere, and nothing has
\* happened yet to the requests of calls still to come.
CallsInv ==
    /\ \A w \in Writers :
         pc[w] # "idle" =>
            /\ calls[w] > 0
            /\ result[Current(w)] = "none" =>
                  \/ \E i \in DOMAIN queue : queue[i] = Current(w)
                  \/ \E l \in Writers : \E i \in DOMAIN group[l] : group[l][i] = Current(w)
    /\ \A r \in Requests : r[2] > calls[r[1]] => applied[r] = 0 /\ result[r] = "none"

IInv ==
    /\ TypeOK /\ PlacesDisjoint /\ QueueInv /\ LeaderInv /\ GroupInv /\ CallsInv
    /\ OkMeansApplied
=============================================================================
