-------------------------- MODULE WriteGroupProofs --------------------------
(***************************************************************************)
(* Group commit loses and doubles no request, for any number of writers    *)
(* and calls: IInv is inductive, and gives the invariants of WriteGroup.   *)
(***************************************************************************)
EXTENDS WriteGroup, TLAPS

LEMMA RequestShape ==
    /\ \A r \in Requests : /\ r = <<r[1], r[2]>> /\ r[1] \in Writers
                           /\ r[2] \in Nat /\ r[2] > 0 /\ r[2] <= MaxCalls[r[1]]
    /\ \A w \in Writers, n \in Nat : 0 < n /\ n <= MaxCalls[w] => <<w, n>> \in Requests
BY MaxCallsAssumption DEF Requests

\* What sequences of requests hold.
LEMMA PlaceTypes ==
    ASSUME TypeOK
    PROVE  /\ \A i \in DOMAIN queue : i \in Nat /\ i >= 1 /\ queue[i] \in Requests
           /\ \A l \in Writers : \A i \in DOMAIN group[l] :
                i \in Nat /\ i >= 1 /\ group[l][i] \in Requests
BY DEF TypeOK

LEMMA InitIInv == Init => IInv
<1> SUFFICES ASSUME Init PROVE IInv
  OBVIOUS
<1>1. TypeOK
  BY MaxCallsAssumption DEF Init, TypeOK, Outcomes
<1>2. PlacesDisjoint /\ QueueInv
  BY DEF Init, PlacesDisjoint, QueueInv
<1>3. LeaderInv
  BY DEF Init, LeaderInv
<1>4. GroupInv
  BY DEF Init, GroupInv, Unanswered
<1>5. CallsInv
  BY RequestShape DEF Init, CallsInv
<1>6. OkMeansApplied
  BY DEF Init, OkMeansApplied
<1> QED BY <1>1, <1>2, <1>3, <1>4, <1>5, <1>6 DEF IInv

-----------------------------------------------------------------------------
(* Waiting *)

\* LeaderWaits, Return, Sleep and SpuriousWakeup: one writer without requests
\* in its hands moves, and leaves DB::write only with its answer.
LEMMA WaitingStep ==
    ASSUME IInv, NEW w \in Writers, NEW to, pc' = [pc EXCEPT ![w] = to],
           UNCHANGED <<queue, group, outcome, batch, result, calls, applied>>,
           pc[w] \in {"wait", "asleep"} \/ (pc[w] = "complete" /\ group[w] = <<>>),
           to \in {"wait", "asleep"} \/ (to = "idle" /\ result[Current(w)] # "none")
    PROVE  IInv'
<1>0. TypeOK /\ group[w] = <<>>
  BY DEF IInv, LeaderInv
<1>1. \A u \in Writers : pc'[u] = IF u = w THEN to ELSE pc[u]
  BY <1>0 DEF TypeOK
<1>2. TypeOK'
  BY <1>0 DEF TypeOK
<1>3. PlacesDisjoint' /\ OkMeansApplied'
  BY DEF IInv, PlacesDisjoint, OkMeansApplied
<1>4. QueueInv'
  <2> SUFFICES ASSUME NEW i \in DOMAIN queue
               PROVE  /\ Pending(queue[i])' /\ queue[i] \in batch /\ applied[queue[i]] = 0
                      /\ pc'[Writer(queue[i])] \in IF i = 1 THEN {"lead"} ELSE {"wait", "asleep"}
    BY DEF QueueInv
  <2>1. /\ Pending(queue[i]) /\ queue[i] \in batch /\ applied[queue[i]] = 0
        /\ pc[Writer(queue[i])] \in IF i = 1 THEN {"lead"} ELSE {"wait", "asleep"}
    BY DEF IInv, QueueInv
  <2>2. Pending(queue[i])'
    BY <2>1 DEF Pending, Current
  <2>3. Writer(queue[i]) \in Writers
    BY <1>0, PlaceTypes, RequestShape DEF Writer
  <2>4. CASE Writer(queue[i]) = w
    BY <1>1, <2>1, <2>2, <2>4 DEF Pending
  <2> QED BY <1>1, <2>1, <2>2, <2>3, <2>4
<1>5. LeaderInv'
  BY <1>0, <1>1 DEF IInv, LeaderInv
<1>6. GroupInv'
  <2> SUFFICES ASSUME NEW l \in Writers, l # w
               PROVE  /\ \A i \in Unanswered(l)' :
                            /\ Pending(group[l][i])'
                            /\ Writer(group[l][i]) = l \/ pc'[Writer(group[l][i])] \in {"wait", "asleep"}
                      /\ \A i \in DOMAIN group[l] :
                            LET r == group[l][i]
                            IN  /\ r[2] <= calls[r[1]]
                                /\ pc[l] = "apply" => r \in batch /\ applied[r] = 0
                                /\ pc[l] # "apply" /\ outcome[l] = "ok" => applied[r] = 1
    BY <1>0, <1>1 DEF GroupInv, Unanswered
  <2>1. Unanswered(l)' = Unanswered(l) /\ Unanswered(l) \subseteq DOMAIN group[l]
    BY <1>1 DEF Unanswered
  <2>2. ASSUME NEW i \in Unanswered(l)
        PROVE  /\ Pending(group[l][i])'
               /\ Writer(group[l][i]) = l \/ pc'[Writer(group[l][i])] \in {"wait", "asleep"}
    <3>1. /\ Pending(group[l][i])
          /\ Writer(group[l][i]) = l \/ pc[Writer(group[l][i])] \in {"wait", "asleep"}
      BY DEF IInv, GroupInv
    <3>2. Writer(group[l][i]) \in Writers
      BY <1>0, <2>1, PlaceTypes, RequestShape DEF Writer
    <3>3. CASE Writer(group[l][i]) = w
      BY <1>1, <3>1, <3>3 DEF Pending, Current
    <3> QED BY <1>1, <3>1, <3>2, <3>3 DEF Pending, Current
  <2> QED BY <2>1, <2>2 DEF IInv, GroupInv
<1>7. CallsInv'
  BY <1>1 DEF IInv, CallsInv, Current
<1> QED BY <1>2, <1>3, <1>4, <1>5, <1>6, <1>7 DEF IInv

LEMMA WaitingSteps ==
    ASSUME IInv, NEW w \in Writers,
           LeaderWaits(w) \/ Return(w) \/ Sleep(w) \/ SpuriousWakeup(w)
    PROVE  IInv'
<1>1. CASE LeaderWaits(w)
  BY <1>1, WaitingStep DEF LeaderWaits
<1>2. CASE Return(w)
  BY <1>2, WaitingStep DEF Return
<1>3. CASE Sleep(w)
  BY <1>3, WaitingStep DEF Sleep
<1>4. CASE SpuriousWakeup(w)
  BY <1>4, WaitingStep DEF SpuriousWakeup
<1> QED BY <1>1, <1>2, <1>3, <1>4

-----------------------------------------------------------------------------
(* Joining and draining the queue *)

LEMMA EnqueueStep ==
    ASSUME IInv, NEW w \in Writers, Enqueue(w)
    PROVE  IInv'
<1> DEFINE r == <<w, calls[w] + 1>>
<1>0. /\ TypeOK /\ pc[w] = "idle" /\ calls[w] < MaxCalls[w] /\ r \in Requests
      /\ calls[w] \in Nat /\ queue \in Seq(Requests)
      /\ queue' = Append(queue, r) /\ batch' = batch \cup {r}
      /\ UNCHANGED <<group, outcome, result, applied>>
  <2>1. TypeOK /\ pc[w] = "idle" /\ calls[w] < MaxCalls[w] /\ calls[w] \in Nat
    BY DEF IInv, Enqueue, TypeOK
  <2>2. r \in Requests
    BY <2>1, MaxCallsAssumption, RequestShape
  <2> QED BY <2>1, <2>2 DEF Enqueue, NewRequest, TypeOK
<1>1. /\ \A u \in Writers : pc'[u] = IF u = w THEN IF queue = <<>> THEN "lead" ELSE "wait"
                                      ELSE pc[u]
      /\ \A u \in Writers : calls'[u] = IF u = w THEN calls[w] + 1 ELSE calls[u]
  BY <1>0 DEF TypeOK, Enqueue, Leads
<1>2. /\ DOMAIN queue' = DOMAIN queue \cup {Len(queue) + 1}
      /\ \A i \in DOMAIN queue : queue'[i] = queue[i] /\ i <= Len(queue) /\ i \in Nat
      /\ queue'[Len(queue) + 1] = r /\ Len(queue) \in Nat
      /\ queue = <<>> <=> Len(queue) = 0
      /\ queue' # <<>>
  BY <1>0
\* w has no other request under way, and the new one is nowhere yet.
<1>3. ASSUME NEW i \in DOMAIN queue
      PROVE  /\ queue[i] \in Requests /\ queue[i][1] \in Writers /\ queue[i][1] # w
             /\ queue[i] # r
  BY <1>0, PlaceTypes, RequestShape, ZenonT(30) DEF IInv, QueueInv, Writer
<1>4. ASSUME NEW l \in Writers, NEW i \in DOMAIN group[l]
      PROVE  /\ group[l][i] \in Requests /\ group[l][i][1] \in Writers /\ group[l][i] # r
             /\ i \in Unanswered(l) => group[l][i][1] # w
             /\ l # w
  <2>0. group[l] # <<>>
    OBVIOUS
  <2>1. group[l][i] \in Requests /\ group[l][i][1] \in Writers /\ l # w
    BY <1>0, <2>0, PlaceTypes, RequestShape DEF IInv, LeaderInv
  <2>2. group[l][i][2] <= calls[group[l][i][1]]
    BY DEF IInv, GroupInv
  <2>3. group[l][i] # r
    BY <1>0, <2>1, <2>2, RequestShape
  <2>4. ASSUME i \in Unanswered(l) PROVE group[l][i][1] # w
    BY <1>0, <2>1, <2>4 DEF IInv, GroupInv, Writer
  <2> QED BY <2>1, <2>3, <2>4
<1> HIDE DEF r
<1>5. TypeOK'
  <2>1. calls' \in [Writers -> Nat] /\ \A u \in Writers : calls'[u] <= MaxCalls[u]
    BY <1>0, MaxCallsAssumption DEF TypeOK, Enqueue
  <2>2. queue' \in Seq(Requests) /\ batch' \subseteq Requests
    BY <1>0 DEF TypeOK
  <2>3. pc' \in [Writers -> {"idle", "lead", "apply", "complete", "notify", "wait", "asleep"}]
    BY <1>0 DEF TypeOK, Enqueue
  <2> QED BY <1>0, <2>1, <2>2, <2>3 DEF TypeOK
<1>6. PlacesDisjoint'
  <2>1. \A i, j \in DOMAIN queue' : queue'[i] = queue'[j] => i = j
    BY <1>2, <1>3 DEF IInv, PlacesDisjoint
  <2>2. \A l \in Writers : \A i \in DOMAIN group[l], j \in DOMAIN queue' : group[l][i] # queue'[j]
    BY <1>2, <1>4 DEF IInv, PlacesDisjoint
  <2> QED BY <1>0, <2>1, <2>2 DEF IInv, PlacesDisjoint
<1>7. QueueInv'
  <2> SUFFICES ASSUME NEW i \in DOMAIN queue'
               PROVE  /\ Pending(queue[i])' /\ queue'[i] \in batch' /\ applied[queue'[i]] = 0
                      /\ pc'[Writer(queue[i])'] \in IF i = 1 THEN {"lead"} ELSE {"wait", "asleep"}
    BY <1>0 DEF QueueInv
  <2>1. CASE i \in DOMAIN queue
    <3>1. queue'[i] = queue[i]
      BY <1>2, <2>1
    <3>2. /\ Pending(queue[i]) /\ queue[i] \in batch /\ applied[queue[i]] = 0
          /\ pc[Writer(queue[i])] \in IF i = 1 THEN {"lead"} ELSE {"wait", "asleep"}
      BY <2>1 DEF IInv, QueueInv
    <3>3. queue[i][1] \in Writers /\ queue[i][1] # w
      BY <1>3, <2>1
    <3> QED BY <1>0, <1>1, <3>1, <3>2, <3>3 DEF Pending, Current, Writer
  <2>2. CASE i = Len(queue) + 1
    <3>1. queue'[i] = r /\ r[1] = w /\ r[2] = calls[w] + 1
      BY <1>2, <2>2 DEF r
    <3>2. applied[r] = 0 /\ result[r] = "none"
      BY <1>0, <3>1 DEF IInv, CallsInv
    <3>3. r = <<w, calls'[w]>>
      BY <1>1 DEF r
    <3>4. pc'[w] = IF i = 1 THEN "lead" ELSE "wait"
      BY <1>1, <1>2, <2>2
    <3> QED BY <1>0, <3>1, <3>2, <3>3, <3>4 DEF Pending, Current, Writer
  <2> QED BY <1>2, <2>1, <2>2
<1>8. LeaderInv'
  <2>1. ASSUME NEW u \in Writers, pc'[u] = "lead" PROVE queue' # <<>> /\ u = Writer(queue[1])'
    <3>1. CASE u = w
      BY <1>1, <1>2, <2>1, <3>1 DEF Writer, r
    <3>2. CASE u # w
      <4>1. queue # <<>> /\ u = Writer(queue[1])
        BY <1>1, <2>1, <3>2 DEF IInv, LeaderInv
      <4>2. 1 \in DOMAIN queue
        BY <1>0, <4>1
      <4> QED BY <1>2, <4>1, <4>2 DEF Writer
    <3> QED BY <3>1, <3>2
  <2>2. group[w] = <<>>
    BY <1>0 DEF IInv, LeaderInv
  <2> QED BY <1>0, <1>1, <2>1, <2>2 DEF IInv, LeaderInv
<1>9. GroupInv'
  <2> SUFFICES ASSUME NEW l \in Writers
               PROVE  /\ \A i \in Unanswered(l)' :
                            /\ Pending(group[l][i])'
                            /\ Writer(group[l][i]) = l \/ pc'[Writer(group[l][i])] \in {"wait", "asleep"}
                      /\ \A i \in DOMAIN group[l] :
                            /\ group[l][i][2] <= calls'[group[l][i][1]]
                            /\ pc'[l] = "apply" => group[l][i] \in batch' /\ applied[group[l][i]] = 0
                            /\ pc'[l] # "apply" /\ outcome[l] = "ok" => applied[group[l][i]] = 1
    BY <1>0 DEF GroupInv, Writer
  <2>1. ASSUME NEW i \in Unanswered(l)'
        PROVE  /\ Pending(group[l][i])'
               /\ Writer(group[l][i]) = l \/ pc'[Writer(group[l][i])] \in {"wait", "asleep"}
    <3>1. i \in DOMAIN group[l] /\ l # w /\ i \in Unanswered(l)
      BY <1>0, <1>1, <1>4 DEF Unanswered
    <3>2. /\ Pending(group[l][i])
          /\ Writer(group[l][i]) = l \/ pc[Writer(group[l][i])] \in {"wait", "asleep"}
      BY <3>1 DEF IInv, GroupInv
    <3>3. group[l][i][1] # w /\ group[l][i][1] \in Writers
      BY <1>4, <3>1
    <3> QED BY <1>0, <1>1, <3>2, <3>3 DEF Pending, Current, Writer
  <2>2. ASSUME NEW i \in DOMAIN group[l]
        PROVE  /\ group[l][i][2] <= calls'[group[l][i][1]]
               /\ pc'[l] = "apply" => group[l][i] \in batch' /\ applied[group[l][i]] = 0
               /\ pc'[l] # "apply" /\ outcome[l] = "ok" => applied[group[l][i]] = 1
    <3>1. /\ group[l][i][2] <= calls[group[l][i][1]]
          /\ pc[l] = "apply" => group[l][i] \in batch /\ applied[group[l][i]] = 0
          /\ pc[l] # "apply" /\ outcome[l] = "ok" => applied[group[l][i]] = 1
      BY DEF IInv, GroupInv
    <3>2. l # w /\ group[l][i][1] \in Writers /\ group[l][i][2] \in Nat
      BY <1>4, RequestShape
    <3> QED BY <1>0, <1>1, <3>1, <3>2
  <2> QED BY <2>1, <2>2
<1>10. CallsInv'
  <2>1. ASSUME NEW u \in Writers, pc'[u] # "idle"
        PROVE  /\ calls'[u] > 0
               /\ result[<<u, calls'[u]>>] = "none" =>
                     \/ \E i \in DOMAIN queue' : queue'[i] = <<u, calls'[u]>>
                     \/ \E l \in Writers : \E i \in DOMAIN group[l] : group[l][i] = <<u, calls'[u]>>
    <3>1. CASE u = w
      <4>1. calls'[w] = calls[w] + 1 /\ r = <<w, calls'[w]>>
        BY <1>1 DEF r
      <4>2. \E i \in DOMAIN queue' : queue'[i] = <<w, calls'[w]>>
        BY <1>2, <4>1
      <4> QED BY <1>0, <3>1, <4>1, <4>2
    <3>2. CASE u # w
      <4>1. calls'[u] = calls[u] /\ pc[u] # "idle"
        BY <1>1, <2>1, <3>2
      <4>2. /\ calls[u] > 0
            /\ result[<<u, calls[u]>>] = "none" =>
                  \/ \E i \in DOMAIN queue : queue[i] = <<u, calls[u]>>
                  \/ \E l \in Writers : \E i \in DOMAIN group[l] : group[l][i] = <<u, calls[u]>>
        BY <4>1 DEF IInv, CallsInv, Current
      <4> QED BY <1>2, <4>1, <4>2
    <3> QED BY <3>1, <3>2
  <2>2. ASSUME NEW q \in Requests, q[2] > calls'[q[1]]
        PROVE  applied[q] = 0 /\ result[q] = "none"
    <3>0. q[1] \in Writers /\ q[2] \in Nat /\ calls[q[1]] \in Nat
      BY <1>0, RequestShape DEF TypeOK
    <3>1. q[2] > calls[q[1]]
      BY <1>0, <1>1, <2>2, <3>0
    <3> QED BY <3>1 DEF IInv, CallsInv
  <2> QED BY <1>0, <2>1, <2>2 DEF CallsInv, Current
<1>11. OkMeansApplied'
  BY <1>0 DEF IInv, OkMeansApplied
<1> QED BY <1>5, <1>6, <1>7, <1>8, <1>9, <1>10, <1>11 DEF IInv

LEMMA DrainStep ==
    ASSUME IInv, NEW w \in Writers, Drain(w)
    PROVE  IInv'
<1>0. /\ TypeOK /\ pc[w] = "lead" /\ queue' = <<>> /\ queue \in Seq(Requests)
      /\ UNCHANGED <<outcome, batch, result, calls, applied>>
      /\ group[w] = <<>> /\ queue # <<>> /\ w = Writer(queue[1])
  BY DEF IInv, LeaderInv, Drain, TypeOK
<1>1. /\ \A u \in Writers : pc'[u] = IF u = w THEN "apply" ELSE pc[u]
      /\ \A u \in Writers : group'[u] = IF u = w THEN queue ELSE group[u]
  BY <1>0 DEF TypeOK, Drain, Taken
<1>2. TypeOK'
  BY <1>0 DEF TypeOK, Drain, Taken
<1>3. PlacesDisjoint'
  BY <1>0, <1>1 DEF IInv, PlacesDisjoint
<1>4. QueueInv' /\ OkMeansApplied'
  BY <1>0 DEF QueueInv, IInv, OkMeansApplied
<1>5. LeaderInv'
  <2>1. \A u \in Writers : pc'[u] # "lead"
    BY <1>0, <1>1 DEF IInv, LeaderInv
  <2> QED BY <1>0, <1>1, <2>1 DEF IInv, LeaderInv
<1>6. GroupInv'
  <2>1. ASSUME NEW i \in DOMAIN queue
        PROVE  /\ queue[i] = <<queue[i][1], calls[queue[i][1]]>> /\ result[queue[i]] = "none"
               /\ queue[i][1] = w \/ pc'[queue[i][1]] \in {"wait", "asleep"}
               /\ queue[i][2] <= calls[queue[i][1]]
               /\ queue[i] \in batch /\ applied[queue[i]] = 0
    <3>1. /\ Pending(queue[i]) /\ queue[i] \in batch /\ applied[queue[i]] = 0
          /\ pc[Writer(queue[i])] \in IF i = 1 THEN {"lead"} ELSE {"wait", "asleep"}
      BY DEF IInv, QueueInv
    <3>2. queue[i] \in Requests /\ queue[i][1] \in Writers /\ queue[i][2] \in Nat
      BY <1>0, PlaceTypes, RequestShape
    <3>3. queue[i] = <<queue[i][1], calls[queue[i][1]]>>
      BY <3>1 DEF Pending, Current, Writer
    <3>4. queue[i][2] <= calls[queue[i][1]]
      BY <3>2, <3>3
    <3>5. queue[i][1] = w \/ pc'[queue[i][1]] \in {"wait", "asleep"}
      BY <1>0, <1>1, <3>1, <3>2 DEF Writer
    <3> QED BY <3>1, <3>3, <3>4, <3>5 DEF Pending
  <2>2. ASSUME NEW l \in Writers, l # w, NEW i \in Unanswered(l)'
        PROVE  /\ Pending(group[l][i])'
               /\ group[l][i][1] = l \/ pc'[group[l][i][1]] \in {"wait", "asleep"}
    <3>1. i \in DOMAIN group[l] /\ i \in Unanswered(l) /\ group'[l] = group[l]
      BY <1>1, <2>2 DEF Unanswered
    <3>2. /\ Pending(group[l][i])
          /\ Writer(group[l][i]) = l \/ pc[Writer(group[l][i])] \in {"wait", "asleep"}
      BY <3>1 DEF IInv, GroupInv
    <3>3. Writer(group[l][i]) \in Writers
      BY <1>0, <3>1, PlaceTypes, RequestShape DEF Writer
    <3> QED BY <1>0, <1>1, <3>1, <3>2, <3>3 DEF Pending, Current, Writer
  <2>3. ASSUME NEW l \in Writers, l # w, NEW i \in DOMAIN group[l]
        PROVE  /\ group[l][i][2] <= calls[group[l][i][1]]
               /\ pc'[l] = "apply" => group[l][i] \in batch /\ applied[group[l][i]] = 0
               /\ pc'[l] # "apply" /\ outcome[l] = "ok" => applied[group[l][i]] = 1
    BY <1>1, <2>3 DEF IInv, GroupInv
  <2>4. /\ group'[w] = queue /\ pc'[w] = "apply" /\ Unanswered(w)' \subseteq DOMAIN queue
        /\ \A l \in Writers : l # w => group'[l] = group[l]
    BY <1>1 DEF Unanswered
  <2>5. \A i \in DOMAIN queue : Pending(group[w][i])'
    BY <1>0, <2>1, <2>4 DEF Pending, Writer, Current
  <2> QED BY <1>0, <2>1, <2>2, <2>3, <2>4, <2>5 DEF GroupInv, Writer
<1>7. CallsInv'
  <2>1. ASSUME NEW u \in Writers, pc'[u] # "idle", result[<<u, calls[u]>>] = "none"
        PROVE  \E l \in Writers : \E i \in DOMAIN group'[l] : group'[l][i] = <<u, calls[u]>>
    <3>1. pc[u] # "idle"
      BY <1>0, <1>1, <2>1
    <3>2. \/ \E i \in DOMAIN queue : queue[i] = <<u, calls[u]>>
          \/ \E l \in Writers : \E i \in DOMAIN group[l] : group[l][i] = <<u, calls[u]>>
      BY <2>1, <3>1 DEF IInv, CallsInv, Current
    <3> QED BY <1>0, <1>1, <3>2
  <2>2. \A u \in Writers : pc'[u] # "idle" => calls[u] > 0
    BY <1>0, <1>1 DEF IInv, CallsInv
  <2> QED BY <1>0, <2>1, <2>2 DEF IInv, CallsInv, Current
<1> QED BY <1>2, <1>3, <1>4, <1>5, <1>6, <1>7 DEF IInv

-----------------------------------------------------------------------------
(* Writing the group and answering it *)

\* A step of leader w that leaves the requests where they are, and whatever
\* it does to others' requests nothing: the queue and the other groups keep
\* what they say.
LEMMA OthersKept ==
    ASSUME IInv, NEW w \in Writers, pc[w] \in {"apply", "complete", "notify"},
           NEW to, pc' = [pc EXCEPT ![w] = to], to \in {"complete", "notify"},
           UNCHANGED <<queue, group, calls>>,
           \A l \in Writers : l # w => outcome'[l] = outcome[l],
           \A r \in Requests : r \notin Members(group[w]) =>
              /\ applied'[r] = applied[r] /\ result'[r] = result[r]
              /\ r \in batch => r \in batch'
    PROVE  /\ PlacesDisjoint' /\ QueueInv'
           /\ \A l \in Writers : l # w =>
                 /\ pc[l] = "notify" => result'[group[l][1]] = result[group[l][1]]
                 /\ \A i \in Unanswered(l)' :
                       /\ Pending(group[l][i])'
                       /\ group[l][i][1] = l \/ pc'[group[l][i][1]] \in {"wait", "asleep"}
                 /\ \A i \in DOMAIN group[l] :
                       /\ group[l][i][2] <= calls[group[l][i][1]]
                       /\ pc'[l] = "apply" => group[l][i] \in batch' /\ applied'[group[l][i]] = 0
                       /\ pc'[l] # "apply" /\ outcome'[l] = "ok" => applied'[group[l][i]] = 1
<1>0. TypeOK
  BY DEF IInv
<1>1. \A u \in Writers : pc'[u] = IF u = w THEN to ELSE pc[u]
  BY <1>0 DEF TypeOK
<1>2. PlacesDisjoint'
  BY DEF IInv, PlacesDisjoint
<1>3. ASSUME NEW i \in DOMAIN queue
      PROVE  queue[i] \in Requests /\ queue[i] \notin Members(group[w])
  BY <1>0, PlaceTypes DEF IInv, PlacesDisjoint, Members
<1>4. QueueInv'
  <2> SUFFICES ASSUME NEW i \in DOMAIN queue
               PROVE  /\ Pending(queue[i])' /\ queue[i] \in batch' /\ applied'[queue[i]] = 0
                      /\ pc'[Writer(queue[i])] \in IF i = 1 THEN {"lead"} ELSE {"wait", "asleep"}
    BY DEF QueueInv, Writer
  <2>1. /\ Pending(queue[i]) /\ queue[i] \in batch /\ applied[queue[i]] = 0
        /\ pc[Writer(queue[i])] \in IF i = 1 THEN {"lead"} ELSE {"wait", "asleep"}
    BY DEF IInv, QueueInv
  <2>2. Writer(queue[i]) \in Writers
    BY <1>3, RequestShape DEF Writer
  <2> QED BY <1>1, <1>3, <2>1, <2>2 DEF Pending, Current
<1>5. ASSUME NEW l \in Writers, l # w, NEW i \in DOMAIN group[l]
      PROVE  group[l][i] \in Requests /\ group[l][i] \notin Members(group[w])
  BY <1>0, <1>5, PlaceTypes DEF IInv, PlacesDisjoint, Members
<1>6. ASSUME NEW l \in Writers, l # w, pc[l] = "notify"
      PROVE  result'[group[l][1]] = result[group[l][1]]
  <2>1. 1 \in DOMAIN group[l]
    BY <1>0, <1>6 DEF IInv, LeaderInv, TypeOK
  <2> QED BY <1>5, <1>6, <2>1
<1>7. ASSUME NEW l \in Writers, l # w, NEW i \in Unanswered(l)'
      PROVE  /\ Pending(group[l][i])'
             /\ group[l][i][1] = l \/ pc'[group[l][i][1]] \in {"wait", "asleep"}
  <2>1. i \in DOMAIN group[l] /\ i \in Unanswered(l)
    BY <1>1, <1>7 DEF Unanswered
  <2>2. /\ Pending(group[l][i])
        /\ group[l][i][1] = l \/ pc[group[l][i][1]] \in {"wait", "asleep"}
    BY <2>1 DEF IInv, GroupInv, Writer
  <2>3. group[l][i] \in Requests /\ group[l][i] \notin Members(group[w])
    BY <1>5, <1>7, <2>1
  <2>4. group[l][i][1] \in Writers
    BY <2>3, RequestShape
  <2>5. Pending(group[l][i])'
    BY <2>2, <2>3 DEF Pending, Current
  <2> QED BY <1>1, <2>2, <2>4, <2>5
<1>8. ASSUME NEW l \in Writers, l # w, NEW i \in DOMAIN group[l]
      PROVE  /\ group[l][i][2] <= calls[group[l][i][1]]
             /\ pc'[l] = "apply" => group[l][i] \in batch' /\ applied'[group[l][i]] = 0
             /\ pc'[l] # "apply" /\ outcome'[l] = "ok" => applied'[group[l][i]] = 1
  <2>1. /\ group[l][i][2] <= calls[group[l][i][1]]
        /\ pc[l] = "apply" => group[l][i] \in batch /\ applied[group[l][i]] = 0
        /\ pc[l] # "apply" /\ outcome[l] = "ok" => applied[group[l][i]] = 1
    BY DEF IInv, GroupInv
  <2> QED BY <1>1, <1>5, <1>8, <2>1
<1> QED BY <1>2, <1>4, <1>6, <1>7, <1>8

LEMMA ApplyGroupStep ==
    ASSUME IInv, NEW w \in Writers, NEW ok \in BOOLEAN, NEW written \in BOOLEAN,
           ApplyGroup(w, ok, written)
    PROVE  IInv'
<1>0. /\ TypeOK /\ pc[w] = "apply" /\ pc' = [pc EXCEPT ![w] = "complete"]
      /\ UNCHANGED <<queue, group, result, calls>>
      /\ batch' = batch \ Members(group[w])
  BY DEF IInv, ApplyGroup
<1>a. PICK o \in {"ok", "err"}, n \in {0, 1} :
         /\ outcome' = [outcome EXCEPT ![w] = o]
         /\ applied' = [r \in Requests |-> IF r \in Members(group[w]) THEN applied[r] + n ELSE applied[r]]
         /\ o = "ok" => n = 1
  <2>1. applied \in [Requests -> Nat]
    BY <1>0 DEF TypeOK
  <2>2. CASE ok = TRUE /\ written = TRUE
    <3>1. /\ outcome' = [outcome EXCEPT ![w] = "ok"]
          /\ applied' = [r \in Requests |-> IF r \in Members(group[w]) THEN applied[r] + 1 ELSE applied[r]]
      BY <2>2 DEF ApplyGroup
    <3> QED BY <3>1
  <2>3. CASE ok = FALSE /\ written = TRUE
    <3>1. /\ outcome' = [outcome EXCEPT ![w] = "err"]
          /\ applied' = [r \in Requests |-> IF r \in Members(group[w]) THEN applied[r] + 1 ELSE applied[r]]
      BY <2>3 DEF ApplyGroup
    <3> QED BY <3>1
  <2>4. CASE ok = FALSE /\ written = FALSE
    <3>1. outcome' = [outcome EXCEPT ![w] = "err"] /\ applied' = [r \in Requests |-> applied[r]]
      BY <2>4 DEF ApplyGroup
    <3>2. \A r \in Requests : applied[r] = IF r \in Members(group[w]) THEN applied[r] + 0 ELSE applied[r]
      BY <2>1
    <3> QED BY <3>1, <3>2
  <2>5. ok = TRUE => written = TRUE
    BY DEF ApplyGroup, CanReport
  <2> QED BY <2>2, <2>3, <2>4, <2>5
<1>1. /\ \A u \in Writers : pc'[u] = IF u = w THEN "complete" ELSE pc[u]
      /\ \A u \in Writers : outcome'[u] = IF u = w THEN o ELSE outcome[u]
      /\ \A r \in Requests : /\ r \in Members(group[w]) => applied'[r] = applied[r] + n
                             /\ r \notin Members(group[w]) => applied'[r] = applied[r]
                             /\ applied[r] \in Nat
  BY <1>0, <1>a DEF TypeOK
<1>2. TypeOK'
  <2>1. applied' \in [Requests -> Nat]
    BY <1>0, <1>a DEF TypeOK
  <2>2. outcome' \in [Writers -> Outcomes]
    BY <1>0, <1>a DEF TypeOK, Outcomes
  <2> QED BY <1>0, <2>1, <2>2 DEF TypeOK
<1>3. /\ PlacesDisjoint' /\ QueueInv'
      /\ \A l \in Writers : l # w =>
            /\ pc[l] = "notify" => result'[group[l][1]] = result[group[l][1]]
            /\ \A i \in Unanswered(l)' :
                  /\ Pending(group[l][i])'
                  /\ group[l][i][1] = l \/ pc'[group[l][i][1]] \in {"wait", "asleep"}
            /\ \A i \in DOMAIN group[l] :
                  /\ group[l][i][2] <= calls[group[l][i][1]]
                  /\ pc'[l] = "apply" => group[l][i] \in batch' /\ applied'[group[l][i]] = 0
                  /\ pc'[l] # "apply" /\ outcome'[l] = "ok" => applied'[group[l][i]] = 1
  <2>1. \A r \in Requests : r \notin Members(group[w]) =>
              /\ applied'[r] = applied[r] /\ result'[r] = result[r]
              /\ r \in batch => r \in batch'
    BY <1>0, <1>1
  <2> QED BY <1>0, <1>1, <2>1, OthersKept
<1>4. LeaderInv'
  BY <1>0, <1>1 DEF IInv, LeaderInv
<1>5. ASSUME NEW i \in DOMAIN group[w]
      PROVE  group[w][i] \in Requests /\ applied[group[w][i]] = 0 /\ group[w][i] \in Members(group[w])
  BY <1>0, PlaceTypes DEF IInv, GroupInv, Members
<1>6. GroupInv'
  <2>1. ASSUME NEW i \in DOMAIN group[w]
        PROVE  /\ Pending(group[w][i])'
               /\ group[w][i][1] = w \/ pc'[group[w][i][1]] \in {"wait", "asleep"}
               /\ group[w][i][2] <= calls[group[w][i][1]]
               /\ outcome'[w] = "ok" => applied'[group[w][i]] = 1
    <3>1. i \in Unanswered(w)
      BY <1>0 DEF Unanswered
    <3>2. /\ Pending(group[w][i]) /\ group[w][i][2] <= calls[group[w][i][1]]
          /\ group[w][i][1] = w \/ pc[group[w][i][1]] \in {"wait", "asleep"}
      BY <3>1 DEF IInv, GroupInv, Writer
    <3>3. group[w][i][1] \in Writers
      BY <1>5, RequestShape
    <3>4. Pending(group[w][i])'
      BY <1>0, <3>2 DEF Pending, Current
    <3>5. outcome'[w] = "ok" => applied'[group[w][i]] = 1
      BY <1>a, <1>1, <1>5
    <3> QED BY <1>1, <3>2, <3>3, <3>4, <3>5
  <2>2. pc'[w] # "apply" /\ Unanswered(w)' \subseteq DOMAIN group[w]
    BY <1>0, <1>1 DEF Unanswered
  <2> QED BY <1>0, <1>3, <2>1, <2>2 DEF GroupInv, Writer
<1>7. CallsInv'
  <2>1. ASSUME NEW r \in Requests, r[2] > calls[r[1]] PROVE applied'[r] = 0
    <3>1. r \notin Members(group[w])
      <4>1. ASSUME NEW i \in DOMAIN group[w], r = group[w][i] PROVE FALSE
        <5>1. r[2] <= calls[r[1]]
          BY <4>1 DEF IInv, GroupInv
        <5> QED BY <1>0, <2>1, <5>1, RequestShape DEF TypeOK
      <4> QED BY <4>1 DEF Members
    <3> QED BY <1>1, <2>1, <3>1 DEF IInv, CallsInv
  <2>2. \A u \in Writers : pc'[u] # "idle" => pc[u] # "idle"
    BY <1>0, <1>1
  <2> QED BY <1>0, <2>1, <2>2 DEF IInv, CallsInv, Current
<1>8. OkMeansApplied'
  <2> SUFFICES ASSUME NEW r \in Requests
               PROVE  applied'[r] <= 1 /\ (result[r] = "ok" => applied'[r] = 1)
    BY <1>0 DEF OkMeansApplied
  <2>1. CASE r \in Members(group[w])
    <3>1. PICK i \in DOMAIN group[w] : r = group[w][i]
      BY <2>1 DEF Members
    <3>2. i \in Unanswered(w)
      BY <1>0 DEF Unanswered
    <3>3. result[r] = "none"
      BY <3>1, <3>2 DEF IInv, GroupInv, Pending
    <3>4. applied[r] = 0
      BY <1>5, <3>1
    <3> QED BY <1>1, <3>3, <3>4
  <2>2. CASE r \notin Members(group[w])
    BY <1>1, <2>2 DEF IInv, OkMeansApplied
  <2> QED BY <2>1, <2>2
<1> QED BY <1>2, <1>3, <1>4, <1>6, <1>7, <1>8 DEF IInv

LEMMA SetResultStep ==
    ASSUME IInv, NEW w \in Writers, SetResult(w)
    PROVE  IInv'
<1> DEFINE head == group[w][1]
<1>0. /\ TypeOK /\ pc[w] = "complete" /\ pc' = [pc EXCEPT ![w] = "notify"]
      /\ UNCHANGED <<queue, group, outcome, batch, calls, applied>>
      /\ group[w] # <<>> /\ 1 \in DOMAIN group[w] /\ head \in Requests
      /\ result' = [result EXCEPT ![head] = outcome[w]]
      /\ outcome[w] # "none" /\ outcome[w] \in Outcomes
      /\ head \in Members(group[w])
  BY PlaceTypes DEF IInv, SetResult, TypeOK, LeaderInv, Members
<1>1. /\ \A u \in Writers : pc'[u] = IF u = w THEN "notify" ELSE pc[u]
      /\ \A r \in Requests : result'[r] = IF r = head THEN outcome[w] ELSE result[r]
  BY <1>0 DEF TypeOK
<1>2. TypeOK'
  <2>1. result' \in [Requests -> Outcomes]
    BY <1>0 DEF TypeOK
  <2> QED BY <1>0, <2>1 DEF TypeOK
<1> HIDE DEF head
<1>3. /\ PlacesDisjoint' /\ QueueInv'
      /\ \A l \in Writers : l # w =>
            /\ pc[l] = "notify" => result'[group[l][1]] = result[group[l][1]]
            /\ \A i \in Unanswered(l)' :
                  /\ Pending(group[l][i])'
                  /\ group[l][i][1] = l \/ pc'[group[l][i][1]] \in {"wait", "asleep"}
            /\ \A i \in DOMAIN group[l] :
                  /\ group[l][i][2] <= calls[group[l][i][1]]
                  /\ pc'[l] = "apply" => group[l][i] \in batch' /\ applied'[group[l][i]] = 0
                  /\ pc'[l] # "apply" /\ outcome'[l] = "ok" => applied'[group[l][i]] = 1
  <2>1. \A r \in Requests : r \notin Members(group[w]) =>
              /\ applied'[r] = applied[r] /\ result'[r] = result[r]
              /\ r \in batch => r \in batch'
    BY <1>0, <1>1
  <2> QED BY <1>0, <2>1, OthersKept
<1>4. LeaderInv'
  <2>1. result'[group[w][1]] # "none"
    BY <1>0, <1>1 DEF head
  <2> QED BY <1>0, <1>1, <1>3, <2>1 DEF IInv, LeaderInv
<1>5. ASSUME NEW i \in DOMAIN group[w]
      PROVE  /\ group[w][i] \in Requests /\ i \in Unanswered(w)
             /\ group[w][i][2] <= calls[group[w][i][1]]
             /\ outcome[w] = "ok" => applied[group[w][i]] = 1
  BY <1>0, PlaceTypes DEF IInv, GroupInv, Unanswered
<1>6. GroupInv'
  <2>1. ASSUME NEW i \in Unanswered(w)'
        PROVE  /\ Pending(group[w][i])'
               /\ group[w][i][1] = w \/ pc'[group[w][i][1]] \in {"wait", "asleep"}
    <3>1. i \in DOMAIN group[w] /\ i # 1
      BY <1>0, <1>1, <1>2, PlaceTypes DEF Unanswered
    <3>2. group[w][i] # head /\ group[w][i] \in Requests /\ i \in Unanswered(w)
      BY <1>0, <1>5, <3>1 DEF IInv, PlacesDisjoint, head
    <3>3. /\ Pending(group[w][i])
          /\ group[w][i][1] = w \/ pc[group[w][i][1]] \in {"wait", "asleep"}
      BY <3>2 DEF IInv, GroupInv, Writer
    <3>4. Pending(group[w][i])'
      BY <1>0, <1>1, <3>2, <3>3 DEF Pending, Current
    <3>5. group[w][i][1] \in Writers
      BY <3>2, RequestShape
    <3> QED BY <1>1, <3>3, <3>4, <3>5
  <2>2. pc'[w] # "apply"
    BY <1>1
  <2> QED BY <1>0, <1>3, <1>5, <2>1, <2>2 DEF GroupInv, Writer
<1>7. CallsInv'
  <2>1. ASSUME NEW u \in Writers, pc'[u] # "idle"
        PROVE  /\ calls[u] > 0
               /\ result'[<<u, calls[u]>>] = "none" =>
                     \/ \E i \in DOMAIN queue : queue[i] = <<u, calls[u]>>
                     \/ \E l \in Writers : \E i \in DOMAIN group[l] : group[l][i] = <<u, calls[u]>>
    <3>1. pc[u] # "idle"
      BY <1>0, <1>1, <2>1
    <3>2. /\ calls[u] > 0
          /\ result[<<u, calls[u]>>] = "none" =>
                \/ \E i \in DOMAIN queue : queue[i] = <<u, calls[u]>>
                \/ \E l \in Writers : \E i \in DOMAIN group[l] : group[l][i] = <<u, calls[u]>>
      BY <3>1 DEF IInv, CallsInv, Current
    <3>3. <<u, calls[u]>> \in Requests
      BY <1>0, <3>2, RequestShape DEF TypeOK
    <3>4. result'[<<u, calls[u]>>] = "none" => result[<<u, calls[u]>>] = "none"
      BY <1>0, <1>1, <3>3
    <3> QED BY <3>2, <3>4
  <2>2. ASSUME NEW r \in Requests, r[2] > calls[r[1]]
        PROVE  applied[r] = 0 /\ result'[r] = "none"
    <3>1. r # head
      <4>1. head[2] <= calls[head[1]]
        BY <1>0, <1>5 DEF head
      <4> QED BY <1>0, <2>2, <4>1, RequestShape DEF TypeOK
    <3> QED BY <1>1, <2>2, <3>1 DEF IInv, CallsInv
  <2> QED BY <1>0, <2>1, <2>2 DEF CallsInv, Current
<1>8. OkMeansApplied'
  <2>1. outcome[w] = "ok" => applied[head] = 1
    BY <1>0, <1>5 DEF head
  <2> QED BY <1>0, <1>1, <2>1 DEF IInv, OkMeansApplied
<1> QED BY <1>2, <1>3, <1>4, <1>6, <1>7, <1>8 DEF IInv

LEMMA NotifyOneStep ==
    ASSUME IInv, NEW w \in Writers, NotifyOne(w)
    PROVE  IInv'
<1>0. /\ TypeOK /\ pc[w] = "notify" /\ group[w] \in Seq(Requests) /\ group[w] # <<>>
      /\ UNCHANGED <<queue, outcome, batch, result, calls, applied>>
      /\ result[group[w][1]] # "none"
  BY DEF IInv, NotifyOne, LeaderInv, TypeOK
<1>1. /\ pc'[w] = "complete"
      /\ \A u \in Writers : u # w => pc'[u] = pc[u] \/ (pc[u] = "asleep" /\ pc'[u] = "wait")
      /\ \A u \in Writers : group'[u] = IF u = w THEN Tail(group[w]) ELSE group[u]
  <2>1. \A u \in Writers : u \in Woken(Head(group[w])) => pc[u] = "asleep"
    BY DEF Woken
  <2>2. /\ pc' = [u \in Writers |-> IF u = w THEN "complete"
                                ELSE IF u \in Woken(Head(group[w])) THEN "wait" ELSE pc[u]]
        /\ group' = [group EXCEPT ![w] = Tail(@)]
    BY DEF NotifyOne
  <2> HIDE DEF Woken
  <2>3. \A u \in Writers : pc'[u] = IF u = w THEN "complete"
                                ELSE IF u \in Woken(Head(group[w])) THEN "wait" ELSE pc[u]
    BY <2>2
  <2>4. \A u \in Writers : group'[u] = IF u = w THEN Tail(group[w]) ELSE group[u]
    BY <1>0, <2>2 DEF TypeOK
  <2> QED BY <2>1, <2>3, <2>4
<1>2. TypeOK'
  <2>1. pc' \in [Writers -> {"idle", "lead", "apply", "complete", "notify", "wait", "asleep"}]
    BY <1>0 DEF TypeOK, NotifyOne
  <2>2. group' \in [Writers -> Seq(Requests)]
    BY <1>0 DEF TypeOK, NotifyOne
  <2> QED BY <1>0, <2>1, <2>2 DEF TypeOK
<1>3. \A i \in DOMAIN group'[w] :
         /\ i \in Nat /\ i >= 1 /\ i + 1 \in DOMAIN group[w]
         /\ group'[w][i] = group[w][i + 1]
  <2>1. /\ group'[w] = Tail(group[w]) /\ Tail(group[w]) \in Seq(Requests)
        /\ Len(Tail(group[w])) = Len(group[w]) - 1 /\ Len(group[w]) \in Nat /\ Len(group[w]) > 0
    BY <1>0, <1>1
  <2>2. /\ DOMAIN group'[w] = 1..Len(Tail(group[w])) /\ DOMAIN group[w] = 1..Len(group[w])
        /\ \A i \in 1..Len(Tail(group[w])) : Tail(group[w])[i] = group[w][i + 1]
    BY <1>0, <2>1
  <2> QED BY <2>1, <2>2
\* Whoever is elsewhere stays where it was, as far as the invariant can tell.
<1>4. /\ \A u \in Writers : pc'[u] \in {"wait", "asleep"} <=> pc[u] \in {"wait", "asleep"}
      /\ \A u \in Writers : pc'[u] = "lead" <=> pc[u] = "lead"
      /\ \A u \in Writers : pc'[u] = "idle" <=> pc[u] = "idle"
      /\ \A u \in Writers : u # w => /\ pc'[u] = "apply" <=> pc[u] = "apply"
                                     /\ pc'[u] = "notify" <=> pc[u] = "notify"
                                     /\ pc'[u] = "complete" <=> pc[u] = "complete"
  BY <1>0, <1>1
<1>5. PlacesDisjoint'
  <2>1. \A i, j \in DOMAIN group'[w] : group'[w][i] = group'[w][j] => i = j
    BY <1>3 DEF IInv, PlacesDisjoint
  <2>2. \A l \in Writers : \A i, j \in DOMAIN group'[l] : group'[l][i] = group'[l][j] => i = j
    BY <1>1, <2>1 DEF IInv, PlacesDisjoint
  <2>3. \A l, m \in Writers : \A i \in DOMAIN group'[l], j \in DOMAIN group'[m] :
           group'[l][i] = group'[m][j] => l = m
    BY <1>1, <1>3 DEF IInv, PlacesDisjoint
  <2>4. \A l \in Writers : \A i \in DOMAIN group'[l], j \in DOMAIN queue : group'[l][i] # queue[j]
    BY <1>1, <1>3 DEF IInv, PlacesDisjoint
  <2> QED BY <1>0, <2>2, <2>3, <2>4 DEF IInv, PlacesDisjoint
<1>6. QueueInv'
  <2> SUFFICES ASSUME NEW i \in DOMAIN queue
               PROVE  /\ Pending(queue[i])' /\ queue[i] \in batch /\ applied[queue[i]] = 0
                      /\ pc'[Writer(queue[i])] \in IF i = 1 THEN {"lead"} ELSE {"wait", "asleep"}
    BY <1>0 DEF QueueInv, Writer
  <2>1. /\ Pending(queue[i]) /\ queue[i] \in batch /\ applied[queue[i]] = 0
        /\ pc[Writer(queue[i])] \in IF i = 1 THEN {"lead"} ELSE {"wait", "asleep"}
    BY DEF IInv, QueueInv
  <2>2. Writer(queue[i]) \in Writers
    BY <1>0, PlaceTypes, RequestShape DEF Writer
  <2>3. Pending(queue[i])'
    BY <1>0, <2>1 DEF Pending, Current
  <2> QED BY <1>4, <2>1, <2>2, <2>3
<1>7. LeaderInv'
  <2>1. \A u \in Writers : pc'[u] = "lead" => queue # <<>> /\ u = Writer(queue[1])
    BY <1>4 DEF IInv, LeaderInv
  <2>2. outcome[w] # "none"
    BY <1>0 DEF IInv, LeaderInv
  <2>3. ASSUME NEW l \in Writers, l # w
        PROVE  /\ group'[l] # <<>> => pc'[l] \in {"apply", "complete", "notify"}
               /\ pc'[l] = "notify" => group'[l] # <<>> /\ result[group'[l][1]] # "none"
               /\ pc'[l] \in {"complete", "notify"} => outcome[l] # "none"
    BY <1>1, <1>4, <2>3 DEF IInv, LeaderInv
  <2> QED BY <1>0, <1>1, <2>1, <2>2, <2>3 DEF LeaderInv, Writer
<1>8. GroupInv'
  <2>1. ASSUME NEW i \in DOMAIN group'[w]
        PROVE  /\ Pending(group[w][i])'
               /\ group'[w][i][1] = w \/ pc'[group'[w][i][1]] \in {"wait", "asleep"}
               /\ group'[w][i][2] <= calls[group'[w][i][1]]
               /\ outcome[w] = "ok" => applied[group'[w][i]] = 1
    <3>1. /\ i + 1 \in DOMAIN group[w] /\ group'[w][i] = group[w][i + 1]
          /\ i + 1 \in Unanswered(w)
      BY <1>0, <1>3 DEF Unanswered
    <3>2. /\ Pending(group[w][i + 1])
          /\ group[w][i + 1][1] = w \/ pc[group[w][i + 1][1]] \in {"wait", "asleep"}
      BY <3>1 DEF IInv, GroupInv, Writer
    <3>3. /\ group[w][i + 1][2] <= calls[group[w][i + 1][1]]
          /\ outcome[w] = "ok" => applied[group[w][i + 1]] = 1
      BY <1>0, <3>1 DEF IInv, GroupInv
    <3>4. group[w][i + 1][1] \in Writers
      BY <1>0, <3>1, PlaceTypes, RequestShape
    <3>5. Pending(group[w][i])'
      BY <1>0, <3>1, <3>2 DEF Pending, Current, Writer
    <3> QED BY <1>4, <3>1, <3>2, <3>3, <3>4, <3>5
  <2>2. pc'[w] = "complete" /\ Unanswered(w)' \subseteq DOMAIN group'[w]
    BY <1>1 DEF Unanswered
  <2>3. ASSUME NEW l \in Writers, l # w
        PROVE  /\ group'[l] = group[l] /\ Unanswered(l)' = Unanswered(l)
               /\ Unanswered(l) \subseteq DOMAIN group[l]
    BY <1>1, <1>4, <2>3 DEF Unanswered
  <2>4. ASSUME NEW l \in Writers, l # w, NEW i \in Unanswered(l)
        PROVE  /\ Pending(group[l][i])'
               /\ group[l][i][1] = l \/ pc'[group[l][i][1]] \in {"wait", "asleep"}
    <3>1. /\ Pending(group[l][i])
          /\ group[l][i][1] = l \/ pc[group[l][i][1]] \in {"wait", "asleep"}
      BY DEF IInv, GroupInv, Writer
    <3>2. group[l][i][1] \in Writers
      BY <1>0, <2>3, <2>4, PlaceTypes, RequestShape
    <3>3. Pending(group[l][i])'
      BY <1>0, <2>3, <2>4, <3>1 DEF Pending, Current, Writer
    <3> QED BY <1>4, <3>1, <3>2, <3>3
  <2>5. ASSUME NEW l \in Writers, l # w, NEW i \in DOMAIN group[l]
        PROVE  /\ group[l][i][2] <= calls[group[l][i][1]]
               /\ pc'[l] = "apply" => group[l][i] \in batch /\ applied[group[l][i]] = 0
               /\ pc'[l] # "apply" /\ outcome[l] = "ok" => applied[group[l][i]] = 1
    BY <1>4, <2>5 DEF IInv, GroupInv
  <2> QED BY <1>0, <2>1, <2>2, <2>3, <2>4, <2>5 DEF GroupInv, Writer
<1>9. CallsInv'
  <2>1. ASSUME NEW u \in Writers, pc'[u] # "idle", result[<<u, calls[u]>>] = "none"
        PROVE  \/ \E i \in DOMAIN queue : queue[i] = <<u, calls[u]>>
               \/ \E l \in Writers : \E i \in DOMAIN group'[l] : group'[l][i] = <<u, calls[u]>>
    <3>1. \/ \E i \in DOMAIN queue : queue[i] = <<u, calls[u]>>
          \/ \E l \in Writers : \E i \in DOMAIN group[l] : group[l][i] = <<u, calls[u]>>
      BY <1>4, <2>1 DEF IInv, CallsInv, Current
    <3>2. ASSUME NEW i \in DOMAIN group[w], group[w][i] = <<u, calls[u]>>
          PROVE  \E j \in DOMAIN group'[w] : group'[w][j] = <<u, calls[u]>>
      <4>1. i # 1
        BY <1>0, <2>1, <3>2
      <4>2. /\ i \in Nat /\ i >= 2 /\ i <= Len(group[w]) /\ Len(group[w]) \in Nat
            /\ group'[w] = Tail(group[w])
        BY <1>0, <1>1, <3>2, <4>1
      <4>3. Len(Tail(group[w])) = Len(group[w]) - 1 /\ Tail(group[w]) \in Seq(Requests)
        BY <1>0
      <4>4. i - 1 \in 1..Len(Tail(group[w])) /\ i - 1 + 1 = i
        BY <4>2, <4>3
      <4>5. Tail(group[w])[i - 1] = group[w][i - 1 + 1]
        BY <1>0, <4>2, <4>3, <4>4
      <4>6. i - 1 \in DOMAIN group'[w] /\ group'[w][i - 1] = group[w][i]
        BY <4>2, <4>3, <4>4, <4>5
      <4> QED BY <3>2, <4>6
    <3> QED BY <1>1, <3>1, <3>2
  <2>2. \A u \in Writers : pc'[u] # "idle" => calls[u] > 0
    BY <1>4 DEF IInv, CallsInv
  <2> QED BY <1>0, <2>1, <2>2 DEF IInv, CallsInv, Current
<1>10. OkMeansApplied'
  BY <1>0 DEF IInv, OkMeansApplied
<1> QED BY <1>2, <1>5, <1>6, <1>7, <1>8, <1>9, <1>10 DEF IInv

-----------------------------------------------------------------------------
LEMMA NextIInv == IInv /\ [Next]_vars => IInv'
<1> SUFFICES ASSUME IInv, [Next]_vars PROVE IInv'
  OBVIOUS
<1>1. ASSUME NEW w \in Writers, Enqueue(w) PROVE IInv'
  BY <1>1, EnqueueStep
<1>2. ASSUME NEW w \in Writers, Step(w) PROVE IInv'
  BY <1>2, DrainStep, ApplyGroupStep, SetResultStep, NotifyOneStep, WaitingSteps DEF Step
<1>3. ASSUME NEW w \in Writers, SpuriousWakeup(w) PROVE IInv'
  BY <1>3, WaitingSteps
<1>4. CASE UNCHANGED vars
  <2> USE <1>4 DEF vars
  <2>1. TypeOK' /\ OkMeansApplied'
    BY DEF IInv, TypeOK, OkMeansApplied
  <2>2. PlacesDisjoint'
    BY DEF IInv, PlacesDisjoint
  <2>3. QueueInv'
    BY DEF IInv, QueueInv, Pending, Current, Writer
  <2>4. LeaderInv'
    BY DEF IInv, LeaderInv, Writer
  <2>5. GroupInv'
    BY DEF IInv, GroupInv, Unanswered, Pending, Current, Writer
  <2>6. CallsInv'
    BY DEF IInv, CallsInv, Current
  <2> QED BY <2>1, <2>2, <2>3, <2>4, <2>5, <2>6 DEF IInv
<1> QED BY <1>1, <1>2, <1>3, <1>4 DEF Next

\* DB::write, PendingWrite::complete and PendingWrite::wait keep every request
\* in one place and in the state that place calls for.
THEOREM Inductive == Spec => []IInv
BY InitIInv, NextIInv, PTL DEF Spec

\* The variables keep their types: a leader answers requests that exist, and
\* no writer makes more calls than it may.
THEOREM TypeCorrect == Spec => []TypeOK
<1>1. IInv => TypeOK
  BY DEF IInv
<1> QED BY <1>1, Inductive, PTL

\* Whoever calls DB::write, and in whatever order, the queue is never left to
\* nobody and never drained by two: the writer of its first request leads.
THEOREM OneLeader == Spec => []QueueHasLeader
<1>1. ASSUME IInv PROVE QueueHasLeader
  <2>1. CASE queue = <<>>
    BY <1>1, <2>1 DEF IInv, LeaderInv, QueueHasLeader
  <2>2. CASE queue # <<>>
    <3>1. 1 \in DOMAIN queue /\ Head(queue) = queue[1] /\ queue[1] \in Requests
      BY <1>1, <2>2 DEF IInv, TypeOK
    <3>2. Writer(queue[1]) \in Writers
      BY <3>1, RequestShape DEF Writer
    <3>3. pc[Writer(queue[1])] = "lead"
      BY <1>1, <3>1 DEF IInv, QueueInv
    <3>4. \A w \in Writers : pc[w] = "lead" => w = Writer(queue[1])
      BY <1>1 DEF IInv, LeaderInv
    <3> QED BY <2>2, <3>1, <3>2, <3>3, <3>4 DEF QueueHasLeader
  <2> QED BY <2>1, <2>2
<1> QED BY <1>1, Inductive, PTL

\* No request is lost and none is held twice: while its writer waits in
\* DB::write without an answer it is in the queue or in one leader's group.
THEOREM RequestsHeldOnce == Spec => []HeldOnce
<1>1. ASSUME IInv PROVE HeldOnce
  <2> SUFFICES ASSUME NEW w \in Writers, pc[w] # "idle", result[Current(w)] = "none"
               PROVE  \E p \in Places(Current(w)) : Places(Current(w)) = {p}
    BY DEF HeldOnce
  <2> DEFINE r == Current(w)
  <2>0. PlacesDisjoint
    BY <1>1 DEF IInv
  <2>1. \/ \E i \in DOMAIN queue : queue[i] = r
        \/ \E l \in Writers : \E i \in DOMAIN group[l] : group[l][i] = r
    BY <1>1 DEF IInv, CallsInv
  <2> HIDE DEF r
  <2>2. CASE \E i \in DOMAIN queue : queue[i] = r
    <3>1. PICK i \in DOMAIN queue : queue[i] = r
      BY <2>2
    <3>2. \A j \in DOMAIN queue : queue[j] = r => j = i
      BY <2>0, <3>1 DEF PlacesDisjoint
    <3>3. \A l \in Writers : \A j \in DOMAIN group[l] : group[l][j] # r
      BY <2>0, <3>1 DEF PlacesDisjoint
    <3>4. Places(r) = {<<"queue", i>>}
      BY <3>1, <3>2, <3>3 DEF Places
    <3> QED BY <3>4 DEF r
  <2>3. CASE \E l \in Writers : \E i \in DOMAIN group[l] : group[l][i] = r
    <3>1. PICK l \in Writers : \E i \in DOMAIN group[l] : group[l][i] = r
      BY <2>3
    <3>2. PICK i \in DOMAIN group[l] : group[l][i] = r
      BY <3>1
    <3>3. \A j \in DOMAIN queue : queue[j] # r
      BY <2>0, <3>2 DEF PlacesDisjoint
    <3>4. \A m \in Writers : \A j \in DOMAIN group[m] : group[m][j] = r => m = l /\ j = i
      BY <2>0, <3>2 DEF PlacesDisjoint
    <3>5. Places(r) = {<<l, i>>}
      BY <3>2, <3>3, <3>4 DEF Places
    <3> QED BY <3>5 DEF r
  <2> QED BY <2>1, <2>2, <2>3
<1> QED BY <1>1, Inductive, PTL

\* Ok from DB::write means that apply_write_group wrote this batch to the
\* memtable, once; an error does not make a later leader write it again.
THEOREM OkAppliedOnce == Spec => []OkMeansApplied
<1>1. IInv => OkMeansApplied
  BY DEF IInv
<1> QED BY <1>1, Inductive, PTL
=============================================================================
