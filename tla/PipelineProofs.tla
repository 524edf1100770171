--------------------------- MODULE PipelineProofs ---------------------------
(***************************************************************************)
(* For any number of workers, any capacity and any calls: no candidate is  *)
(* scored twice or gets lost while there is time, the goroutines implement *)
(* Survey, and the plan does not depend on the order of the answers.  The  *)
(* second half is about the searches the scores are made of: Hops finds a  *)
(* shortest route and ShortestCost a cheapest one, on every map.           *)
(***************************************************************************)
EXTENDS PipelineProps, SliceProofs

\* The types the proofs need: everything but what the answer ranks.
Places ==
  /\ task \in [kind : {"risk", "intercept"}, jobs : Seq(Candidate)]
  /\ expired \in BOOLEAN /\ dispatching \in BOOLEAN /\ outClosed \in BOOLEAN
  /\ next \in 1..Len(Jobs) + 1
  /\ in \in Seq(JobNumbers) /\ collected \in Seq(JobNumbers)
  /\ worker \in [Worker -> {Idle, Done} \cup {Holding(j) : j \in JobNumbers}]
  /\ answer.ready \in BOOLEAN

LEMMA JobsAreCandidates ==
  ASSUME Places
  PROVE  /\ Jobs \in Seq(Candidate) /\ Len(Jobs) \in Nat
         /\ \A j \in JobNumbers : Jobs[j] \in Candidate
BY DEF Places, Jobs, JobNumbers

\* What a worker is doing tells its record, and the other way round.
LEMMA WorkerStates ==
  ASSUME Places, NEW w \in Worker
  PROVE  /\ Idle # Done /\ \A j \in JobNumbers : Holding(j) # Idle /\ Holding(j) # Done
         /\ worker[w].at = "select" =>
              worker[w].job \in JobNumbers /\ worker[w] = Holding(worker[w].job)
         /\ \A i, j \in JobNumbers : Holding(i) = Holding(j) => i = j
<1>1. worker[w] \in {Idle, Done} \cup {Holding(j) : j \in JobNumbers}
  BY DEF Places
<1>2. \A j \in JobNumbers : Holding(j).at = "select" /\ Holding(j).job = j
  BY DEF Holding
<1>3. Idle.at = "range" /\ Done.at = "done"
  BY DEF Idle, Done
<1> QED
  BY <1>1, <1>2, <1>3

LEMMA AnswerIsReady ==
  ASSUME NEW saw, Answer(saw)
  PROVE  answer'.ready = TRUE /\ answer'.byUnit = best /\ answer'.partial = Partial(saw)
<1>1. PICK r : answer' = [ready |-> TRUE, partial |-> Partial(saw), ranked |-> r, byUnit |-> best]
  BY Zenon DEF Answer
<1> QED
  BY <1>1

LEMMA InitPlaces == Init => Places
<1> SUFFICES ASSUME Init PROVE Places
  OBVIOUS
<1>1. task \in [kind : {"risk", "intercept"}, jobs : Seq(Candidate)]
  BY TaskAssumption DEF Init
<1>2. Len(Jobs) \in Nat
  BY <1>1 DEF Jobs
<1>3. next \in 1..Len(Jobs) + 1
  BY <1>2 DEF Init
<1>4. in \in Seq(JobNumbers) /\ collected \in Seq(JobNumbers)
  BY DEF Init
<1>5. worker \in [Worker -> {Idle, Done} \cup {Holding(j) : j \in JobNumbers}]
  BY DEF Init
<1>6. answer.ready = FALSE
  BY DEF Init, NoAnswer
<1> QED
  BY <1>1, <1>3, <1>4, <1>5, <1>6 DEF Init, Places

LEMMA StepPlaces == Places /\ [Next]_vars => Places'
<1> SUFFICES ASSUME Places, [Next]_vars PROVE Places'
  OBVIOUS
<1>0. Len(Jobs) \in Nat /\ task' = task /\ Jobs' = Jobs /\ JobNumbers' = JobNumbers
  BY JobsAreCandidates DEF Next, vars, Timeout, Dispatcher, Dispatch, DispatcherEnds, Work,
     Take, WorkerEnds, Collect, WorkerCancelled, CloseOut, Aggregator, SeesClose, SeesTimeout,
     Answer, Jobs, JobNumbers
<1>1. CASE Timeout
  BY <1>0, <1>1 DEF Timeout, Places
<1>2. CASE Dispatch
  <2>1. next \in JobNumbers /\ next + 1 \in 1..Len(Jobs) + 1
    BY <1>0, <1>2 DEF Dispatch, Places, JobNumbers
  <2>2. Append(in, next) \in Seq(JobNumbers)
    BY <2>1 DEF Places
  <2> QED
    BY <1>0, <1>2, <2>1, <2>2 DEF Dispatch, Places
<1>3. CASE DispatcherEnds
  BY <1>0, <1>3 DEF DispatcherEnds, Places
<1>4. ASSUME NEW w \in Worker, Take(w) PROVE Places'
  <2>1. Head(in) \in JobNumbers /\ Tail(in) \in Seq(JobNumbers)
    BY <1>4 DEF Take, Places
  <2> QED
    BY <1>0, <1>4, <2>1 DEF Take, Places
<1>5. ASSUME NEW w \in Worker, WorkerEnds(w) \/ WorkerCancelled(w) PROVE Places'
  BY <1>0, <1>5 DEF WorkerEnds, WorkerCancelled, Places
<1>6. ASSUME NEW w \in Worker, Collect(w) PROVE Places'
  <2>1. worker[w].job \in JobNumbers
    BY <1>6, WorkerStates DEF Collect
  <2>2. Append(collected, worker[w].job) \in Seq(JobNumbers)
    BY <2>1 DEF Places
  <2> QED
    BY <1>0, <1>6, <2>2 DEF Collect, Places
<1>7. CASE CloseOut
  BY <1>0, <1>7 DEF CloseOut, Places
<1>8. CASE Aggregator
  <2>1. answer'.ready = TRUE
    BY <1>8, AnswerIsReady DEF Aggregator, SeesClose, SeesTimeout
  <2> QED
    BY <1>0, <1>8, <2>1 DEF Aggregator, SeesClose, SeesTimeout, Answer, Places
<1>9. CASE UNCHANGED vars
  BY <1>0, <1>9 DEF vars, Places
<1> QED
  BY <1>1, <1>2, <1>3, <1>4, <1>5, <1>6, <1>7, <1>8, <1>9 DEF Next, Dispatcher, Work

-----------------------------------------------------------------------------
(* Every candidate is in one place *)

LEMMA AppendPlaces ==
  ASSUME NEW S, NEW s \in Seq(S), NEW x \in S
  PROVE  /\ DOMAIN Append(s, x) = DOMAIN s \cup {Len(s) + 1} /\ Len(s) + 1 \notin DOMAIN s
         /\ \A k \in DOMAIN s : Append(s, x)[k] = s[k]
         /\ Append(s, x)[Len(s) + 1] = x
<1>1. Len(s) \in Nat /\ DOMAIN s = 1..Len(s) /\ DOMAIN Append(s, x) = 1..Len(s) + 1
  OBVIOUS
<1> QED
  BY <1>1

LEMMA TailPlaces ==
  ASSUME NEW S, NEW s \in Seq(S), s # <<>>
  PROVE  /\ 1 \in DOMAIN s /\ s[1] = Head(s)
         /\ \A k \in DOMAIN Tail(s) : k + 1 \in DOMAIN s /\ Tail(s)[k] = s[k + 1] /\ k + 1 # 1
         /\ \A k \in DOMAIN s : k # 1 => k - 1 \in DOMAIN Tail(s) /\ Tail(s)[k - 1] = s[k]
         /\ DOMAIN s \subseteq Int /\ DOMAIN Tail(s) \subseteq Int
<1>1. Len(s) \in Nat /\ Len(s) > 0 /\ DOMAIN s = 1..Len(s)
  OBVIOUS
<1>2. /\ Len(Tail(s)) = Len(s) - 1 /\ DOMAIN Tail(s) = 1..Len(s) - 1 /\ Head(s) = s[1]
      /\ \A k \in 1..Len(s) - 1 : Tail(s)[k] = s[k + 1]
  BY <1>1
<1>3. \A k \in DOMAIN s : k # 1 => k - 1 \in 1..Len(s) - 1 /\ (k - 1) + 1 = k
  BY <1>1
<1> QED
  BY <1>1, <1>2, <1>3

LEMMA DispatchKeepsHeld ==
  ASSUME Places, HeldOnce, Dispatch
  PROVE  HeldOnce'
<1>1. next \in JobNumbers /\ in' = Append(in, next) /\ next' = next + 1 /\ next \in Nat
  BY JobsAreCandidates DEF Dispatch, Places, JobNumbers
<1>2. worker' = worker /\ collected' = collected /\ expired' = expired /\ answer' = answer
      /\ JobNumbers' = JobNumbers
  BY DEF Dispatch, JobNumbers, Jobs
<1>3. \A j : InChannel(j)' <=> InChannel(j) \/ j = next
  BY <1>1, AppendPlaces DEF Places, InChannel
<1>4. \A j : (Arrived(j)' <=> Arrived(j)) /\ \A w : InHand(w, j)' <=> InHand(w, j)
  BY <1>2 DEF Arrived, InHand
<1>5. ~InChannel(next) /\ ~Arrived(next) /\ \A w \in Worker : ~InHand(w, next)
  BY <1>1 DEF HeldOnce
<1>6. \A k, l \in DOMAIN in' : in'[k] = in'[l] => k = l
  BY <1>1, <1>5, AppendPlaces DEF Places, HeldOnce, InChannel
<1>7. \A k, l \in DOMAIN collected' : collected'[k] = collected'[l] => k = l
  BY <1>2 DEF HeldOnce
<1>8. \A v, w \in Worker : \A j \in JobNumbers' : InHand(v, j)' /\ InHand(w, j)' => v = w
  BY <1>2, <1>4 DEF HeldOnce
<1>9. ASSUME NEW j \in JobNumbers
      PROVE  /\ InChannel(j)' \/ (\E w \in Worker : InHand(w, j)') \/ Arrived(j)' => j < next'
             /\ ~(InChannel(j)' /\ Arrived(j)')
             /\ \A w \in Worker : InHand(w, j)' => ~InChannel(j)' /\ ~Arrived(j)'
             /\ j < next' /\ ~CtxDone' =>
                  InChannel(j)' \/ Arrived(j)' \/ \E w \in Worker : InHand(w, j)'
  <2>1. j \in Nat /\ (CtxDone' <=> CtxDone)
    BY <1>2 DEF JobNumbers, CtxDone
  <2>2. j < next' <=> j < next \/ j = next
    BY <1>1, <2>1
  <2> QED
    BY <1>3, <1>4, <1>5, <2>1, <2>2 DEF HeldOnce
<1> QED
  BY <1>2, <1>6, <1>7, <1>8, <1>9 DEF HeldOnce

LEMMA TakeKeepsHeld ==
  ASSUME Places, HeldOnce, NEW w \in Worker, Take(w)
  PROVE  HeldOnce'
<1>1. PICK h : h = Head(in)
  OBVIOUS
<1>2. in # <<>> /\ in' = Tail(in) /\ h \in JobNumbers /\ InChannel(h)
  BY <1>1, TailPlaces DEF Take, Places, InChannel
<1>3. next' = next /\ collected' = collected /\ expired' = expired /\ answer' = answer
      /\ JobNumbers' = JobNumbers /\ (CtxDone' <=> CtxDone)
  BY DEF Take, JobNumbers, Jobs, CtxDone
<1>4. \A j : InChannel(j)' => InChannel(j) /\ j # h
  BY <1>1, <1>2, TailPlaces DEF Places, InChannel, HeldOnce
<1>5. \A j : InChannel(j) /\ j # h => InChannel(j)'
  <2> SUFFICES ASSUME NEW j, NEW k \in DOMAIN in, in[k] = j, j # h PROVE InChannel(j)'
    BY DEF InChannel
  <2>1. k # 1
    BY <1>1, <1>2, TailPlaces DEF Places
  <2>2. k - 1 \in DOMAIN in' /\ in'[k - 1] = j
    BY <1>2, <2>1, TailPlaces DEF Places
  <2> QED
    BY <2>2 DEF InChannel
<1>6. \A j : Arrived(j)' <=> Arrived(j)
  BY <1>3 DEF Arrived
<1>7. \A v \in Worker : v # w => \A j : InHand(v, j)' <=> InHand(v, j)
  BY DEF Take, Places, InHand
<1>8. \A j \in JobNumbers : ~InHand(w, j) /\ (InHand(w, j)' <=> j = h)
  <2>1. worker[w] = Idle /\ worker'[w] = Holding(h)
    BY <1>1 DEF Take, Places
  <2> QED
    BY <1>2, <2>1, WorkerStates DEF InHand
<1>9. \A k, l \in DOMAIN in' : in'[k] = in'[l] => k = l
  <2> SUFFICES ASSUME NEW k \in DOMAIN in', NEW l \in DOMAIN in', in'[k] = in'[l] PROVE k = l
    OBVIOUS
  <2>1. k + 1 = l + 1 /\ k \in Int /\ l \in Int
    BY <1>2, TailPlaces DEF Places, HeldOnce
  <2> QED
    BY <2>1
<1>10. \A k, l \in DOMAIN collected' : collected'[k] = collected'[l] => k = l
  BY <1>3 DEF HeldOnce
<1>11. \A v, u \in Worker : \A j \in JobNumbers' : InHand(v, j)' /\ InHand(u, j)' => v = u
  BY <1>2, <1>3, <1>7, <1>8 DEF HeldOnce
<1>12. ASSUME NEW j \in JobNumbers
      PROVE  /\ InChannel(j)' \/ (\E v \in Worker : InHand(v, j)') \/ Arrived(j)' => j < next'
             /\ ~(InChannel(j)' /\ Arrived(j)')
             /\ \A v \in Worker : InHand(v, j)' => ~InChannel(j)' /\ ~Arrived(j)'
             /\ j < next' /\ ~CtxDone' =>
                  InChannel(j)' \/ Arrived(j)' \/ \E v \in Worker : InHand(v, j)'
  <2>1. CASE j = h
    BY <1>2, <1>3, <1>4, <1>6, <1>7, <1>8, <2>1 DEF HeldOnce
  <2>2. CASE j # h
    BY <1>3, <1>4, <1>5, <1>6, <1>7, <1>8, <2>2 DEF HeldOnce
  <2> QED
    BY <2>1, <2>2
<1> QED
  BY <1>3, <1>9, <1>10, <1>11, <1>12 DEF HeldOnce

LEMMA CollectKeepsHeld ==
  ASSUME Places, HeldOnce, NEW w \in Worker, Collect(w)
  PROVE  HeldOnce'
<1>1. PICK h : h = worker[w].job
  OBVIOUS
<1>2. h \in JobNumbers /\ InHand(w, h) /\ collected' = Append(collected, h)
  BY <1>1, WorkerStates DEF Collect, InHand
<1>3. next' = next /\ in' = in /\ expired' = expired /\ answer' = answer
      /\ JobNumbers' = JobNumbers /\ (CtxDone' <=> CtxDone)
  BY DEF Collect, JobNumbers, Jobs, CtxDone
<1>4. \A j : InChannel(j)' <=> InChannel(j)
  BY <1>3 DEF InChannel
<1>5. \A j : Arrived(j)' <=> Arrived(j) \/ j = h
  BY <1>2, AppendPlaces DEF Places, Arrived
<1>6. \A v \in Worker : v # w => \A j : InHand(v, j)' <=> InHand(v, j)
  BY DEF Collect, Places, InHand
<1>7. \A j \in JobNumbers : ~InHand(w, j)' /\ (InHand(w, j) <=> j = h)
  <2>1. worker'[w] = Idle /\ worker[w] = Holding(h)
    BY <1>2 DEF Collect, Places, InHand
  <2> QED
    BY <1>2, <2>1, WorkerStates DEF InHand
<1>8. \A k, l \in DOMAIN in' : in'[k] = in'[l] => k = l
  BY <1>3 DEF HeldOnce
<1>9. \A k, l \in DOMAIN collected' : collected'[k] = collected'[l] => k = l
  <2>1. ~Arrived(h)
    BY <1>2 DEF HeldOnce
  <2> QED
    BY <1>2, <2>1, AppendPlaces DEF Places, HeldOnce, Arrived
<1>10. \A v, u \in Worker : \A j \in JobNumbers' : InHand(v, j)' /\ InHand(u, j)' => v = u
  BY <1>2, <1>3, <1>6, <1>7 DEF HeldOnce
<1>11. ASSUME NEW j \in JobNumbers
      PROVE  /\ InChannel(j)' \/ (\E v \in Worker : InHand(v, j)') \/ Arrived(j)' => j < next'
             /\ ~(InChannel(j)' /\ Arrived(j)')
             /\ \A v \in Worker : InHand(v, j)' => ~InChannel(j)' /\ ~Arrived(j)'
             /\ j < next' /\ ~CtxDone' =>
                  InChannel(j)' \/ Arrived(j)' \/ \E v \in Worker : InHand(v, j)'
  <2>1. CASE j = h
    BY <1>2, <1>3, <1>4, <1>5, <1>6, <1>7, <2>1 DEF HeldOnce
  <2>2. CASE j # h
    BY <1>3, <1>4, <1>5, <1>6, <1>7, <2>2 DEF HeldOnce
  <2> QED
    BY <2>1, <2>2
<1> QED
  BY <1>3, <1>8, <1>9, <1>10, <1>11 DEF HeldOnce

LEMMA InitHeld == Init => HeldOnce
<1> SUFFICES ASSUME Init PROVE HeldOnce
  OBVIOUS
<1>1. in = <<>> /\ collected = <<>> /\ next = 1 /\ worker = [w \in Worker |-> Idle]
  BY DEF Init
<1>2. \A j \in JobNumbers : j \in Nat /\ ~(j < next)
  BY <1>1 DEF JobNumbers
<1>3. \A j : ~InChannel(j) /\ ~Arrived(j)
  BY <1>1 DEF InChannel, Arrived
<1>4. \A w \in Worker : \A j \in JobNumbers : ~InHand(w, j)
  BY <1>1, WorkerStates, InitPlaces DEF InHand
<1> QED
  BY <1>1, <1>2, <1>3, <1>4 DEF HeldOnce

\* A step that moves no candidate, and after which no worker holds one it did
\* not hold, keeps HeldOnce, if the context was or is done or no worker lets go.
LEMMA OtherStepsKeepHeld ==
  ASSUME HeldOnce, UNCHANGED <<in, collected, next, task>>, CtxDone => CtxDone',
         \A w \in Worker : \A j \in JobNumbers : InHand(w, j)' => InHand(w, j),
         \/ CtxDone'
         \/ \A w \in Worker : \A j \in JobNumbers : InHand(w, j) => InHand(w, j)'
  PROVE  HeldOnce'
<1>1. JobNumbers' = JobNumbers
  BY DEF JobNumbers, Jobs
<1>2. \A j : (InChannel(j)' <=> InChannel(j)) /\ (Arrived(j)' <=> Arrived(j))
  BY DEF InChannel, Arrived
<1> QED
  BY <1>1, <1>2 DEF HeldOnce

LEMMA StepHeld == Places /\ HeldOnce /\ [Next]_vars => HeldOnce'
<1> SUFFICES ASSUME Places, HeldOnce, [Next]_vars PROVE HeldOnce'
  OBVIOUS
<1>1. CASE Dispatch
  BY <1>1, DispatchKeepsHeld
<1>2. ASSUME NEW w \in Worker, Take(w) PROVE HeldOnce'
  BY <1>2, TakeKeepsHeld
<1>3. ASSUME NEW w \in Worker, Collect(w) PROVE HeldOnce'
  BY <1>3, CollectKeepsHeld
<1>4. CASE Timeout \/ DispatcherEnds \/ CloseOut \/ UNCHANGED vars
  <2>1. /\ UNCHANGED <<in, collected, next, task, worker>>
        /\ UNCHANGED <<expired, answer>> \/ expired'
    BY <1>4 DEF Timeout, DispatcherEnds, CloseOut, vars
  <2>2. \A w, j : InHand(w, j)' <=> InHand(w, j)
    BY <2>1 DEF InHand
  <2> QED
    BY <2>1, <2>2, OtherStepsKeepHeld DEF CtxDone
<1>5. CASE Aggregator
  <2>1. UNCHANGED <<in, collected, next, task, worker>>
    BY <1>5 DEF Aggregator, SeesClose, SeesTimeout, Answer
  <2>2. \A w, j : InHand(w, j)' <=> InHand(w, j)
    BY <2>1 DEF InHand
  <2>3. answer'.ready
    BY <1>5, AnswerIsReady DEF Aggregator, SeesClose, SeesTimeout
  <2> QED
    BY <2>1, <2>2, <2>3, OtherStepsKeepHeld DEF CtxDone
<1>6. ASSUME NEW w \in Worker, WorkerEnds(w) \/ WorkerCancelled(w) PROVE HeldOnce'
  <2>1. UNCHANGED <<in, collected, next, task, expired, answer>>
    BY <1>6 DEF WorkerEnds, WorkerCancelled
  <2>2. /\ worker'[w] = Done /\ \A v \in Worker : v # w => worker'[v] = worker[v]
        /\ worker[w] = Idle \/ CtxDone
    BY <1>6 DEF WorkerEnds, WorkerCancelled, Places
  <2>3. \A v \in Worker : \A j \in JobNumbers : InHand(v, j)' => InHand(v, j) /\ v # w
    BY <2>2, WorkerStates DEF InHand
  <2>4. \A v \in Worker : \A j \in JobNumbers : v # w /\ InHand(v, j) => InHand(v, j)'
    BY <2>2 DEF InHand
  <2>5. CtxDone \/ \A j \in JobNumbers : ~InHand(w, j)
    BY <2>2, WorkerStates DEF InHand
  <2>6. CtxDone' <=> CtxDone
    BY <2>1 DEF CtxDone
  <2> QED
    BY <2>1, <2>3, <2>4, <2>5, <2>6, OtherStepsKeepHeld
<1> QED
  BY <1>1, <1>2, <1>3, <1>4, <1>5, <1>6 DEF Next, Dispatcher, Work

\* However many workers there are and wherever the timeout strikes, no candidate
\* is scored twice, and none is lost while there is time (RunRouteRisk and
\* RunIntercept: dispatcher, workers and aggregator).
THEOREM NoCandidateIsLost == Spec => []HeldOnce
<1>1. Init => Places /\ HeldOnce
  BY InitPlaces, InitHeld
<1>2. Places /\ HeldOnce /\ [Next]_vars => (Places /\ HeldOnce)'
  BY StepPlaces, StepHeld
<1> QED
  BY <1>1, <1>2, PTL DEF Spec

-----------------------------------------------------------------------------
(* The end of a call *)

AllArrived == \A j \in JobNumbers : Arrived(j)

\* `in` is closed after the last candidate, workers end when it is empty, `out`
\* is closed after the last worker: unless the context was done, in which case
\* anything may be missing.
Ending ==
  /\ CtxDone \/ dispatching \/ next > Len(Jobs)
  /\ CtxDone \/ (~dispatching /\ in = <<>>) \/ \A w \in Worker : worker[w] # Done
  /\ outClosed => \A w \in Worker : worker[w] = Done
  /\ answer.ready => expired \/ AllArrived

\* When `out` is closed in time, every score has arrived.
LEMMA ClosedMeansAll ==
  ASSUME Places, HeldOnce, Ending, outClosed, ~CtxDone
  PROVE  AllArrived
<1>1. PICK w \in Worker : worker[w] = Done
  BY WorkerAssumption DEF Ending
<1>2. next > Len(Jobs) /\ in = <<>>
  BY <1>1 DEF Ending
<1>3. ASSUME NEW j \in JobNumbers PROVE Arrived(j)
  <2>1. j < next
    BY <1>2, JobsAreCandidates DEF JobNumbers, Places
  <2>2. ~InChannel(j)
    BY <1>2 DEF InChannel
  <2>3. \A v \in Worker : ~InHand(v, j)
    BY WorkerStates DEF Ending, InHand
  <2> QED
    BY <2>1, <2>2, <2>3 DEF HeldOnce
<1> QED
  BY <1>3 DEF AllArrived

LEMMA StepEnding == Places /\ HeldOnce /\ Ending /\ [Next]_vars => Ending'
<1> SUFFICES ASSUME Places, HeldOnce, Ending, [Next]_vars PROVE Ending'
  OBVIOUS
<1>1. Len(Jobs) \in Nat /\ next \in Nat
  BY JobsAreCandidates DEF Places
<1>2. CASE Aggregator
  <2>1. answer'.ready /\ ~answer.ready /\ (expired \/ (outClosed /\ ~CtxDone))
    BY <1>2, AnswerIsReady DEF Aggregator, SeesClose, SeesTimeout, Answer, CtxDone
  <2>2. UNCHANGED <<task, expired, outClosed, worker, collected>>
    BY <1>2 DEF Aggregator, SeesClose, SeesTimeout, Answer
  <2>3. expired \/ AllArrived
    BY <2>1, ClosedMeansAll
  <2>4. AllArrived => AllArrived'
    BY <2>2 DEF AllArrived, Arrived, JobNumbers, Jobs
  <2> QED
    BY <2>1, <2>2, <2>3, <2>4 DEF Ending, CtxDone
<1>3. CASE Timeout
  <2>1. expired' /\ ~answer.ready /\ UNCHANGED <<outClosed, worker, answer>>
    BY <1>3 DEF Timeout, CtxDone
  <2> QED
    BY <2>1 DEF Ending, CtxDone
<1>4. CASE Dispatch
  <2>1. dispatching /\ dispatching' /\ UNCHANGED <<task, expired, outClosed, worker, answer, collected>>
    BY <1>4 DEF Dispatch
  <2> QED
    BY <2>1 DEF Ending, CtxDone, AllArrived, Arrived, JobNumbers, Jobs
<1>5. CASE DispatcherEnds
  BY <1>5 DEF DispatcherEnds, Ending, CtxDone, AllArrived, Arrived, JobNumbers, Jobs
<1>6. ASSUME NEW w \in Worker, Take(w) \/ Collect(w) PROVE Ending'
  <2>1. UNCHANGED <<task, expired, dispatching, next, outClosed, answer>>
    BY <1>6 DEF Take, Collect
  <2>2. worker[w] # Done
    BY <1>6, WorkerStates DEF Take, Collect, Done
  <2>3. worker'[w] # Done /\ \A v \in Worker : v # w => worker'[v] = worker[v]
    <3>1. CASE Collect(w)
      BY <3>1, WorkerStates DEF Collect, Places
    <3>2. CASE Take(w)
      <4>1. Head(in) \in JobNumbers /\ worker'[w] = Holding(Head(in))
        BY <3>2 DEF Take, Places
      <4> QED
        BY <3>2, <4>1, WorkerStates DEF Take, Places
    <3> QED
      BY <1>6, <3>1, <3>2
  <2>4. ~outClosed
    BY <2>2 DEF Ending
  <2>5. in = <<>> => in' = <<>>
    BY <1>6 DEF Take, Collect
  <2>6. answer.ready => UNCHANGED collected
    BY <1>6 DEF Take, Collect
  <2>7. answer.ready => (AllArrived => AllArrived')
    BY <2>1, <2>6 DEF AllArrived, Arrived, JobNumbers, Jobs
  <2> QED
    BY <2>1, <2>2, <2>3, <2>4, <2>5, <2>7 DEF Ending, CtxDone, Jobs
<1>7. ASSUME NEW w \in Worker, WorkerEnds(w) \/ WorkerCancelled(w) PROVE Ending'
  <2>1. UNCHANGED <<task, expired, dispatching, next, in, outClosed, answer, collected>>
    BY <1>7 DEF WorkerEnds, WorkerCancelled
  <2>2. /\ worker' = [worker EXCEPT ![w] = Done]
        /\ CtxDone \/ (~dispatching /\ in = <<>>)
    BY <1>7 DEF WorkerEnds, WorkerCancelled
  <2>3. \A v \in Worker : worker'[v] = Done \/ worker'[v] = worker[v]
    BY <2>2 DEF Places
  <2> QED
    BY <2>1, <2>2, <2>3 DEF Ending, CtxDone, AllArrived, Arrived, JobNumbers, Jobs
<1>8. CASE CloseOut \/ UNCHANGED vars
  BY <1>8 DEF CloseOut, vars, Ending, CtxDone, AllArrived, Arrived, JobNumbers, Jobs
<1> QED
  BY <1>2, <1>3, <1>4, <1>5, <1>6, <1>7, <1>8 DEF Next, Dispatcher, Work

LEMMA InitEnding == Init => Ending
<1> SUFFICES ASSUME Init PROVE Ending
  OBVIOUS
<1>1. dispatching /\ ~outClosed /\ ~answer.ready /\ \A w \in Worker : worker[w] = Idle
  BY DEF Init, NoAnswer
<1> QED
  BY <1>1, InitPlaces, WorkerStates DEF Ending

\* The invariant of a call, and the first theorem's proof once more for all of it.
CallInv == Places /\ HeldOnce /\ Ending

LEMMA CallInvHolds == Spec => []CallInv
<1>1. Init => CallInv
  BY InitPlaces, InitHeld, InitEnding DEF CallInv
<1>2. CallInv /\ [Next]_vars => CallInv'
  BY StepPlaces, StepHeld, StepEnding DEF CallInv
<1> QED
  BY <1>1, <1>2, PTL DEF Spec

LEMMA RangeOfCollected ==
  ASSUME Places
  PROVE  /\ \A j : j \in Range(collected) <=> Arrived(j)
         /\ Range(collected) \subseteq JobNumbers
BY DEF Range, Arrived, Places

LEMMA InitIsSurvey == Init => Gathering!Init
<1> SUFFICES ASSUME Init PROVE Gathering!Init
  OBVIOUS
<1>1. Len(Jobs) \in {Len(t.jobs) : t \in Task}
  BY DEF Init, Jobs
<1>2. Range(collected) = {}
  BY DEF Init, Range
<1> QED
  BY <1>1, <1>2 DEF Init, NoAnswer, Gathering!Init

LEMMA StepIsSurvey == CallInv /\ [Next]_vars => [Gathering!Next]_(Gathering!vars)
<1> SUFFICES ASSUME CallInv, [Next]_vars PROVE [Gathering!Next]_(Gathering!vars)
  OBVIOUS
<1> USE DEF CallInv
<1>1. CASE Timeout
  <2>1. ~answer.ready /\ expired' = TRUE /\ UNCHANGED <<task, collected, answer>>
    BY <1>1 DEF Timeout, CtxDone
  <2> QED
    BY <2>1 DEF Gathering!Next, Gathering!Expire, Jobs
<1>2. ASSUME NEW w \in Worker, Collect(w) PROVE \E j \in JobNumbers : Gathering!Gather(j)
  <2>1. PICK h \in JobNumbers : InHand(w, h) /\ collected' = Append(collected, h)
    BY <1>2, WorkerStates DEF Collect, InHand
  <2>2. ~Arrived(h) /\ UNCHANGED <<task, expired, answer>> /\ ~answer.ready
    BY <1>2, <2>1 DEF Collect, HeldOnce
  <2>3. Range(collected') = Range(collected) \cup {h}
    BY <2>1, AppendPlaces DEF Range, Places
  <2> QED
    BY <2>1, <2>2, <2>3, RangeOfCollected DEF Gathering!Gather, JobNumbers, Jobs
<1>3. CASE Aggregator
  <2>1. /\ ~answer.ready /\ answer'.ready = TRUE /\ UNCHANGED <<task, expired, collected>>
        /\ expired \/ (outClosed /\ ~CtxDone)
    BY <1>3, AnswerIsReady DEF Aggregator, SeesClose, SeesTimeout, Answer, CtxDone
  <2>2. expired \/ Range(collected) = JobNumbers
    BY <2>1, ClosedMeansAll, RangeOfCollected DEF AllArrived
  <2> QED
    BY <2>1, <2>2 DEF Gathering!Next, Gathering!Answer, JobNumbers, Jobs
<1>4. CASE DispatcherEnds \/ Dispatch \/ CloseOut \/ UNCHANGED vars
  <2>1. UNCHANGED <<task, collected, expired, answer>>
    BY <1>4 DEF DispatcherEnds, Dispatch, CloseOut, vars
  <2> QED
    BY <2>1 DEF Gathering!vars, Jobs
<1>5. ASSUME NEW w \in Worker, Take(w) \/ WorkerEnds(w) \/ WorkerCancelled(w)
      PROVE  UNCHANGED Gathering!vars
  <2>1. UNCHANGED <<task, collected, expired, answer>>
    BY <1>5 DEF Take, WorkerEnds, WorkerCancelled
  <2> QED
    BY <2>1 DEF Gathering!vars, Jobs
<1> QED
  BY <1>1, <1>2, <1>3, <1>4, <1>5
     DEF Next, Dispatcher, Work, Gathering!Next, JobNumbers

\* The goroutines, the channels and the timeout together implement Survey: an
\* answer given in time is one over all candidates (routerisk.go:71, intercept.go:51).
THEOREM PipelineImplementsSurvey == Spec => SurveySpec
<1>1. Init => Gathering!Init
  BY InitIsSurvey
<1>2. CallInv /\ [Next]_vars => [Gathering!Next]_(Gathering!vars)
  BY StepIsSurvey
<1> QED
  BY <1>1, <1>2, CallInvHolds, PTL DEF Spec, SurveySpec, Gathering!Spec

-----------------------------------------------------------------------------
(* The plan *)

LEMMA BelowIsTransitive ==
  ASSUME NEW x \in [num : Int, den : Nat \ {0}], NEW y \in [num : Int, den : Nat \ {0}],
         NEW z \in [num : Int, den : Nat \ {0}], ~Below(x, z), Below(x, y)
  PROVE  ~Below(y, z)
<1>1. PICK a \in Int, b \in Nat \ {0} : a = x.num /\ b = x.den
  OBVIOUS
<1>2. PICK c \in Int, d \in Nat \ {0} : c = y.num /\ d = y.den
  OBVIOUS
<1>3. PICK e \in Int, f \in Nat \ {0} : e = z.num /\ f = z.den
  OBVIOUS
<1>4. a * f >= e * b /\ a * d < c * b
  BY <1>1, <1>2, <1>3 DEF Below
<1>5. c * f >= e * d
  <2>1. (a * f) * d >= (e * b) * d /\ (a * d) * f < (c * b) * f
    BY <1>4
  <2>2. (e * d) * b < (c * f) * b
    BY <2>1
  <2> QED
    BY <2>2
<1> QED
  BY <1>2, <1>3, <1>5 DEF Below

\* Of each unit the plan has one entry, not below any of its scores that arrived.
BestSoFar ==
  /\ best \subseteq Candidate
  /\ answer.ready => answer.byUnit = best
  /\ task.kind = "intercept" =>
       /\ \A e, f \in best : e.id = f.id => e = f
       /\ \A j \in JobNumbers : Arrived(j) =>
            \E e \in best : e.id = Jobs[j].id /\ ~Below(e.score, Jobs[j].score)

LEMMA KeepKeepsTheBest ==
  ASSUME NEW B \in SUBSET Candidate, NEW x \in Candidate, NEW c \in Candidate,
         \A e, f \in B : e.id = f.id => e = f
  PROVE  /\ Keep(B, x) \in SUBSET Candidate
         /\ \A e, f \in Keep(B, x) : e.id = f.id => e = f
         /\ \E e \in Keep(B, x) : e.id = x.id /\ ~Below(e.score, x.score)
         /\ (\E e \in B : e.id = c.id /\ ~Below(e.score, c.score)) =>
              \E e \in Keep(B, x) : e.id = c.id /\ ~Below(e.score, c.score)
<1>1. \A e \in Candidate : e.score \in [num : Int, den : Nat \ {0}]
  BY CandidateAssumption
<1>2. CASE \E cur \in B : cur.id = x.id /\ ~Below(cur.score, x.score)
  BY <1>2 DEF Keep
<1>3. CASE ~\E cur \in B : cur.id = x.id /\ ~Below(cur.score, x.score)
  <2>1. Keep(B, x) = {f \in B : f.id # x.id} \cup {x}
    BY <1>3 DEF Keep
  <2>2. ~Below(x.score, x.score)
    BY <1>1 DEF Below
  <2>3. ASSUME NEW e \in B, e.id = c.id, ~Below(e.score, c.score)
        PROVE  \E f \in Keep(B, x) : f.id = c.id /\ ~Below(f.score, c.score)
    <3>1. CASE e.id # x.id
      BY <2>1, <2>3, <3>1
    <3>2. CASE e.id = x.id
      <4>1. Below(e.score, x.score)
        BY <1>3, <3>2
      <4>2. ~Below(x.score, c.score)
        BY <1>1, <2>3, <4>1, BelowIsTransitive
      <4> QED
        BY <2>1, <2>3, <3>2, <4>2
    <3> QED
      BY <3>1, <3>2
  <2> QED
    BY <2>1, <2>2, <2>3
<1> QED
  BY <1>2, <1>3

LEMMA StepBest == CallInv /\ BestSoFar /\ [Next]_vars => BestSoFar'
<1> SUFFICES ASSUME CallInv, BestSoFar, [Next]_vars PROVE BestSoFar'
  OBVIOUS
<1> USE DEF CallInv
<1>1. ASSUME NEW w \in Worker, Collect(w) PROVE BestSoFar'
  <2>1. PICK h \in JobNumbers : h = worker[w].job /\ collected' = Append(collected, h)
    BY <1>1, WorkerStates DEF Collect
  <2>2. /\ UNCHANGED <<task, answer>> /\ ~answer.ready
        /\ best' = IF task.kind = "intercept" THEN Keep(best, Jobs[h]) ELSE best
        /\ Jobs' = Jobs /\ JobNumbers' = JobNumbers
    BY <1>1, <2>1 DEF Collect, Jobs, JobNumbers
  <2>3. \A j : Arrived(j)' <=> Arrived(j) \/ j = h
    BY <2>1, AppendPlaces DEF Places, Arrived
  <2>4. \A j \in JobNumbers : Jobs[j] \in Candidate
    BY JobsAreCandidates
  <2>5. CASE task.kind = "intercept"
    <3>1. \A e, f \in best : e.id = f.id => e = f
      BY <2>5 DEF BestSoFar
    <3>2. best \in SUBSET Candidate /\ best' = Keep(best, Jobs[h])
      BY <2>2, <2>5 DEF BestSoFar
    <3>3. best' \subseteq Candidate /\ \A e, f \in best' : e.id = f.id => e = f
      BY <2>4, <3>1, <3>2, KeepKeepsTheBest
    <3>4. ASSUME NEW j \in JobNumbers, Arrived(j) \/ j = h
          PROVE  \E e \in best' : e.id = Jobs[j].id /\ ~Below(e.score, Jobs[j].score)
      <4>1. CASE j = h
        BY <2>4, <3>1, <3>2, <4>1, KeepKeepsTheBest
      <4>2. CASE Arrived(j)
        <5>1. \E e \in best : e.id = Jobs[j].id /\ ~Below(e.score, Jobs[j].score)
          BY <2>5, <4>2 DEF BestSoFar
        <5> QED
          BY <2>4, <3>1, <3>2, <5>1, KeepKeepsTheBest
      <4> QED
        BY <3>4, <4>1, <4>2
    <3> QED
      BY <2>2, <2>3, <3>3, <3>4 DEF BestSoFar
  <2>6. CASE task.kind # "intercept"
    BY <2>2, <2>6 DEF BestSoFar
  <2> QED
    BY <2>5, <2>6
<1>2. CASE Aggregator
  <2>1. answer'.byUnit = best /\ UNCHANGED <<task, best, collected>>
    BY <1>2, AnswerIsReady DEF Aggregator, SeesClose, SeesTimeout, Answer
  <2> QED
    BY <2>1 DEF BestSoFar, Arrived, JobNumbers, Jobs
<1>3. CASE Timeout \/ DispatcherEnds \/ Dispatch \/ CloseOut \/ UNCHANGED vars
  <2>1. UNCHANGED <<task, best, collected, answer>>
    BY <1>3 DEF Timeout, DispatcherEnds, Dispatch, CloseOut, vars
  <2> QED
    BY <2>1 DEF BestSoFar, Arrived, JobNumbers, Jobs
<1>4. ASSUME NEW w \in Worker, Take(w) \/ WorkerEnds(w) \/ WorkerCancelled(w)
      PROVE  BestSoFar'
  <2>1. UNCHANGED <<task, best, collected, answer>>
    BY <1>4 DEF Take, WorkerEnds, WorkerCancelled
  <2> QED
    BY <2>1 DEF BestSoFar, Arrived, JobNumbers, Jobs
<1> QED
  BY <1>1, <1>2, <1>3, <1>4 DEF Next, Dispatcher, Work

\* Whatever the order in which scores arrive, the plan has one entry of a unit,
\* which no score of the unit exceeds that arrived, or in a call that was in time
\* any at all (intercept.go:97).
THEOREM PlanIsBest == Spec => []BestOfAll
<1>1. Init => BestSoFar
  <2>1. Init => best = {} /\ ~answer.ready /\ collected = <<>>
    BY DEF Init, NoAnswer
  <2> QED
    BY <2>1 DEF BestSoFar, Arrived
<1>2. CallInv /\ BestSoFar /\ [Next]_vars => BestSoFar'
  BY StepBest
<1>3. CallInv /\ BestSoFar => BestOfAll
  BY DEF CallInv, Ending, AllArrived, BestSoFar, BestOfAll
<1> QED
  BY <1>1, <1>2, <1>3, CallInvHolds, PTL DEF Spec

-----------------------------------------------------------------------------
(* The ranking *)

\* In a total order on 1..n the number of elements up to k is k's place: places
\* are one to one onto 1..n, and they are in order.
LEMMA PlacesInOrder ==
  ASSUME NEW n \in Nat, NEW R,
         \A j, k \in 1..n : <<j, k>> \in R \/ <<k, j>> \in R,
         \A j, k \in 1..n : <<j, k>> \in R /\ <<k, j>> \in R => j = k,
         \A i, j, k \in 1..n : <<i, j>> \in R /\ <<j, k>> \in R => <<i, k>> \in R,
         NEW at, at = [k \in 1..n |-> Cardinality({j \in 1..n : <<j, k>> \in R})]
  PROVE  /\ at \in [1..n -> 1..n]
         /\ \A m \in 1..n : \E k \in 1..n : at[k] = m
         /\ \A j, k \in 1..n : at[j] <= at[k] <=> <<j, k>> \in R
<1> DEFINE upTo(k) == {j \in 1..n : <<j, k>> \in R}
<1>1. IsFiniteSet(1..n) /\ Cardinality(1..n) = n
  BY FS_Interval
<1>2. ASSUME NEW k \in 1..n
      PROVE  IsFiniteSet(upTo(k)) /\ Cardinality(upTo(k)) \in 1..n /\ k \in upTo(k)
  <2>1. upTo(k) \in SUBSET (1..n) /\ k \in upTo(k)
    OBVIOUS
  <2> HIDE DEF upTo
  <2>2. IsFiniteSet(upTo(k)) /\ Cardinality(upTo(k)) <= Cardinality(1..n)
    BY <1>1, <2>1, FS_Subset
  <2>3. Cardinality(upTo(k)) \in Nat /\ Cardinality(upTo(k)) # 0
    BY <2>1, <2>2, FS_EmptySet, FS_CardinalityType
  <2>4. Cardinality(upTo(k)) <= n
    BY <1>1, <2>2
  <2> QED
    BY <2>1, <2>2, <2>3, <2>4
<1>3. ASSUME NEW j \in 1..n, NEW k \in 1..n, <<j, k>> \in R
      PROVE  Cardinality(upTo(j)) <= Cardinality(upTo(k))
  <2>1. upTo(j) \in SUBSET upTo(k)
    BY <1>3
  <2> HIDE DEF upTo
  <2> QED
    BY <1>2, <2>1, FS_Subset
<1>4. ASSUME NEW j \in 1..n, NEW k \in 1..n, <<j, k>> \notin R
      PROVE  ~(Cardinality(upTo(j)) <= Cardinality(upTo(k)))
  <2>1. <<k, j>> \in R /\ upTo(k) \in SUBSET upTo(j) /\ j \in upTo(j) /\ j \notin upTo(k)
    BY <1>4
  <2> HIDE DEF upTo
  <2>2. upTo(k) # upTo(j) /\ IsFiniteSet(upTo(j))
    BY <1>2, <2>1
  <2>3. /\ Cardinality(upTo(k)) <= Cardinality(upTo(j))
        /\ Cardinality(upTo(k)) # Cardinality(upTo(j))
    BY <2>1, <2>2, FS_Subset
  <2>4. Cardinality(upTo(k)) \in Int /\ Cardinality(upTo(j)) \in Int
    BY <1>2
  <2> QED
    BY <2>3, <2>4
<1>5. at \in [1..n -> 1..n] /\ \A k \in 1..n : at[k] = Cardinality(upTo(k))
  BY <1>2
<1> HIDE DEF upTo
<1>6. \A j, k \in 1..n : at[j] <= at[k] <=> <<j, k>> \in R
  BY <1>3, <1>4, <1>5
<1>7. \A j, k \in 1..n : at[j] = at[k] => j = k
  <2> SUFFICES ASSUME NEW j \in 1..n, NEW k \in 1..n, at[j] = at[k] PROVE j = k
    OBVIOUS
  <2>1. at[j] \in 1..n
    BY <1>5
  <2>2. at[j] <= at[j]
    BY <2>1
  <2>3. at[j] <= at[k] /\ at[k] <= at[j]
    BY <2>2
  <2> QED
    BY <1>6, <2>3
<1>8. at \in Injection(1..n, 1..n)
  BY <1>5, <1>7 DEF Injection, IsInjective
<1>9. at \in Surjection(1..n, 1..n)
  BY <1>1, <1>8, FS_Injection
<1> QED
  BY <1>5, <1>6, <1>9 DEF Surjection

\* Scores are ordered as the fractions they are.
LEMMA NotBelowIsTransitive ==
  ASSUME NEW x \in [num : Int, den : Nat \ {0}], NEW y \in [num : Int, den : Nat \ {0}],
         NEW z \in [num : Int, den : Nat \ {0}]
  PROVE  /\ ~Below(y, x) /\ ~Below(z, y) => ~Below(z, x)
         /\ ~(Below(x, y) /\ Below(y, x))
<1>1. ~Below(y, x) /\ ~Below(z, y) => ~Below(z, x)
  <2> SUFFICES ASSUME ~Below(z, y), Below(z, x) PROVE Below(y, x)
    OBVIOUS
  <2>1. PICK a \in Int, b \in Nat \ {0} : a = x.num /\ b = x.den
    OBVIOUS
  <2>2. PICK c \in Int, d \in Nat \ {0} : c = y.num /\ d = y.den
    OBVIOUS
  <2>3. PICK e \in Int, f \in Nat \ {0} : e = z.num /\ f = z.den
    OBVIOUS
  <2>4. e * d >= c * f /\ e * b < a * f
    BY <2>1, <2>2, <2>3 DEF Below
  <2>5. c * b < a * d
    <3>1. (e * d) * b >= (c * f) * b /\ (e * b) * d < (a * f) * d
      BY <2>4
    <3>2. (c * b) * f < (a * d) * f
      BY <3>1
    <3> QED
      BY <3>2
  <2> QED
    BY <2>1, <2>2, <2>5 DEF Below
<1>2. ~(Below(x, y) /\ Below(y, x))
  BY DEF Below
<1> QED
  BY <1>1, <1>2

\* sort.SliceStable: the ranking holds the entries and no others, and no entry is
\* below one that is ranked before it.
LEMMA RankedSorts ==
  ASSUME NEW s \in Seq(Candidate)
  PROVE  /\ Len(Ranked(s)) = Len(s) /\ DOMAIN Ranked(s) = DOMAIN s
         /\ Range(Ranked(s)) = Range(s)
         /\ \A l, m \in DOMAIN s : l <= m => ~Below(Ranked(s)[m].score, Ranked(s)[l].score)
<1> DEFINE before(j, k) == Below(s[j].score, s[k].score)
                             \/ (~Below(s[k].score, s[j].score) /\ j <= k)
           place(k) == Cardinality({j \in DOMAIN s : before(j, k)})
           n == Len(s)
           R == {p \in (1..n) \X (1..n) : before(p[1], p[2])}
           at == [k \in 1..n |-> Cardinality({j \in 1..n : <<j, k>> \in R})]
           nth(m) == CHOOSE k \in DOMAIN s : place(k) = m
<1>1. n \in Nat /\ DOMAIN s = 1..n
  OBVIOUS
<1>2. \A k \in 1..n : s[k].score \in [num : Int, den : Nat \ {0}]
  <2>1. \A k \in 1..n : s[k] \in Candidate
    BY <1>1
  <2> QED
    BY <2>1, CandidateAssumption
<1> HIDE DEF n
<1>3. \A j, k \in 1..n : before(j, k) \/ before(k, j)
  BY <1>1
<1>4. \A j, k \in 1..n : before(j, k) => ~Below(s[k].score, s[j].score)
  <2> SUFFICES ASSUME NEW j \in 1..n, NEW k \in 1..n, before(j, k)
               PROVE  ~Below(s[k].score, s[j].score)
    OBVIOUS
  <2> QED
    BY <1>2, NotBelowIsTransitive
<1>5. \A j, k \in 1..n : before(j, k) /\ before(k, j) => j = k
  <2> SUFFICES ASSUME NEW j \in 1..n, NEW k \in 1..n, before(j, k), before(k, j) PROVE j = k
    OBVIOUS
  <2>1. ~Below(s[k].score, s[j].score) /\ ~Below(s[j].score, s[k].score)
    BY <1>4
  <2> QED
    BY <1>1, <2>1
<1>6. \A i, j, k \in 1..n : before(i, j) /\ before(j, k) => before(i, k)
  <2> SUFFICES ASSUME NEW i \in 1..n, NEW j \in 1..n, NEW k \in 1..n, before(i, j), before(j, k)
               PROVE  before(i, k)
    OBVIOUS
  <2> PICK x, y, z : x = s[i].score /\ y = s[j].score /\ z = s[k].score
    OBVIOUS
  <2>1. /\ x \in [num : Int, den : Nat \ {0}] /\ y \in [num : Int, den : Nat \ {0}]
        /\ z \in [num : Int, den : Nat \ {0}]
    BY <1>2
  <2>2. ~Below(y, x) /\ ~Below(z, y)
    BY <1>4
  <2>3. ~Below(z, x)
    BY <2>1, <2>2, NotBelowIsTransitive
  <2>4. CASE Below(x, y) \/ Below(y, z)
    <3> SUFFICES ASSUME ~Below(x, z) PROVE FALSE
      OBVIOUS
    <3>1. ~Below(x, y)
      BY <2>1, <2>2, NotBelowIsTransitive
    <3>2. ~Below(y, z)
      BY <2>1, <2>2, NotBelowIsTransitive
    <3> QED
      BY <2>4, <3>1, <3>2
  <2>5. CASE ~Below(x, y) /\ ~Below(y, z)
    BY <1>1, <2>3, <2>5
  <2> QED
    BY <2>4, <2>5
<1> HIDE DEF before
<1>7. \A j, k \in 1..n : <<j, k>> \in R <=> before(j, k)
  OBVIOUS
<1>8. \A k \in 1..n : at[k] = place(k)
  <2> SUFFICES ASSUME NEW k \in 1..n PROVE at[k] = place(k)
    OBVIOUS
  <2>1. {j \in 1..n : <<j, k>> \in R} = {j \in DOMAIN s : before(j, k)}
    BY <1>1, <1>7
  <2> QED
    BY <2>1
<1> HIDE DEF R, place
<1>9. /\ at \in [1..n -> 1..n]
      /\ \A m \in 1..n : \E k \in 1..n : at[k] = m
      /\ \A j, k \in 1..n : at[j] <= at[k] <=> <<j, k>> \in R
  <2>1. \A j, k \in 1..n : <<j, k>> \in R \/ <<k, j>> \in R
    BY <1>3, <1>7
  <2>2. \A j, k \in 1..n : <<j, k>> \in R /\ <<k, j>> \in R => j = k
    BY <1>5, <1>7
  <2>3. \A i, j, k \in 1..n : <<i, j>> \in R /\ <<j, k>> \in R => <<i, k>> \in R
    BY <1>6, <1>7
  <2>4. PICK a : a = at /\ a = [k \in 1..n |-> Cardinality({j \in 1..n : <<j, k>> \in R})]
    OBVIOUS
  <2> HIDE DEF at
  <2>5. /\ a \in [1..n -> 1..n]
        /\ \A m \in 1..n : \E k \in 1..n : a[k] = m
        /\ \A j, k \in 1..n : a[j] <= a[k] <=> <<j, k>> \in R
    BY <1>1, <2>1, <2>2, <2>3, <2>4, PlacesInOrder
  <2> QED
    BY <2>4, <2>5
<1> HIDE DEF at
<1>10. ASSUME NEW m \in 1..n PROVE nth(m) \in 1..n /\ at[nth(m)] = m
  BY <1>1, <1>8, <1>9
<1>11. \A k \in 1..n : \E m \in 1..n : nth(m) = k
  <2> SUFFICES ASSUME NEW k \in 1..n PROVE nth(at[k]) = k /\ at[k] \in 1..n
    OBVIOUS
  <2>1. at[k] \in 1..n
    BY <1>9
  <2>2. nth(at[k]) \in 1..n /\ at[nth(at[k])] = at[k]
    BY <1>10, <2>1
  <2>3. at[k] <= at[k]
    BY <2>1
  <2>4. at[nth(at[k])] <= at[k] /\ at[k] <= at[nth(at[k])]
    BY <2>2, <2>3
  <2>5. before(nth(at[k]), k) /\ before(k, nth(at[k]))
    BY <1>7, <1>9, <2>2, <2>4
  <2> QED
    BY <1>5, <2>1, <2>2, <2>5
<1>12. Ranked(s) = [m \in 1..n |-> s[nth(m)]]
  BY <1>1 DEF Ranked, place, before
<1> HIDE DEF nth
<1>13. Ranked(s) \in Seq(Candidate) /\ Len(Ranked(s)) = n /\ DOMAIN Ranked(s) = 1..n
  <2>1. \A m \in 1..n : s[nth(m)] \in Candidate
    BY <1>1, <1>10
  <2> QED
    BY <1>1, <1>12, <2>1
<1>14. Range(Ranked(s)) = Range(s)
  <2>1. \A m \in 1..n : Ranked(s)[m] = s[nth(m)]
    BY <1>12
  <2> QED
    BY <1>1, <1>10, <1>11, <1>13, <2>1 DEF Range
<1>15. ASSUME NEW l \in 1..n, NEW m \in 1..n, l <= m
       PROVE  ~Below(Ranked(s)[m].score, Ranked(s)[l].score)
  <2>1. before(nth(l), nth(m))
    BY <1>7, <1>9, <1>10, <1>15
  <2>2. ~Below(s[nth(m)].score, s[nth(l)].score)
    BY <1>4, <1>10, <2>1
  <2> QED
    BY <1>12, <2>2
<1> QED
  BY <1>1, <1>13, <1>14, <1>15 DEF n

\* The scores that have arrived, in the order of their arrival.
Entries == [k \in DOMAIN collected |-> Jobs[collected[k]]]

\* What the call has answered is the ranking of what had arrived by then, and of as
\* many entries as it had candidates unless it says otherwise.
RankedOnce ==
  answer.ready /\ task.kind = "risk" =>
    /\ answer.ranked = Ranked(Entries)
    /\ ~answer.partial => ~(Len(collected) < Len(Jobs))

LEMMA StepRanked == CallInv /\ RankedOnce /\ [Next]_vars => RankedOnce'
<1> SUFFICES ASSUME CallInv, RankedOnce, [Next]_vars PROVE RankedOnce'
  OBVIOUS
<1>1. CASE Aggregator
  <2>1. PICK saw \in BOOLEAN : Answer(saw)
    BY <1>1 DEF Aggregator, SeesClose, SeesTimeout
  <2>2. UNCHANGED <<task, collected>> /\ Entries' = Entries /\ Jobs' = Jobs
    BY <2>1 DEF Answer, Entries, Jobs
  <2>3. answer'.partial = Partial(saw)
    BY <2>1, AnswerIsReady
  <2>4. task.kind = "risk" => answer'.ranked = Ranked(Entries)
    BY <2>1 DEF Answer, Entries
  <2>5. task.kind = "risk" /\ ~answer'.partial => ~(Len(collected) < Len(Jobs))
    BY <2>3 DEF Partial
  <2> QED
    BY <2>2, <2>4, <2>5 DEF RankedOnce
<1>2. CASE UNCHANGED <<task, collected, answer>>
  BY <1>2 DEF RankedOnce, Entries, Jobs
<1>3. ASSUME NEW w \in Worker, Collect(w) PROVE RankedOnce'
  BY <1>3 DEF Collect, RankedOnce
<1>4. CASE Timeout \/ DispatcherEnds \/ Dispatch \/ CloseOut \/ UNCHANGED vars
  BY <1>2, <1>4 DEF Timeout, DispatcherEnds, Dispatch, CloseOut, vars
<1>5. ASSUME NEW w \in Worker, Take(w) \/ WorkerEnds(w) \/ WorkerCancelled(w)
      PROVE  RankedOnce'
  BY <1>2, <1>5 DEF Take, WorkerEnds, WorkerCancelled
<1> QED
  BY <1>1, <1>3, <1>4, <1>5 DEF Next, Dispatcher, Work

\* As many scores as candidates, none of them twice, are the scores of all.
LEMMA AllRanked ==
  ASSUME CallInv, ~(Len(collected) < Len(Jobs))
  PROVE  /\ Len(collected) = Len(Jobs)
         /\ AllArrived
<1> DEFINE n == Len(collected)
           m == Len(Jobs)
<1>1. /\ n \in Nat /\ m \in Nat /\ JobNumbers = 1..m
      /\ DOMAIN collected = 1..n /\ collected \in [1..n -> 1..m]
  <2>1. m \in Nat /\ collected \in Seq(1..m) /\ JobNumbers = 1..m
    BY JobsAreCandidates DEF CallInv, Places, JobNumbers
  <2> HIDE DEF m
  <2> QED
    BY <2>1
<1>2. \A k, l \in 1..n : collected[k] = collected[l] => k = l
  BY <1>1 DEF CallInv, HeldOnce
<1> HIDE DEF n, m
<1>3. collected \in Injection(1..n, 1..m)
  BY <1>1, <1>2 DEF Injection, IsInjective
<1>4. IsFiniteSet(1..m) /\ Cardinality(1..m) = m /\ Cardinality(1..n) = n
  <2>1. IsFiniteSet(1..m) /\ Cardinality(1..m) = m
    BY <1>1, FS_Interval
  <2>2. Cardinality(1..n) = n
    BY <1>1, FS_Interval
  <2> QED
    BY <2>1, <2>2
<1>5. n <= m /\ (n = m <=> collected \in Surjection(1..n, 1..m))
  BY <1>3, <1>4, FS_Injection
<1>6. n = m
  BY <1>1, <1>5 DEF n, m
<1>7. \A j \in 1..m : \E k \in 1..n : collected[k] = j
  BY <1>5, <1>6 DEF Surjection
<1> QED
  BY <1>1, <1>6, <1>7 DEF AllArrived, Arrived, n, m

\* However the scores arrive: a ranking that is not marked partial ranks every candidate
\* of the call and none it was not asked about, and no candidate is better than the
\* one it recommends (routerisk.go:127, sort.SliceStable).
THEOREM RankingIsWhole == Spec => []WholeRanking
<1>1. Init => RankedOnce
  <2>1. Init => ~answer.ready
    BY DEF Init, NoAnswer
  <2> QED
    BY <2>1 DEF RankedOnce
<1>2. CallInv /\ RankedOnce => WholeRanking
  <2> SUFFICES ASSUME CallInv, RankedOnce, answer.ready, task.kind = "risk", ~answer.partial
               PROVE  /\ Len(answer.ranked) = Len(Jobs)
                      /\ Range(answer.ranked) = Range(Jobs)
                      /\ \A j \in JobNumbers : ~Below(Jobs[j].score, answer.ranked[1].score)
    BY DEF WholeRanking
  <2>1. answer.ranked = Ranked(Entries) /\ Len(collected) = Len(Jobs) /\ AllArrived
    BY AllRanked DEF RankedOnce
  <2>2. /\ Jobs \in Seq(Candidate) /\ Len(Jobs) \in Nat
        /\ \A j \in JobNumbers : Jobs[j] \in Candidate
    BY JobsAreCandidates DEF CallInv
  <2>3. /\ DOMAIN collected = JobNumbers /\ DOMAIN Jobs = JobNumbers
        /\ \A k \in DOMAIN collected : collected[k] \in JobNumbers
    BY <2>1, <2>2 DEF CallInv, Places, JobNumbers
  <2>4. Entries \in Seq(Candidate) /\ Len(Entries) = Len(Jobs) /\ DOMAIN Entries = JobNumbers
    <3>1. Entries \in [1..Len(Jobs) -> Candidate]
      BY <2>2, <2>3 DEF Entries, JobNumbers
    <3> QED
      BY <2>2, <3>1 DEF JobNumbers
  <2>5. \A j \in JobNumbers : \E k \in JobNumbers : Entries[k] = Jobs[j]
    BY <2>1, <2>3 DEF AllArrived, Arrived, Entries
  <2>6. Range(Entries) = Range(Jobs)
    <3>1. \A k \in JobNumbers : Entries[k] = Jobs[collected[k]]
      BY <2>3 DEF Entries
    <3>2. Range(Entries) \subseteq Range(Jobs)
      BY <2>3, <2>4, <3>1 DEF Range
    <3>3. Range(Jobs) \subseteq Range(Entries)
      BY <2>3, <2>4, <2>5 DEF Range
    <3> QED
      BY <3>2, <3>3
  <2>7. ASSUME NEW j \in JobNumbers PROVE ~Below(Jobs[j].score, answer.ranked[1].score)
    <3>1. Jobs[j] \in Range(Ranked(Entries))
      BY <2>3, <2>4, <2>6, RankedSorts DEF Range
    <3>2. PICK k \in DOMAIN Entries : Jobs[j] = Ranked(Entries)[k]
      BY <2>4, <3>1, RankedSorts DEF Range
    <3>3. 1 \in DOMAIN Entries /\ 1 <= k
      BY <2>2, <2>4 DEF JobNumbers
    <3> QED
      BY <2>1, <2>4, <3>2, <3>3, RankedSorts
  <2> QED
    BY <2>1, <2>4, <2>6, <2>7, RankedSorts
<1> QED
  BY <1>1, <1>2, StepRanked, CallInvHolds, PTL DEF Spec

-----------------------------------------------------------------------------
(* Routes *)

\* What MapsAssumption says of one map.
MapOK(m) ==
  /\ IsFiniteSet(DOMAIN m)
  /\ \A p \in DOMAIN m : m[p].from # "" /\ m[p].to # "" /\ m[p].cost \in Nat

\* A path leads from region r to x at a cost.
Crosses(m, r, x, c) == \E p \in DOMAIN m : Across(m, p, r) = x /\ m[p].cost = c

\* An edge is a path seen from one of its ends.
LEMMA EdgeIsPath ==
  ASSUME NEW m, MapOK(m), NEW r, NEW e \in EdgesFrom(m, r)
  PROVE  /\ e.cost \in Nat /\ e.to \in Regions(m) /\ e.to # ""
         /\ Crosses(m, r, e.to, e.cost)
<1>1. CASE \E p \in DOMAIN m : m[p].from = r /\ e = [to |-> m[p].to, cost |-> m[p].cost]
  <2>1. PICK p \in DOMAIN m : m[p].from = r /\ e = [to |-> m[p].to, cost |-> m[p].cost]
    BY <1>1
  <2>2. e.to = m[p].to /\ e.cost = m[p].cost /\ Across(m, p, r) = m[p].to
    BY <2>1 DEF Across
  <2> QED
    BY <2>2 DEF MapOK, Regions, Crosses
<1>2. CASE \E p \in DOMAIN m : m[p].to = r /\ e = [to |-> m[p].from, cost |-> m[p].cost]
  <2>1. PICK p \in DOMAIN m : m[p].to = r /\ e = [to |-> m[p].from, cost |-> m[p].cost]
    BY <1>2
  <2>2. e.to = m[p].from /\ e.cost = m[p].cost /\ Across(m, p, r) = m[p].from
    BY <2>1 DEF Across
  <2> QED
    BY <2>2 DEF MapOK, Regions, Crosses
<1> QED
  BY <1>1, <1>2 DEF EdgesFrom

LEMMA PathIsEdge ==
  ASSUME NEW m, NEW r, NEW p \in DOMAIN m, Across(m, p, r) # ""
  PROVE  \E e \in EdgesFrom(m, r) : e.to = Across(m, p, r) /\ e.cost = m[p].cost
<1>1. CASE r = m[p].from
  <2>1. [to |-> m[p].to, cost |-> m[p].cost] \in EdgesFrom(m, r)
    BY <1>1 DEF EdgesFrom
  <2> QED
    BY <1>1, <2>1 DEF Across
<1>2. CASE r # m[p].from /\ r = m[p].to
  <2>1. [to |-> m[p].from, cost |-> m[p].cost] \in EdgesFrom(m, r)
    BY <1>2 DEF EdgesFrom
  <2> QED
    BY <1>2, <2>1 DEF Across
<1> QED
  BY <1>1, <1>2 DEF Across

LEMMA EdgesFinite ==
  ASSUME NEW m, MapOK(m), NEW r
  PROVE  IsFiniteSet(EdgesFrom(m, r)) /\ IsFiniteSet(Regions(m))
<1> DEFINE out(p) == [to |-> m[p].to, cost |-> m[p].cost]
           back(p) == [to |-> m[p].from, cost |-> m[p].cost]
           D == DOMAIN m
<1>1. IsFiniteSet(D)
  BY DEF MapOK
<1>2. \A f : IsFiniteSet({f[p] : p \in D})
  <2> SUFFICES ASSUME NEW f PROVE IsFiniteSet({f[p] : p \in D})
    OBVIOUS
  <2> DEFINE T == {f[p] : p \in D}
             g == [p \in D |-> f[p]]
  <2>1. g \in Surjection(D, T)
    BY DEF Surjection
  <2> HIDE DEF T, g
  <2>2. IsFiniteSet(T)
    BY <1>1, <2>1, FS_Surjection
  <2> QED
    BY <2>2 DEF T
<1> HIDE DEF D
<1>3. IsFiniteSet({out(p) : p \in D}) /\ IsFiniteSet({back(p) : p \in D})
  <2>1. PICK f : f = [p \in D |-> out(p)]
    OBVIOUS
  <2>2. PICK g : g = [p \in D |-> back(p)]
    OBVIOUS
  <2>3. {f[p] : p \in D} = {out(p) : p \in D} /\ {g[p] : p \in D} = {back(p) : p \in D}
    BY <2>1, <2>2
  <2>4. IsFiniteSet({f[p] : p \in D}) /\ IsFiniteSet({g[p] : p \in D})
    BY <1>2
  <2> QED
    BY <2>3, <2>4
<1>4. IsFiniteSet({m[p].from : p \in D}) /\ IsFiniteSet({m[p].to : p \in D})
  <2>1. PICK f : f = [p \in D |-> m[p].from]
    OBVIOUS
  <2>2. PICK g : g = [p \in D |-> m[p].to]
    OBVIOUS
  <2>3. {f[p] : p \in D} = {m[p].from : p \in D} /\ {g[p] : p \in D} = {m[p].to : p \in D}
    BY <2>1, <2>2
  <2>4. IsFiniteSet({f[p] : p \in D}) /\ IsFiniteSet({g[p] : p \in D})
    BY <1>2
  <2> QED
    BY <2>3, <2>4
<1>5. IsFiniteSet(Regions(m))
  BY <1>4, FS_Union DEF Regions, D
<1>6. EdgesFrom(m, r) \subseteq {out(p) : p \in D} \cup {back(p) : p \in D}
  BY DEF EdgesFrom, D
<1>7. IsFiniteSet({out(p) : p \in D} \cup {back(p) : p \in D})
  BY <1>3, FS_Union
<1> QED
  BY <1>5, <1>6, <1>7, FS_Subset

\* The regions a route enters are those its paths lead to, one after the other.
LEMMA AlongSteps ==
  ASSUME NEW m, NEW a, NEW ps \in Seq(DOMAIN m)
  PROVE  /\ Along(m, a, ps)[0] = a
         /\ \A k \in 0..(Len(ps) - 1) :
              Along(m, a, ps)[k + 1] = Across(m, ps[k + 1], Along(m, a, ps)[k])
<1> DEFINE n == Len(ps)
           V == {a, ""} \cup Regions(m)
           turn == [k \in 1..n |-> [r \in V |-> Across(m, ps[k], r)]]
           walks(f) == f = [k \in 0..n |-> IF k = 0 THEN a ELSE Across(m, ps[k], f[k - 1])]
<1>1. n \in Nat
  OBVIOUS
<1>2. \E f : walks(f)
  <2>1. \A k \in 1..n : ps[k] \in DOMAIN m
    BY <1>1, ElementOfSeq
  <2>2. \A k \in 1..n : \A r \in V : Across(m, ps[k], r) \in V
    BY <2>1 DEF Across, Regions
  <2>3. a \in V
    OBVIOUS
  <2> HIDE DEF V
  <2>4. turn \in [1..n -> [V -> V]]
    BY <2>2
  <2>5. \A k \in 1..n : \A r \in V : turn[k][r] = Across(m, ps[k], r)
    OBVIOUS
  <2> HIDE DEF turn, n
  <2>6. PICK g : Runs(g, n, V, a, turn)
    BY <1>1, <2>3, <2>4, Iterates
  <2>7. \A k \in 1..n : k - 1 \in 0..n /\ g[k] = Across(m, ps[k], g[k - 1])
    <3>1. \A k \in 1..n : k - 1 \in 0..n
      BY <1>1
    <3>2. \A k \in 1..n : g[k] = turn[k][g[k - 1]] /\ g[k - 1] \in V
      BY <2>6, <3>1 DEF Runs
    <3> QED
      BY <2>5, <3>1, <3>2
  <2>8. \A k \in 0..n : g[k] = IF k = 0 THEN a ELSE Across(m, ps[k], g[k - 1])
    <3>1. \A k \in 0..n : k = 0 \/ k \in 1..n
      BY <1>1
    <3> QED
      BY <2>6, <2>7, <3>1 DEF Runs
  <2>9. walks(g)
    BY <2>6, <2>8 DEF Runs
  <2> QED
    BY <2>9
<1>3. Along(m, a, ps) = (CHOOSE f : walks(f))
  BY DEF Along
<1> HIDE DEF walks
<1>4. PICK f : f = (CHOOSE g : walks(g)) /\ walks(f)
  BY <1>2
<1>5. /\ f[0] = a /\ \A k \in 0..(n - 1) : f[k + 1] = Across(m, ps[k + 1], f[k])
  <2>1. \A k \in 0..n : f[k] = IF k = 0 THEN a ELSE Across(m, ps[k], f[k - 1])
    BY <1>4 DEF walks
  <2>2. 0 \in 0..n /\ \A k \in 0..(n - 1) : k + 1 \in 0..n /\ k + 1 # 0 /\ (k + 1) - 1 = k
    BY <1>1
  <2> QED
    BY <2>1, <2>2
<1> QED
  BY <1>3, <1>4, <1>5

\* What starts where a route does and follows its paths is the route.
LEMMA AlongIs ==
  ASSUME NEW m, NEW a, NEW ps \in Seq(DOMAIN m),
         NEW f, f[0] = a, \A k \in 0..(Len(ps) - 1) : f[k + 1] = Across(m, ps[k + 1], f[k])
  PROVE  \A k \in 0..Len(ps) : Along(m, a, ps)[k] = f[k]
<1>1. PICK at : at = Along(m, a, ps)
  OBVIOUS
<1>2. PICK n \in Nat : n = Len(ps)
  OBVIOUS
<1>3. at[0] = a /\ \A k \in 0..(n - 1) : at[k + 1] = Across(m, ps[k + 1], at[k])
  BY <1>1, <1>2, AlongSteps
<1> DEFINE T == {k \in 0..n : at[k] = f[k]}
<1>4. 0 \in T
  BY <1>3
<1>5. \A k \in 0..(n - 1) : k \in T => k + 1 \in T
  BY <1>2, <1>3
<1> HIDE DEF T
<1>6. \A k \in 0..n : k \in T
  BY <1>4, <1>5, Spreads
<1> QED
  BY <1>1, <1>2, <1>6 DEF T

\* BuildRoute accepts a route, and where it ends.
LEMMA LeadsToGives ==
  ASSUME NEW m, NEW a, NEW b, NEW ps \in Seq(DOMAIN m), LeadsTo(m, a, ps, b)
  PROVE  /\ \A k \in 1..Len(ps) : Along(m, a, ps)[k] # ""
         /\ Along(m, a, ps)[Len(ps)] = b
<1>1. PICK n \in Nat : n = Len(ps)
  OBVIOUS
<1>2. PICK at : at = Along(m, a, ps)
  OBVIOUS
<1>3. at[0] = a
  BY <1>2, AlongSteps
<1>4. PICK r : r = RouteOf(m, a, ps)
  OBVIOUS
<1>5. (r.ok <=> \A k \in 1..n : at[k] # "") /\ \A k \in 1..n : r.dests[k] = at[k]
  BY <1>1, <1>2, <1>4 DEF RouteOf, BuildRoute
<1>6. ps = <<>> <=> n = 0
  BY <1>1
<1>7. LeadsTo(m, a, ps, b) <=> r.ok /\ b = IF ps = <<>> THEN a ELSE r.dests[n]
  BY <1>1, <1>4 DEF LeadsTo
<1>8. n # 0 => n \in 1..n
  BY <1>1
<1> QED
  BY <1>1, <1>2, <1>3, <1>5, <1>6, <1>7, <1>8

LEMMA LeadsToIf ==
  ASSUME NEW m, NEW a, NEW b, NEW ps \in Seq(DOMAIN m),
         \A k \in 1..Len(ps) : Along(m, a, ps)[k] # "", Along(m, a, ps)[Len(ps)] = b
  PROVE  LeadsTo(m, a, ps, b)
<1>1. PICK n \in Nat : n = Len(ps) /\ (ps = <<>> <=> n = 0)
  <2>1. Len(ps) \in Nat /\ (ps = <<>> <=> Len(ps) = 0)
    BY ONLY ps \in Seq(DOMAIN m)
  <2> QED
    BY ONLY <2>1
<1>2. PICK at : at = Along(m, a, ps)
  OBVIOUS
<1>3. at[0] = a /\ at[n] = b /\ \A k \in 1..n : at[k] # ""
  BY <1>1, <1>2, AlongSteps
<1>4. PICK r : r = RouteOf(m, a, ps)
  OBVIOUS
<1>5. r.ok /\ \A k \in 1..n : r.dests[k] = at[k]
  BY ONLY <1>1, <1>2, <1>3, <1>4 DEF RouteOf, BuildRoute
<1>6. n # 0 => n \in 1..n
  BY ONLY n \in Nat
<1>7. b = IF ps = <<>> THEN a ELSE r.dests[n]
  BY ONLY <1>1, <1>3, <1>5, <1>6
<1> QED
  BY ONLY <1>1, <1>4, <1>5, <1>7 DEF LeadsTo

LEMMA CostMeans ==
  ASSUME NEW m, NEW a, NEW b, NEW ps \in Seq(DOMAIN m), LeadsTo(m, a, ps, b)
  PROVE  RouteOf(m, a, ps).cost = Summed(0, [j \in 1..Len(ps) |-> m[ps[j]].cost], Len(ps))
<1>1. RouteOf(m, a, ps).ok
  BY DEF LeadsTo
<1> QED
  BY <1>1 DEF RouteOf, BuildRoute

\* A route of n paths and cost c leads from a to x.
Reached(m, a, x, n, c) ==
  \E ps \in Seq(DOMAIN m) : LeadsTo(m, a, ps, x) /\ Len(ps) = n /\ RouteOf(m, a, ps).cost = c

LEMMA NoPaths ==
  ASSUME NEW m, NEW a
  PROVE  Reached(m, a, a, 0, 0)
<1>1. PICK ps : ps \in Seq(DOMAIN m) /\ ps = <<>> /\ Len(ps) = 0
  <2>1. PICK D : D = DOMAIN m
    OBVIOUS
  <2>2. <<>> \in Seq(D) /\ Len(<<>>) = 0
    BY EmptySeq
  <2> QED
    BY <2>1, <2>2
<1>2. Len(ps) = 0
  BY <1>1
<1>3. PICK at : at = Along(m, a, ps)
  OBVIOUS
<1>4. at[0] = a
  <2>1. ps \in Seq(DOMAIN m)
    BY <1>1
  <2>2. Along(m, a, ps)[0] = a
    BY ONLY <2>1, AlongSteps
  <2> QED
    BY <1>3, <2>2
<1>5. LeadsTo(m, a, ps, a)
  <2>1. /\ \A k \in 1..Len(ps) : Along(m, a, ps)[k] # ""
        /\ Along(m, a, ps)[Len(ps)] = a
    BY <1>2, <1>3, <1>4
  <2> QED
    BY ONLY <1>1, <2>1, LeadsToIf
<1>6. PICK w : w = [j \in 1..Len(ps) |-> m[ps[j]].cost]
  OBVIOUS
<1>7. RouteOf(m, a, ps).cost = Summed(0, w, 0)
  <2>1. ps \in Seq(DOMAIN m)
    BY <1>1
  <2>2. RouteOf(m, a, ps).cost = Summed(0, [j \in 1..Len(ps) |-> m[ps[j]].cost], Len(ps))
    BY ONLY <1>5, <2>1, CostMeans
  <2> QED
    BY ONLY <1>2, <1>6, <2>2
<1>8. Summed(0, w, 0) = 0
  <2>1. PICK zero \in Nat : zero = 0
    OBVIOUS
  <2>2. \A k \in 1..zero : w[k] \in Nat
    BY <2>1
  <2>3. Summed(zero, w, 0) = zero
    BY ONLY <2>2, zero \in Nat, SummedSteps
  <2> QED
    BY <2>1, <2>3
<1>9. ps \in Seq(DOMAIN m) /\ LeadsTo(m, a, ps, a) /\ Len(ps) = 0 /\ RouteOf(m, a, ps).cost = 0
  BY <1>1, <1>5, <1>7, <1>8
<1> QED
  BY ONLY <1>9 DEF Reached

\* One more edge is one more path.
LEMMA OneMore ==
  ASSUME NEW m, MapOK(m), NEW a, NEW x, NEW n, NEW c, Reached(m, a, x, n, c),
         NEW e \in EdgesFrom(m, x)
  PROVE  Reached(m, a, e.to, n + 1, c + e.cost)
<1>1. PICK ps : ps \in Seq(DOMAIN m) /\ LeadsTo(m, a, ps, x) /\ Len(ps) = n /\ RouteOf(m, a, ps).cost = c
  BY DEF Reached
<1>2. PICK p \in DOMAIN m : Across(m, p, x) = e.to /\ m[p].cost = e.cost /\ e.to # ""
  <2>1. e.to # "" /\ Crosses(m, x, e.to, e.cost)
    BY EdgeIsPath
  <2> QED
    BY <2>1 DEF Crosses
<1>3. PICK qs :
        /\ qs \in Seq(DOMAIN m) /\ Len(qs) = Len(ps) + 1 /\ qs[Len(ps) + 1] = p
        /\ \A k \in 1..Len(ps) : qs[k] = ps[k]
  <2>1. PICK D : D = DOMAIN m
    OBVIOUS
  <2>2. ps \in Seq(D) /\ p \in D
    BY <1>1, <2>1
  <2>3. /\ Append(ps, p) \in Seq(D) /\ Len(Append(ps, p)) = Len(ps) + 1
        /\ Append(ps, p)[Len(ps) + 1] = p
        /\ \A k \in 1..Len(ps) : Append(ps, p)[k] = ps[k]
    BY ONLY <2>2, AppendProperties
  <2> QED
    BY ONLY <2>1, <2>3
<1>4. n \in Nat
  BY <1>1
<1>5. PICK old : old = Along(m, a, ps)
  OBVIOUS
<1>6. /\ old[0] = a /\ \A k \in 0..(n - 1) : old[k + 1] = Across(m, ps[k + 1], old[k])
      /\ old[n] = x /\ \A k \in 1..n : old[k] # ""
  <2>1. old[0] = a /\ \A k \in 0..(n - 1) : old[k + 1] = Across(m, ps[k + 1], old[k])
    BY <1>1, <1>5, AlongSteps
  <2>2. /\ \A k \in 1..Len(ps) : Along(m, a, ps)[k] # ""
        /\ Along(m, a, ps)[Len(ps)] = x
    BY <1>1, LeadsToGives
  <2>3. old[n] = x /\ \A k \in 1..n : old[k] # ""
    BY <1>1, <1>5, <2>2
  <2> QED
    BY <2>1, <2>3
<1> DEFINE new == [k \in 0..(n + 1) |-> IF k = n + 1 THEN e.to ELSE old[k]]
<1>7. new[0] = a /\ new[n] = x /\ new[n + 1] = e.to /\ \A k \in 0..n : new[k] = old[k]
  <2>1. \A k \in 0..n : k \in 0..(n + 1) /\ k # n + 1
    BY <1>4
  <2>2. 0 \in 0..n /\ n \in 0..n /\ n + 1 \in 0..(n + 1)
    BY <1>4
  <2> QED
    BY <1>6, <2>1, <2>2
<1> HIDE DEF new
<1>8. \A k \in 0..((n + 1) - 1) : new[k + 1] = Across(m, qs[k + 1], new[k])
  <2> SUFFICES ASSUME NEW k \in 0..n PROVE new[k + 1] = Across(m, qs[k + 1], new[k])
    BY <1>4
  <2>1. CASE k = n
    BY <1>1, <1>2, <1>3, <1>7, <2>1
  <2>2. CASE k # n
    <3>1. k \in 0..(n - 1) /\ k + 1 \in 1..n /\ k + 1 \in 0..n
      BY <1>4, <2>2
    <3> QED
      BY <1>1, <1>3, <1>6, <1>7, <3>1
  <2> QED
    BY <2>1, <2>2
<1>9. \A k \in 0..(n + 1) : Along(m, a, qs)[k] = new[k]
  <2>1. Len(qs) = n + 1 /\ qs \in Seq(DOMAIN m)
    BY <1>1, <1>3
  <2>2. \A k \in 0..(Len(qs) - 1) : new[k + 1] = Across(m, qs[k + 1], new[k])
    BY ONLY <1>8, <2>1
  <2>3. new[0] = a
    BY <1>7
  <2>4. \A k \in 0..Len(qs) : Along(m, a, qs)[k] = new[k]
    BY ONLY <2>1, <2>2, <2>3, AlongIs
  <2> QED
    BY ONLY <2>1, <2>4
<1>10. LeadsTo(m, a, qs, e.to)
  <2>1. \A k \in 1..(n + 1) : k \in 0..(n + 1) /\ (k = n + 1 \/ (k \in 1..n /\ k \in 0..n))
    BY <1>4
  <2>2. \A k \in 1..(n + 1) : new[k] # ""
    BY <1>2, <1>6, <1>7, <2>1
  <2>3. n + 1 \in 0..(n + 1) /\ Len(qs) = n + 1
    BY <1>1, <1>3, <1>4
  <2>4. /\ \A k \in 1..Len(qs) : Along(m, a, qs)[k] # ""
        /\ Along(m, a, qs)[Len(qs)] = e.to
    BY <1>7, <1>9, <2>1, <2>2, <2>3
  <2> QED
    BY ONLY <1>3, <2>4, LeadsToIf
<1>11. RouteOf(m, a, qs).cost = c + e.cost
  <2>1. PICK w : w = [j \in 1..Len(ps) |-> m[ps[j]].cost]
    OBVIOUS
  <2>2. PICK v : v = [j \in 1..Len(qs) |-> m[qs[j]].cost]
    OBVIOUS
  <2>3. c = Summed(0, w, n)
    BY <1>1, <2>1, CostMeans
  <2>4. RouteOf(m, a, qs).cost = Summed(0, v, n + 1)
    BY <1>1, <1>3, <1>10, <2>2, CostMeans
  <2>5. /\ \A j \in 1..n : w[j] \in Nat /\ v[j] = w[j]
        /\ v[n + 1] = e.cost /\ e.cost \in Nat
    <3>1. \A j \in 1..n : w[j] = m[ps[j]].cost /\ ps[j] \in DOMAIN m
      BY <1>1, <2>1, ElementOfSeq
    <3>2. \A j \in 1..(n + 1) : v[j] = m[qs[j]].cost
      BY <1>1, <1>3, <2>2
    <3>3. n + 1 \in 1..(n + 1) /\ \A j \in 1..n : j \in 1..(n + 1)
      BY <1>4
    <3> QED
      BY <1>1, <1>2, <1>3, <3>1, <3>2, <3>3 DEF MapOK
  <2>7. Summed(0, v, n + 1) = Summed(0, w, n) + v[n + 1]
    <3>1. /\ n \in Nat /\ \A j \in 1..n : w[j] \in Nat /\ v[j] = w[j]
          /\ v[n + 1] \in Nat
      BY <1>4, <2>5
    <3> QED
      BY ONLY <3>1, SumGrows
  <2> QED
    BY <2>3, <2>4, <2>5, <2>7
<1>12. Len(qs) = n + 1
  BY <1>1, <1>3
<1>13. qs \in Seq(DOMAIN m)
  BY <1>3
<1> QED
  BY ONLY <1>10, <1>11, <1>12, <1>13 DEF Reached

\* The regions a route passes, and what it has cost up to each of them.
Stops(m, a, b, n, c, at, cost) ==
  /\ at[0] = a /\ cost[0] = 0
  /\ at[n] = b /\ cost[n] = c
  /\ \A k \in 0..n : cost[k] \in Nat
  /\ \A k \in 0..(n - 1) : \E e \in EdgesFrom(m, at[k]) :
       at[k + 1] = e.to /\ cost[k + 1] = cost[k] + e.cost

LEMMA Stations ==
  ASSUME NEW m, MapOK(m), NEW a, NEW b, NEW ps, ps \in Seq(DOMAIN m), LeadsTo(m, a, ps, b)
  PROVE  \E at, cost : Stops(m, a, b, Len(ps), RouteOf(m, a, ps).cost, at, cost)
<1>1. PICK n \in Nat : n = Len(ps)
  OBVIOUS
<1>2. PICK at : at = Along(m, a, ps)
  OBVIOUS
<1>3. at[0] = a /\ \A k \in 0..(n - 1) : at[k + 1] = Across(m, ps[k + 1], at[k])
  BY <1>1, <1>2, AlongSteps
<1>4. at[n] = b /\ \A k \in 1..n : at[k] # ""
  <2>1. /\ \A k \in 1..Len(ps) : Along(m, a, ps)[k] # ""
        /\ Along(m, a, ps)[Len(ps)] = b
    BY LeadsToGives
  <2> QED
    BY <1>1, <1>2, <2>1
<1>5. PICK w : w = [j \in 1..n |-> m[ps[j]].cost]
  OBVIOUS
<1>6. \A k \in 1..n : w[k] \in Nat /\ ps[k] \in DOMAIN m /\ w[k] = m[ps[k]].cost
  <2>1. \A k \in 1..n : ps[k] \in DOMAIN m
    BY <1>1, ElementOfSeq
  <2> QED
    BY <1>5, <2>1 DEF MapOK
<1>7. PICK cost : cost = [k \in 0..n |-> Summed(0, w, k)]
  OBVIOUS
<1>8. /\ Summed(0, w, 0) = 0
      /\ \A k \in 0..n : Summed(0, w, k) \in Nat
      /\ \A k \in 0..(n - 1) : Summed(0, w, k + 1) = Summed(0, w, k) + w[k + 1]
  <2>1. \A k \in 1..n : w[k] \in Nat
    BY <1>6
  <2>2. PICK zero \in Nat : zero = 0
    OBVIOUS
  <2>3. /\ Summed(zero, w, 0) = zero
        /\ \A k \in 0..n : Summed(zero, w, k) \in Nat
        /\ \A k \in 0..(n - 1) : Summed(zero, w, k + 1) = Summed(zero, w, k) + w[k + 1]
    BY ONLY <2>1, n \in Nat, zero \in Nat, SummedSteps
  <2> QED
    BY <2>2, <2>3
<1>9. \A k \in 0..n : cost[k] = Summed(0, w, k)
  BY <1>7
<1>10. cost[n] = RouteOf(m, a, ps).cost
  <2>1. RouteOf(m, a, ps).cost = Summed(0, w, n)
    BY <1>1, <1>5, CostMeans
  <2> QED
    BY <1>9, <2>1
<1>11. cost[0] = 0 /\ \A k \in 0..n : cost[k] \in Nat
  BY <1>8, <1>9
<1>12. ASSUME NEW k \in 0..(n - 1)
       PROVE  \E e \in EdgesFrom(m, at[k]) : at[k + 1] = e.to /\ cost[k + 1] = cost[k] + e.cost
  <2>1. k \in 0..n /\ k + 1 \in 0..n /\ k + 1 \in 1..n
    OBVIOUS
  <2>2. PICK p \in DOMAIN m : p = ps[k + 1]
    BY <1>6, <2>1
  <2>3. at[k + 1] = Across(m, p, at[k]) /\ at[k + 1] # "" /\ w[k + 1] = m[p].cost
    BY <1>3, <1>4, <1>6, <2>1, <2>2
  <2>4. PICK e \in EdgesFrom(m, at[k]) : e.to = Across(m, p, at[k]) /\ e.cost = m[p].cost
    BY <2>3, PathIsEdge
  <2>5. cost[k + 1] = cost[k] + e.cost
    BY <1>8, <1>9, <2>1, <2>3, <2>4
  <2> QED
    BY <2>3, <2>4, <2>5
<1>13. Stops(m, a, b, n, RouteOf(m, a, ps).cost, at, cost)
  BY <1>3, <1>4, <1>10, <1>11, <1>12 DEF Stops
<1> QED
  BY <1>1, <1>13

\* A set that becomes a sequence is listed, each member once.
LEMMA SetListed ==
  ASSUME NEW S, IsFiniteSet(S)
  PROVE  /\ SetToSeq(S) \in Seq(S)
         /\ Len(SetToSeq(S)) = Cardinality(S)
         /\ \A x \in S : \E k \in 1..Cardinality(S) : SetToSeq(S)[k] = x
<1>1. PICK n \in Nat : n = Cardinality(S)
  BY FS_CardinalityType
<1>2. PICK t : t = SetToSeq(S)
  OBVIOUS
<1>3. t \in [1..n -> S] /\ IsInjective(t)
  <2>1. \E f \in [1..n -> S] : IsInjective(f)
    <3>1. ExistsBijection(1..n, S)
      BY <1>1, FS_CardinalityType
    <3> QED
      BY <3>1 DEF ExistsBijection, Bijection, Injection
  <2> QED
    BY <1>1, <1>2, <2>1 DEF SetToSeq
<1>4. t \in Injection(1..n, S)
  BY <1>3 DEF Injection
<1>5. Cardinality(1..n) = n
  BY FS_Interval
<1>6. t \in Surjection(1..n, S)
  BY <1>1, <1>4, <1>5, FS_Injection
<1>7. \A x \in S : \E k \in 1..n : t[k] = x
  BY <1>6 DEF Surjection
<1>8. t \in Seq(S) /\ Len(t) = n
  BY <1>3
<1> QED
  BY <1>1, <1>2, <1>7, <1>8

-----------------------------------------------------------------------------
(* Hops *)

\* What the loop of Hops keeps true: the regions D that it has a distance for
\* are reached by that many paths, and the neighbours of those it has visited
\* have one that is at most one more.  The distances in the queue never fall,
\* and none is more than one ahead of the queue.
HopInv(m, a, D, dist, queue) ==
  /\ a \in D /\ D \subseteq Regions(m) \cup {a} /\ dist[a] = 0
  /\ \A x \in D : dist[x] \in Nat /\ dist[x] < Cardinality(D)
  /\ \A x \in D : \E c : Reached(m, a, x, dist[x], c)
  /\ queue \in Seq(D)
  /\ \A x \in D : x \in Range(queue) \/
       \A e \in EdgesFrom(m, x) : e.to \in D /\ dist[e.to] <= dist[x] + 1
  /\ \A i, j \in 1..Len(queue) : i <= j => dist[queue[i]] <= dist[queue[j]]
  /\ \A x \in D : \A i \in 1..Len(queue) : dist[x] <= dist[queue[i]] + 1

LEMMA HopInvStarts ==
  ASSUME NEW m, NEW a, NEW dist, dist[a] = 0, NEW queue, queue = <<a>>
  PROVE  HopInv(m, a, {a}, dist, queue)
<1>1. Cardinality({a}) = 1
  BY FS_Singleton
<1>2. Len(queue) = 1 /\ queue[1] = a /\ queue \in Seq({a})
  OBVIOUS
<1>3. a \in Range(queue)
  BY <1>2 DEF Range
<1>4. Reached(m, a, a, 0, 0)
  BY NoPaths
<1>5. \A i \in 1..Len(queue) : queue[i] = a
  BY <1>2
<1> QED
  BY <1>1, <1>2, <1>3, <1>4, <1>5 DEF HopInv

\* The next queue: what was behind the head, then the new regions.
Moves(D, F, q, nq, l, p) ==
  /\ nq \in Seq(D \cup F) /\ Len(nq) = (l - 1) + p /\ l \in Nat \ {0} /\ p \in Nat
  /\ \A i \in 1..(l - 1) : nq[i] = q[i + 1]
  /\ \A i \in l..((l - 1) + p) : nq[i] \in F
  /\ \A x \in F : x \in Range(nq)
  /\ \A x \in Range(q) : x = q[1] \/ x \in Range(nq)
  /\ \A i \in 1..l : q[i] \in D
  /\ q[1] = Head(q)

LEMMA QueueMoves ==
  ASSUME NEW D, NEW q, q \in Seq(D), q # <<>>, NEW F, IsFiniteSet(F)
  PROVE  Moves(D, F, q, Tail(q) \o SetToSeq(F), Len(q), Cardinality(F))
<1>1. PICK l \in Nat \ {0} : l = Len(q)
  BY EmptySeq
<1>2. PICK p \in Nat : p = Cardinality(F)
  BY FS_CardinalityType
<1>3. PICK t : t = SetToSeq(F)
  OBVIOUS
<1>4. PICK s : s = Tail(q)
  OBVIOUS
<1>5. t \in Seq(F) /\ Len(t) = p /\ \A x \in F : \E k \in 1..p : t[k] = x
  BY <1>2, <1>3, SetListed
<1>6. s \in Seq(D) /\ Len(s) = l - 1 /\ \A i \in 1..(l - 1) : s[i] = q[i + 1]
  <2>1. /\ Tail(q) \in Seq(D) /\ Len(Tail(q)) = Len(q) - 1
        /\ \A i \in 1..Len(Tail(q)) : Tail(q)[i] = q[i + 1]
    BY HeadTailProperties
  <2> QED
    BY <1>1, <1>4, <2>1
<1>7. PICK E : E = D \cup F
  OBVIOUS
<1>8. s \in Seq(E) /\ t \in Seq(E)
  BY <1>5, <1>6, <1>7
<1>9. PICK nq : nq = s \o t
  OBVIOUS
<1>10. /\ nq \in Seq(E) /\ Len(nq) = (l - 1) + p
       /\ \A i \in 1..((l - 1) + p) : nq[i] = IF i <= l - 1 THEN s[i] ELSE t[i - (l - 1)]
  <2>1. /\ s \o t \in Seq(E) /\ Len(s \o t) = Len(s) + Len(t)
        /\ \A i \in 1..(Len(s) + Len(t)) :
             (s \o t)[i] = IF i <= Len(s) THEN s[i] ELSE t[i - Len(s)]
    BY ONLY <1>8, ConcatProperties
  <2>2. Len(s) = l - 1 /\ Len(t) = p
    BY <1>5, <1>6
  <2> QED
    BY ONLY <1>9, <2>1, <2>2
<1>11. \A i \in 1..(l - 1) : nq[i] = q[i + 1]
  <2>1. \A i \in 1..(l - 1) : i \in 1..((l - 1) + p) /\ i <= l - 1
    OBVIOUS
  <2> QED
    BY <1>6, <1>10, <2>1
<1>12. \A i \in l..((l - 1) + p) : nq[i] \in F
  <2>1. \A i \in l..((l - 1) + p) : i \in 1..((l - 1) + p) /\ ~(i <= l - 1) /\ i - (l - 1) \in 1..p
    OBVIOUS
  <2>2. \A i \in 1..p : t[i] \in F
    BY <1>5, ElementOfSeq
  <2> QED
    BY <1>10, <2>1, <2>2
<1>13. DOMAIN nq = 1..((l - 1) + p)
  BY <1>10, LenProperties
<1>14. ASSUME NEW x \in F PROVE x \in Range(nq)
  <2>1. PICK k \in 1..p : t[k] = x
    BY <1>5
  <2>2. k + (l - 1) \in 1..((l - 1) + p) /\ ~(k + (l - 1) <= l - 1) /\ (k + (l - 1)) - (l - 1) = k
    OBVIOUS
  <2>3. nq[k + (l - 1)] = x
    BY <1>10, <2>1, <2>2
  <2> QED
    BY <1>13, <2>2, <2>3 DEF Range
<1>15. ASSUME NEW x \in Range(q) PROVE x = q[1] \/ x \in Range(nq)
  <2>1. PICK k \in 1..l : q[k] = x
    BY <1>1, LenProperties DEF Range
  <2>2. CASE k = 1
    BY <2>1, <2>2
  <2>3. CASE k # 1
    <3>1. k - 1 \in 1..(l - 1) /\ k - 1 \in 1..((l - 1) + p) /\ (k - 1) + 1 = k
      BY <2>3
    <3>2. nq[k - 1] = x
      BY <1>11, <2>1, <3>1
    <3> QED
      BY <1>13, <3>1, <3>2 DEF Range
  <2> QED
    BY <2>2, <2>3
<1>16. \A i \in 1..l : q[i] \in D
  BY <1>1, ElementOfSeq
<1>17. q[1] = Head(q)
  OBVIOUS
<1>18. Moves(D, F, q, nq, l, p)
  BY ONLY <1>1, <1>2, <1>7, <1>10, <1>11, <1>12, <1>14, <1>15, <1>16, <1>17 DEF Moves
<1> QED
  BY ONLY <1>1, <1>2, <1>3, <1>4, <1>9, <1>18

Fresh(m, r, D) == {e.to : e \in EdgesFrom(m, r)} \ D

LEMMA HopStep ==
  ASSUME NEW m, MapOK(m), NEW a, NEW D, NEW dist, NEW queue,
         HopInv(m, a, D, dist, queue), queue # <<>>,
         NEW F, F = Fresh(m, Head(queue), D),
         NEW nd, \A x \in D : nd[x] = dist[x], \A x \in F : nd[x] = dist[Head(queue)] + 1
  PROVE  /\ HopInv(m, a, D \cup F, nd, Tail(queue) \o SetToSeq(F))
         /\ IsFiniteSet(D) /\ IsFiniteSet(F)
         /\ Len(Tail(queue) \o SetToSeq(F)) = (Len(queue) - 1) + Cardinality(F)
         /\ Cardinality(D \cup F) = Cardinality(D) + Cardinality(F)
<1>1. PICK cur : cur = Head(queue) /\ F = {e.to : e \in EdgesFrom(m, cur)} \ D
  BY DEF Fresh
<1>2. PICK nq : nq = Tail(queue) \o SetToSeq(F)
  OBVIOUS
<1>3. \A e \in EdgesFrom(m, cur) : e.to \in Regions(m)
  BY EdgeIsPath
<1>4. IsFiniteSet(D) /\ IsFiniteSet(F) /\ F \subseteq Regions(m)
  <2>1. IsFiniteSet(Regions(m))
    BY EdgesFinite
  <2>2. IsFiniteSet(Regions(m) \cup {a})
    BY <2>1, FS_AddElement
  <2>3. D \subseteq Regions(m) \cup {a} /\ F \subseteq Regions(m)
    BY <1>1, <1>3 DEF HopInv
  <2> QED
    BY <2>1, <2>2, <2>3, FS_Subset
<1>5. PICK l \in Nat \ {0}, p \in Nat :
        /\ l = Len(queue) /\ p = Cardinality(F)
        /\ nq \in Seq(D \cup F) /\ Len(nq) = (l - 1) + p
        /\ \A i \in 1..(l - 1) : nq[i] = queue[i + 1]
        /\ \A i \in l..((l - 1) + p) : nq[i] \in F
        /\ \A x \in F : x \in Range(nq)
        /\ \A x \in Range(queue) : x = cur \/ x \in Range(nq)
        /\ \A i \in 1..l : queue[i] \in D
        /\ queue[1] = cur
  <2>1. queue \in Seq(D)
    BY DEF HopInv
  <2>2. PICK l : l = Len(queue)
    OBVIOUS
  <2>3. PICK p : p = Cardinality(F)
    OBVIOUS
  <2>4. IsFiniteSet(F) /\ queue # <<>>
    BY <1>4
  <2>5. Moves(D, F, queue, nq, l, p)
    BY ONLY <1>2, <2>1, <2>2, <2>3, <2>4, QueueMoves
  <2> QED
    BY ONLY <1>1, <2>2, <2>3, <2>5 DEF Moves
<1>6. PICK n \in Nat : n = Cardinality(D)
  BY <1>4, FS_CardinalityType
<1>7. Cardinality(D \cup F) = n + p /\ D \cap F = {}
  <2>1. D \cap F = {}
    BY <1>1
  <2>2. Cardinality(D \cup F) = Cardinality(D) + Cardinality(F) - Cardinality({})
    BY <1>4, <2>1, FS_Union
  <2> QED
    BY <1>5, <1>6, <2>1, <2>2, FS_EmptySet
<1>8. \A x \in D : dist[x] \in Nat /\ dist[x] < n
  BY <1>6 DEF HopInv
<1>9. cur \in D /\ \A x \in F : nd[x] = dist[cur] + 1 /\ x \notin D
  BY <1>1, <1>5
<1>10. a \in D /\ nd[a] = 0 /\ D \cup F \subseteq Regions(m) \cup {a}
  BY <1>4 DEF HopInv
<1>11. \A x \in D \cup F : nd[x] \in Nat /\ nd[x] < n + p
  <2>1. ASSUME NEW x \in D PROVE nd[x] \in Nat /\ nd[x] < n + p
    BY <1>8
  <2>2. ASSUME NEW x \in F PROVE nd[x] \in Nat /\ nd[x] < n + p
    <3>1. p # 0
      BY <1>4, <1>5, FS_EmptySet
    <3>2. dist[cur] \in Nat /\ dist[cur] < n
      BY <1>8, <1>9
    <3>3. nd[x] = dist[cur] + 1
      BY <1>9
    <3> QED
      BY <3>1, <3>2, <3>3
  <2> QED
    BY <2>1, <2>2
<1>12. \A x \in D \cup F : \E c : Reached(m, a, x, nd[x], c)
  <2>1. \A x \in D : \E c : Reached(m, a, x, dist[x], c)
    BY DEF HopInv
  <2>2. ASSUME NEW x \in F PROVE \E c : Reached(m, a, x, nd[x], c)
    <3>1. PICK e \in EdgesFrom(m, cur) : e.to = x
      BY <1>1
    <3>2. PICK d : d = dist[cur]
      OBVIOUS
    <3>3. PICK c : Reached(m, a, cur, d, c)
      BY <1>9, <2>1, <3>2
    <3>4. Reached(m, a, e.to, d + 1, c + e.cost)
      BY ONLY MapOK(m), <3>3, e \in EdgesFrom(m, cur), OneMore
    <3> QED
      BY <1>9, <3>1, <3>2, <3>4
  <2> QED
    BY <2>1, <2>2
<1>13. \A x \in D : \A i \in 1..l : dist[x] <= dist[queue[i]] + 1
  BY <1>5 DEF HopInv
<1>14. \A i, j \in 1..l : i <= j => dist[queue[i]] <= dist[queue[j]]
  BY <1>5 DEF HopInv
<1>15. 1 \in 1..l /\ \A x \in D : dist[x] <= dist[cur] + 1
  BY <1>5, <1>13
<1>16. \A x \in D \cup F : x \in Range(nq) \/
          \A e \in EdgesFrom(m, x) : e.to \in D \cup F /\ nd[e.to] <= nd[x] + 1
  <2> SUFFICES ASSUME NEW x \in D \cup F, x \notin Range(nq)
               PROVE  \A e \in EdgesFrom(m, x) : e.to \in D \cup F /\ nd[e.to] <= nd[x] + 1
    OBVIOUS
  <2>1. x \in D
    BY <1>5
  <2>2. CASE x = cur
    <3> SUFFICES ASSUME NEW e \in EdgesFrom(m, cur)
                 PROVE  e.to \in D \cup F /\ nd[e.to] <= nd[cur] + 1
      BY <2>2
    <3>1. CASE e.to \in D
      BY <1>9, <1>15, <3>1
    <3>2. CASE e.to \notin D
      <4>1. e.to \in F
        BY <1>1, <3>2
      <4>2. nd[e.to] = nd[cur] + 1 /\ nd[cur] \in Nat
        BY <1>8, <1>9, <4>1
      <4> QED
        BY <4>1, <4>2
    <3> QED
      BY <3>1, <3>2
  <2>3. CASE x # cur
    <3>1. x \notin Range(queue)
      BY <1>5, <2>3
    <3>2. \A e \in EdgesFrom(m, x) : e.to \in D /\ dist[e.to] <= dist[x] + 1
      BY <2>1, <3>1 DEF HopInv
    <3> QED
      BY <2>1, <3>2
  <2> QED
    BY <2>2, <2>3
\* What an entry of the new queue is.
<1>17. \A i \in 1..((l - 1) + p) :
          \/ i \in 1..(l - 1) /\ i + 1 \in 1..l /\ nq[i] = queue[i + 1] /\ nq[i] \in D
             /\ nd[nq[i]] = dist[queue[i + 1]]
          \/ ~(i \in 1..(l - 1)) /\ nq[i] \in F /\ nd[nq[i]] = dist[cur] + 1
  <2> SUFFICES ASSUME NEW i \in 1..((l - 1) + p)
               PROVE  \/ i \in 1..(l - 1) /\ i + 1 \in 1..l /\ nq[i] = queue[i + 1] /\ nq[i] \in D
                         /\ nd[nq[i]] = dist[queue[i + 1]]
                      \/ ~(i \in 1..(l - 1)) /\ nq[i] \in F /\ nd[nq[i]] = dist[cur] + 1
    OBVIOUS
  <2>1. CASE i \in 1..(l - 1)
    <3>1. i + 1 \in 1..l
      BY <2>1
    <3>2. nq[i] = queue[i + 1] /\ queue[i + 1] \in D
      BY <1>5, <2>1, <3>1
    <3> QED
      BY <2>1, <3>1, <3>2
  <2>2. CASE ~(i \in 1..(l - 1))
    <3>1. i \in l..((l - 1) + p)
      BY <2>2
    <3>2. nq[i] \in F
      BY <1>5, <3>1
    <3> QED
      BY <1>9, <2>2, <3>2
  <2> QED
    BY <2>1, <2>2
<1>18. \A i, j \in 1..((l - 1) + p) : i <= j => nd[nq[i]] <= nd[nq[j]]
  <2> SUFFICES ASSUME NEW i \in 1..((l - 1) + p), NEW j \in 1..((l - 1) + p), i <= j
               PROVE  nd[nq[i]] <= nd[nq[j]]
    OBVIOUS
  <2>1. CASE j \in 1..(l - 1)
    <3>1. i \in 1..(l - 1) /\ i + 1 \in 1..l /\ j + 1 \in 1..l /\ i + 1 <= j + 1
      BY <2>1
    <3>2. dist[queue[i + 1]] <= dist[queue[j + 1]]
      BY <1>14, <3>1
    <3>3. nd[nq[i]] = dist[queue[i + 1]] /\ nd[nq[j]] = dist[queue[j + 1]]
      BY <1>17, <2>1, <3>1
    <3> QED
      BY <3>2, <3>3
  <2>2. CASE ~(j \in 1..(l - 1)) /\ i \in 1..(l - 1)
    <3>1. nd[nq[j]] = dist[cur] + 1
      BY <1>17, <2>2
    <3>2. nd[nq[i]] = dist[queue[i + 1]] /\ i + 1 \in 1..l
      BY <1>17, <2>2
    <3>3. queue[i + 1] \in D
      BY <1>5, <3>2
    <3>4. dist[queue[i + 1]] <= dist[cur] + 1
      BY <1>15, <3>3
    <3> QED
      BY <3>1, <3>2, <3>4
  <2>3. CASE ~(j \in 1..(l - 1)) /\ ~(i \in 1..(l - 1))
    <3>1. nd[nq[j]] = dist[cur] + 1 /\ nd[nq[i]] = dist[cur] + 1
      BY <1>17, <2>3
    <3>2. dist[cur] \in Nat
      BY <1>8, <1>9
    <3> QED
      BY <3>1, <3>2
  <2> QED
    BY <2>1, <2>2, <2>3
<1>19. \A x \in D \cup F : \A i \in 1..((l - 1) + p) : nd[x] <= nd[nq[i]] + 1
  <2> SUFFICES ASSUME NEW x \in D \cup F, NEW i \in 1..((l - 1) + p)
               PROVE  nd[x] <= nd[nq[i]] + 1
    OBVIOUS
  <2>1. dist[cur] \in Nat
    BY <1>8, <1>9
  <2>2. nd[x] \in Nat /\ nd[x] <= dist[cur] + 1 /\ (x \in D => nd[x] = dist[x])
    <3>1. CASE x \in D
      <4>1. nd[x] = dist[x] /\ dist[x] \in Nat /\ dist[x] <= dist[cur] + 1
        BY <1>8, <1>15, <3>1
      <4> QED
        BY <4>1
    <3>2. CASE x \in F
      BY <1>9, <2>1, <3>2
    <3> QED
      BY <3>1, <3>2
  <2>3. CASE i \in 1..(l - 1)
    <3>1. nd[nq[i]] = dist[queue[i + 1]] /\ i + 1 \in 1..l /\ 1 \in 1..l /\ 1 <= i + 1
      BY <1>17, <2>3
    <3>2. dist[queue[1]] <= dist[queue[i + 1]]
      BY <1>14, <3>1
    <3>3. queue[i + 1] \in D
      BY <1>5, <3>1
    <3>4. dist[cur] <= dist[queue[i + 1]] /\ dist[queue[i + 1]] \in Nat
      BY <1>5, <1>8, <3>2, <3>3
    <3> QED
      BY <2>1, <2>2, <3>1, <3>4
  <2>4. CASE ~(i \in 1..(l - 1))
    <3>1. nd[nq[i]] = dist[cur] + 1
      BY <1>17, <2>4
    <3> QED
      BY <2>1, <2>2, <3>1
  <2> QED
    BY <2>3, <2>4
<1>20. HopInv(m, a, D \cup F, nd, nq)
  <2>1. Len(nq) = (l - 1) + p /\ nq \in Seq(D \cup F) /\ Cardinality(D \cup F) = n + p /\ a \in D \cup F
    BY <1>5, <1>7, <1>10
  <2> QED
    BY ONLY <1>10, <1>11, <1>12, <1>16, <1>18, <1>19, <2>1 DEF HopInv
<1> QED
  BY <1>2, <1>4, <1>5, <1>6, <1>7, <1>20

\* The states of the loop.
HopStates(m, a) ==
  {s \in [dist : UNION {[D -> Nat] : D \in SUBSET (Regions(m) \cup {a})},
          queue : Seq(Regions(m) \cup {a})] :
     HopInv(m, a, DOMAIN s.dist, s.dist, s.queue)}

HopsEnd(b, s) == s.queue = <<>> \/ b \in DOMAIN s.dist

LEMMA HopStarts ==
  ASSUME NEW m, NEW a
  PROVE  [dist |-> [r \in {a} |-> 0], queue |-> <<a>>] \in HopStates(m, a)
<1>1. PICK dist : dist = [r \in {a} |-> 0]
  OBVIOUS
<1>2. PICK queue : queue = <<a>>
  OBVIOUS
<1>3. PICK s : s = [dist |-> dist, queue |-> queue]
  OBVIOUS
<1>4. dist[a] = 0 /\ DOMAIN dist = {a} /\ dist \in [{a} -> Nat]
  BY <1>1
<1>5. HopInv(m, a, {a}, dist, queue)
  BY ONLY <1>2, <1>4, HopInvStarts
<1>6. PICK R : R = Regions(m) \cup {a}
  OBVIOUS
<1>7. queue \in Seq(R) /\ {a} \in SUBSET R
  BY <1>2, <1>6
<1>8. s \in [dist : UNION {[D -> Nat] : D \in SUBSET R}, queue : Seq(R)]
  BY <1>3, <1>4, <1>7
<1>9. HopInv(m, a, DOMAIN s.dist, s.dist, s.queue)
  BY <1>3, <1>4, <1>5
<1> QED
  BY <1>1, <1>2, <1>3, <1>6, <1>8, <1>9 DEF HopStates

\* A turn keeps to the states, and uses up what it has to: a turn that does not
\* end takes one region from the queue, and puts those there that are new.
LEMMA VisitStays ==
  ASSUME NEW m, MapOK(m), NEW a, NEW b, NEW s, s \in HopStates(m, a)
  PROVE  /\ Visit(m, b, s) \in HopStates(m, a)
         /\ HopsEnd(b, s) => Visit(m, b, s) = s
         /\ ~HopsEnd(b, s) =>
              Cardinality(DOMAIN Visit(m, b, s).dist) - Len(Visit(m, b, s).queue)
                = Cardinality(DOMAIN s.dist) - Len(s.queue) + 1
<1>1. CASE HopsEnd(b, s)
  BY <1>1 DEF HopsEnd, Visit
<1>2. CASE ~HopsEnd(b, s)
  <2>1. PICK R : R = Regions(m) \cup {a}
    OBVIOUS
  <2>2. PICK D : D = DOMAIN s.dist
    OBVIOUS
  <2>3. PICK dist : dist = s.dist
    OBVIOUS
  <2>4. PICK queue : queue = s.queue
    OBVIOUS
  <2>5. /\ s \in [dist : UNION {[X -> Nat] : X \in SUBSET R}, queue : Seq(R)]
        /\ HopInv(m, a, D, dist, queue)
    BY <2>1, <2>2, <2>3, <2>4 DEF HopStates
  <2>6. queue # <<>> /\ b \notin D
    BY <1>2, <2>2, <2>4 DEF HopsEnd
  <2>7. PICK F : F = Fresh(m, Head(queue), D)
    OBVIOUS
  <2>8. PICK nd : nd = [r \in D \cup F |-> IF r \in D THEN dist[r] ELSE dist[Head(queue)] + 1]
    OBVIOUS
  <2>9. PICK nq : nq = Tail(queue) \o SetToSeq(F)
    OBVIOUS
  <2>10. PICK v : v = [dist |-> nd, queue |-> nq]
    OBVIOUS
  <2>11. Visit(m, b, s) = v
    BY ONLY <2>2, <2>3, <2>4, <2>6, <2>7, <2>8, <2>9, <2>10 DEF Visit, Fresh
  <2>12. /\ \A x \in D : nd[x] = dist[x]
         /\ \A x \in F : nd[x] = dist[Head(queue)] + 1
         /\ DOMAIN nd = D \cup F
    <3>1. \A x \in F : x \notin D
      BY <2>7 DEF Fresh
    <3> QED
      BY <2>8, <3>1
  <2>13. /\ HopInv(m, a, D \cup F, nd, nq)
         /\ IsFiniteSet(D) /\ IsFiniteSet(F)
         /\ Len(nq) = (Len(queue) - 1) + Cardinality(F)
         /\ Cardinality(D \cup F) = Cardinality(D) + Cardinality(F)
    <3>1. HopInv(m, a, D, dist, queue)
      BY <2>5
    <3>2. queue # <<>>
      BY <2>6
    <3>3. \A x \in D : nd[x] = dist[x]
      BY <2>12
    <3>4. \A x \in F : nd[x] = dist[Head(queue)] + 1
      BY <2>12
    <3>5. /\ HopInv(m, a, D \cup F, nd, Tail(queue) \o SetToSeq(F))
          /\ IsFiniteSet(D) /\ IsFiniteSet(F)
          /\ Len(Tail(queue) \o SetToSeq(F)) = (Len(queue) - 1) + Cardinality(F)
          /\ Cardinality(D \cup F) = Cardinality(D) + Cardinality(F)
      BY ONLY MapOK(m), <2>7, <3>1, <3>2, <3>3, <3>4, HopStep
    <3> QED
      BY ONLY <2>9, <3>5
  <2>14. v \in HopStates(m, a)
    <3>1. D \cup F \in SUBSET R /\ nq \in Seq(D \cup F) /\ \A x \in D \cup F : nd[x] \in Nat
      BY ONLY <2>1, <2>13 DEF HopInv
    <3>2. nd \in [D \cup F -> Nat]
      BY ONLY <2>8, <3>1
    <3>3. nq \in Seq(R)
      BY ONLY <3>1
    <3>4. v \in [dist : UNION {[X -> Nat] : X \in SUBSET R}, queue : Seq(R)]
      BY ONLY <2>10, <3>1, <3>2, <3>3
    <3>5. HopInv(m, a, DOMAIN v.dist, v.dist, v.queue)
      BY ONLY <2>10, <2>12, <2>13
    <3> QED
      BY ONLY <2>1, <3>4, <3>5 DEF HopStates
  <2>15. Cardinality(DOMAIN v.dist) - Len(v.queue) = Cardinality(DOMAIN s.dist) - Len(s.queue) + 1
    <3>1. PICK n \in Nat : n = Cardinality(D)
      BY <2>13, FS_CardinalityType
    <3>2. PICK p \in Nat : p = Cardinality(F)
      BY <2>13, FS_CardinalityType
    <3>3. PICK l \in Nat : l = Len(queue)
      <4>1. queue \in Seq(D)
        BY <2>5 DEF HopInv
      <4> QED
        BY <4>1, LenProperties
    <3>4. Cardinality(DOMAIN v.dist) = n + p /\ Len(v.queue) = (l - 1) + p
      BY <2>10, <2>12, <2>13, <3>1, <3>2, <3>3
    <3>5. Cardinality(DOMAIN s.dist) = n /\ Len(s.queue) = l
      BY <2>2, <2>4, <3>1, <3>3
    <3> QED
      BY ONLY <3>4, <3>5, n \in Nat, p \in Nat, l \in Nat
  <2> QED
    BY <1>2, <2>11, <2>14, <2>15
<1> QED
  BY <1>1, <1>2

\* What the loop has done when it is over: it ended, by its own condition.
LEMMA HopsLoop ==
  ASSUME NEW m, MapOK(m), NEW a, NEW b
  PROVE  \E s \in HopStates(m, a) :
           /\ HopsEnd(b, s)
           /\ Hops(m, a, b) = IF b \in DOMAIN s.dist THEN s.dist[b] ELSE Unreachable
<1>1. PICK R : R = Regions(m) \cup {a}
  OBVIOUS
<1>2. PICK n \in Nat : n = Visits(m, a) /\ n = Cardinality(R)
  <2>1. IsFiniteSet(R)
    BY <1>1, EdgesFinite, FS_AddElement
  <2> QED
    BY <1>1, <2>1, FS_CardinalityType DEF Visits
<1>3. PICK start : start = [dist |-> [r \in {a} |-> 0], queue |-> <<a>>]
  OBVIOUS
<1>4. PICK V : V = HopStates(m, a)
  OBVIOUS
<1>5. start \in V
  BY <1>3, <1>4, HopStarts
<1>6. \A s \in V : Visit(m, b, s) \in V
  BY <1>4, VisitStays
<1> DEFINE turn == [k \in 1..n |-> [s \in V |-> Visit(m, b, s)]]
           loops(f) == f = [k \in 0..n |-> IF k = 0 THEN start ELSE Visit(m, b, f[k - 1])]
<1>7. \E f : loops(f) /\ \A k \in 0..n : f[k] \in V
  <2>1. turn \in [1..n -> [V -> V]]
    BY <1>6
  <2>2. \A k \in 1..n : \A s \in V : turn[k][s] = Visit(m, b, s)
    OBVIOUS
  <2> HIDE DEF turn
  <2>3. PICK g : Runs(g, n, V, start, turn)
    BY <1>5, <2>1, Iterates
  <2>4. \A k \in 1..n : k - 1 \in 0..n /\ g[k] = Visit(m, b, g[k - 1])
    <3>1. \A k \in 1..n : k - 1 \in 0..n
      OBVIOUS
    <3>2. \A k \in 1..n : g[k] = turn[k][g[k - 1]] /\ g[k - 1] \in V
      BY <2>3, <3>1 DEF Runs
    <3> QED
      BY <2>2, <3>1, <3>2
  <2>5. \A k \in 0..n : g[k] = IF k = 0 THEN start ELSE Visit(m, b, g[k - 1])
    <3>1. \A k \in 0..n : k = 0 \/ k \in 1..n
      OBVIOUS
    <3> QED
      BY <2>3, <2>4, <3>1 DEF Runs
  <2>6. loops(g) /\ \A k \in 0..n : g[k] \in V
    BY <2>3, <2>5 DEF Runs
  <2> QED
    BY <2>6
<1>8. Hops(m, a, b) =
        LET dist == (CHOOSE f : loops(f))[n].dist
        IN IF b \in DOMAIN dist THEN dist[b] ELSE Unreachable
  BY <1>2, <1>3 DEF Hops
<1> HIDE DEF loops
<1>9. PICK f : f = (CHOOSE g : loops(g)) /\ loops(f) /\ \A k \in 0..n : f[k] \in V
  <2>1. \A g, h : loops(g) /\ loops(h) => g = h
    <3> SUFFICES ASSUME NEW g, loops(g), NEW h, loops(h) PROVE g = h
      OBVIOUS
    <3> DEFINE T == {k \in 0..n : g[k] = h[k]}
    <3>1. /\ \A k \in 0..n : g[k] = IF k = 0 THEN start ELSE Visit(m, b, g[k - 1])
          /\ \A k \in 0..n : h[k] = IF k = 0 THEN start ELSE Visit(m, b, h[k - 1])
      BY DEF loops
    <3>2. 0 \in T
      BY <3>1
    <3>3. \A k \in 0..(n - 1) : k \in T => k + 1 \in T
      <4>1. \A k \in 0..(n - 1) : k + 1 \in 0..n /\ k + 1 # 0 /\ (k + 1) - 1 = k
        OBVIOUS
      <4> QED
        BY <3>1, <4>1
    <3> HIDE DEF T
    <3>4. \A k \in 0..n : k \in T
      BY <3>2, <3>3, Spreads
    <3>5. \A k \in 0..n : g[k] = h[k]
      BY <3>4 DEF T
    <3>6. DOMAIN g = 0..n /\ DOMAIN h = 0..n /\ g = [k \in 0..n |-> g[k]] /\ h = [k \in 0..n |-> h[k]]
      BY DEF loops
    <3> QED
      BY <3>5, <3>6
  <2> QED
    BY <1>7, <2>1
<1>10. f[0] = start /\ \A k \in 0..(n - 1) : f[k + 1] = Visit(m, b, f[k])
  <2>1. \A k \in 0..n : f[k] = IF k = 0 THEN start ELSE Visit(m, b, f[k - 1])
    BY <1>9 DEF loops
  <2>2. 0 \in 0..n /\ \A k \in 0..(n - 1) : k + 1 \in 0..n /\ k + 1 # 0 /\ (k + 1) - 1 = k
    OBVIOUS
  <2> QED
    BY <2>1, <2>2
<1> DEFINE card(s) == Cardinality(DOMAIN s.dist)
           T == {k \in 0..n : HopsEnd(b, f[k]) \/ k <= card(f[k]) - Len(f[k].queue)}
<1>11. \A s \in V : card(s) \in 0..n /\ Len(s.queue) \in Nat /\ (Len(s.queue) = 0 => s.queue = <<>>)
  <2> SUFFICES ASSUME NEW s \in V
               PROVE  card(s) \in 0..n /\ Len(s.queue) \in Nat /\ (Len(s.queue) = 0 => s.queue = <<>>)
    OBVIOUS
  <2>1. HopInv(m, a, DOMAIN s.dist, s.dist, s.queue)
    BY <1>4 DEF HopStates
  <2>2. s.queue \in Seq(DOMAIN s.dist) /\ DOMAIN s.dist \subseteq R
    BY <1>1, <2>1 DEF HopInv
  <2>3. PICK D : D = DOMAIN s.dist
    OBVIOUS
  <2>4. Len(s.queue) \in Nat /\ (Len(s.queue) = 0 => s.queue = <<>>)
    BY ONLY <2>2, <2>3, EmptySeq, LenProperties
  <2>5. Cardinality(D) \in 0..n
    <3>1. IsFiniteSet(R)
      BY <1>1, EdgesFinite, FS_AddElement
    <3>2. IsFiniteSet(D) /\ Cardinality(D) <= Cardinality(R)
      BY <2>2, <2>3, <3>1, FS_Subset
    <3> QED
      BY <1>2, <3>2, FS_CardinalityType
  <2> QED
    BY <2>3, <2>4, <2>5
<1>12. \A k \in 0..n : k \in T
  <2>1. 0 \in T
    <3>1. card(start) = 1
      <4>1. DOMAIN start.dist = {a}
        BY <1>3
      <4> QED
        BY <4>1, FS_Singleton
    <3>2. Len(start.queue) = 1
      BY <1>3
    <3>3. 0 <= card(f[0]) - Len(f[0].queue)
      BY <1>10, <3>1, <3>2
    <3> QED
      BY <3>3
  <2>2. \A k \in 0..(n - 1) : k \in T => k + 1 \in T
    <3> SUFFICES ASSUME NEW k \in 0..(n - 1), k \in T PROVE k + 1 \in T
      OBVIOUS
    <3>1. k \in 0..n /\ k + 1 \in 0..n /\ f[k] \in V /\ f[k + 1] = Visit(m, b, f[k]) /\ f[k + 1] \in V
      BY <1>9, <1>10
    <3>2. CASE HopsEnd(b, f[k])
      <4>1. f[k + 1] = f[k]
        BY <1>4, <3>1, <3>2, VisitStays
      <4> QED
        BY <3>1, <3>2, <4>1
    <3>3. CASE ~HopsEnd(b, f[k])
      <4>1. card(f[k + 1]) - Len(f[k + 1].queue) = card(f[k]) - Len(f[k].queue) + 1
        BY <1>4, <3>1, <3>3, VisitStays
      <4>2. k <= card(f[k]) - Len(f[k].queue)
        BY <3>3
      <4>3. card(f[k]) \in Int /\ Len(f[k].queue) \in Int
        BY <1>11, <3>1
      <4>4. k + 1 <= card(f[k + 1]) - Len(f[k + 1].queue)
        BY <4>1, <4>2, <4>3
      <4> QED
        BY <3>1, <4>4
    <3> QED
      BY <3>2, <3>3
  <2> HIDE DEF T
  <2> QED
    BY <2>1, <2>2, Spreads
<1>13. HopsEnd(b, f[n])
  <2>1. n \in 0..n
    OBVIOUS
  <2>2. HopsEnd(b, f[n]) \/ n <= card(f[n]) - Len(f[n].queue)
    BY <1>12, <2>1
  <2>3. card(f[n]) \in 0..n /\ Len(f[n].queue) \in Nat /\ (Len(f[n].queue) = 0 => f[n].queue = <<>>)
    BY <1>9, <1>11, <2>1
  <2> QED
    BY <2>2, <2>3 DEF HopsEnd
<1>14. f[n] \in HopStates(m, a)
  BY <1>4, <1>9
<1>15. PICK s : s = f[n]
  OBVIOUS
<1>16. Hops(m, a, b) = IF b \in DOMAIN s.dist THEN s.dist[b] ELSE Unreachable
  BY ONLY <1>8, <1>9, <1>15
<1> QED
  BY <1>13, <1>14, <1>15, <1>16

\* No route gets to b in fewer paths than the loop gives it, and none at all if
\* the loop ends without having seen it.
LEMMA HopsBound ==
  ASSUME NEW m, MapOK(m), NEW a, NEW b, NEW D, NEW dist, NEW queue,
         HopInv(m, a, D, dist, queue), queue = <<>> \/ b \in D,
         NEW ps, ps \in Seq(DOMAIN m), LeadsTo(m, a, ps, b)
  PROVE  b \in D /\ dist[b] <= Len(ps)
<1>1. PICK n : n \in Nat /\ n = Len(ps)
  BY LenProperties
<1>2. PICK at, cost : Stops(m, a, b, n, RouteOf(m, a, ps).cost, at, cost)
  BY ONLY <1>1, MapOK(m), ps \in Seq(DOMAIN m), LeadsTo(m, a, ps, b), Stations
<1>3. /\ at[0] = a /\ at[n] = b
      /\ \A k \in 0..(n - 1) : \E e \in EdgesFrom(m, at[k]) : at[k + 1] = e.to
  BY <1>2 DEF Stops
<1>4. \A x \in D : dist[x] \in Nat
  BY DEF HopInv
<1>5. PICK l \in Nat : l = Len(queue) /\ DOMAIN queue = 1..l /\ \A i \in 1..l : queue[i] \in D
  <2>1. queue \in Seq(D)
    BY DEF HopInv
  <2>2. Len(queue) \in Nat /\ DOMAIN queue = 1..Len(queue) /\ \A i \in 1..Len(queue) : queue[i] \in D
    BY ONLY <2>1, LenProperties, ElementOfSeq
  <2> QED
    BY ONLY <2>2
<1> DEFINE Near(k) == at[k] \in D /\ dist[at[k]] <= k
           Ahead(k) == \E i \in 1..l : dist[queue[i]] < k
           T == {k \in 0..n : Near(k) \/ Ahead(k)}
<1>6. 0 \in T
  <2>1. Near(0)
    BY <1>3 DEF HopInv
  <2> QED
    BY <1>1, <2>1
<1>7. ASSUME NEW k \in 0..(n - 1), k \in T PROVE k + 1 \in T
  <2>1. k + 1 \in 0..n /\ k \in Nat
    BY <1>1
  <2>2. CASE Ahead(k)
    <3>1. PICK i \in 1..l : dist[queue[i]] < k
      BY <2>2
    <3>2. dist[queue[i]] \in Nat
      BY <1>4, <1>5
    <3>3. dist[queue[i]] < k + 1
      BY <2>1, <3>1, <3>2
    <3> QED
      BY <2>1, <3>3
  <2>3. CASE Near(k)
    <3>1. PICK e \in EdgesFrom(m, at[k]) : at[k + 1] = e.to
      BY <1>3
    <3>2. CASE at[k] \in Range(queue)
      <4>1. PICK i \in 1..l : queue[i] = at[k]
        BY <1>5, <3>2 DEF Range
      <4>2. dist[queue[i]] \in Nat /\ dist[queue[i]] <= k
        BY <1>4, <1>5, <2>3, <4>1
      <4>3. dist[queue[i]] < k + 1
        BY <2>1, <4>2
      <4> QED
        BY <2>1, <4>3
    <3>3. CASE at[k] \notin Range(queue)
      <4>1. e.to \in D /\ dist[e.to] <= dist[at[k]] + 1
        BY <2>3, <3>3 DEF HopInv
      <4>2. dist[at[k]] \in Nat /\ dist[e.to] \in Nat /\ dist[at[k]] <= k
        BY <1>4, <2>3, <4>1
      <4>3. Near(k + 1)
        BY <2>1, <3>1, <4>1, <4>2
      <4> QED
        BY <2>1, <4>3
    <3> QED
      BY <3>2, <3>3
  <2> QED
    BY <1>7, <2>2, <2>3
<1>8. \A k \in 0..n : k \in T
  <2> HIDE DEF T
  <2>1. \A k \in 0..(n - 1) : k \in T => k + 1 \in T
    BY <1>7
  <2>2. n \in Nat
    BY <1>1
  <2> QED
    BY ONLY <1>6, <2>1, <2>2, Spreads
<1>9. Near(n) \/ Ahead(n)
  <2>1. n \in 0..n
    BY <1>1
  <2> QED
    BY <1>8, <2>1
<1>10. CASE Near(n)
  BY <1>1, <1>3, <1>10
<1>11. CASE Ahead(n)
  <2>1. PICK i \in 1..l : dist[queue[i]] < n
    BY <1>11
  <2>2. b \in D
    <3>1. l # 0
      OBVIOUS
    <3>2. queue # <<>>
      BY <1>5, <3>1
    <3> QED
      BY <3>2
  <2>3. dist[b] <= dist[queue[i]] + 1
    BY <1>5, <2>2 DEF HopInv
  <2>4. dist[b] \in Nat /\ dist[queue[i]] \in Nat
    BY <1>4, <1>5, <2>2
  <2>5. dist[b] <= n
    BY <1>1, <2>1, <2>3, <2>4
  <2> QED
    BY <1>1, <2>2, <2>5
<1> QED
  BY <1>9, <1>10, <1>11

\* A number of paths that no route from a to b undercuts, with a route for it.
Fewest(m, a, b, n) ==
  /\ n \in 0..(Visits(m, a) - 1) /\ \E c : Reached(m, a, b, n, c)
  /\ \A ps \in Seq(DOMAIN m) : LeadsTo(m, a, ps, b) => n <= Len(ps)

\* Hops finds it, and Unreachable only if there is no route.
LEMMA HopsAreFewest ==
  ASSUME NEW m, MapOK(m), NEW a, NEW b
  PROVE  \/ Fewest(m, a, b, Hops(m, a, b))
         \/ Hops(m, a, b) = Unreachable /\ \A ps \in Seq(DOMAIN m) : ~LeadsTo(m, a, ps, b)
<1>1. PICK s : /\ s \in HopStates(m, a) /\ HopsEnd(b, s)
               /\ Hops(m, a, b) = IF b \in DOMAIN s.dist THEN s.dist[b] ELSE Unreachable
  BY HopsLoop
<1>2. PICK D, dist, queue : D = DOMAIN s.dist /\ dist = s.dist /\ queue = s.queue
  OBVIOUS
<1>3. HopInv(m, a, D, dist, queue)
  BY <1>1, <1>2 DEF HopStates
<1>4. queue = <<>> \/ b \in D
  BY <1>1, <1>2 DEF HopsEnd
<1>5. \A ps \in Seq(DOMAIN m) : LeadsTo(m, a, ps, b) => b \in D /\ dist[b] <= Len(ps)
  <2> SUFFICES ASSUME NEW ps, ps \in Seq(DOMAIN m), LeadsTo(m, a, ps, b)
               PROVE  b \in D /\ dist[b] <= Len(ps)
    OBVIOUS
  <2> QED
    BY ONLY MapOK(m), <1>3, <1>4, ps \in Seq(DOMAIN m), LeadsTo(m, a, ps, b), HopsBound
<1>6. CASE b \in D
  <2>1. PICK d : d = dist[b]
    OBVIOUS
  <2>2. Hops(m, a, b) = d
    BY <1>1, <1>2, <1>6, <2>1
  <2>3. d \in Nat /\ d < Cardinality(D) /\ (\E c : Reached(m, a, b, d, c)) /\ D \subseteq Regions(m) \cup {a}
    BY <1>3, <1>6, <2>1 DEF HopInv
  <2>4. PICK R : R = Regions(m) \cup {a}
    OBVIOUS
  <2>5. IsFiniteSet(R)
    BY <2>4, EdgesFinite, FS_AddElement
  <2>6. Cardinality(D) <= Visits(m, a) /\ Visits(m, a) \in Nat /\ Cardinality(D) \in Nat
    BY <2>3, <2>4, <2>5, FS_Subset, FS_CardinalityType DEF Visits
  <2>7. d \in 0..(Visits(m, a) - 1)
    BY ONLY <2>3, <2>6
  <2>8. \A ps \in Seq(DOMAIN m) : LeadsTo(m, a, ps, b) => d <= Len(ps)
    BY <1>5, <2>1
  <2>9. Fewest(m, a, b, d)
    BY ONLY <2>3, <2>7, <2>8 DEF Fewest
  <2> QED
    BY ONLY <2>2, <2>9
<1>7. CASE b \notin D
  BY <1>1, <1>2, <1>5, <1>7
<1> QED
  BY <1>6, <1>7

-----------------------------------------------------------------------------
(* ShortestCost *)

LEMMA HasLeast ==
  ASSUME NEW S, S \subseteq Nat, S # {}
  PROVE  \E x \in S : \A y \in S : x <= y
<1> SUFFICES ASSUME \A x \in S : \E y \in S : ~(x <= y) PROVE FALSE
  OBVIOUS
<1>1. PICK n \in Nat : n \in S
  OBVIOUS
<1> DEFINE T == {k \in 0..n : \A y \in S : k <= y}
<1>2. 0 \in T
  OBVIOUS
<1>3. ASSUME NEW k \in 0..(n - 1), k \in T PROVE k + 1 \in T
  <2>1. k \notin S /\ \A y \in S : k <= y /\ y \in Nat
    BY <1>3
  <2>2. \A y \in S : k + 1 <= y
    BY <2>1
  <2> QED
    BY <2>2
<1>4. n \in T
  <2>1. \A k \in 0..(n - 1) : k \in T => k + 1 \in T
    BY <1>3
  <2> HIDE DEF T
  <2>2. \A k \in 0..n : k \in T
    BY <1>2, <2>1, Spreads
  <2> QED
    BY <2>2
<1> QED
  BY <1>1, <1>4

\* An entry of the heap, and the regions whose last entry has been taken.
Entry(x, d) == [node |-> x, dist |-> d]
Settled(D, dist, heap) == {x \in D : Entry(x, dist[x]) \notin heap}

\* What the loop of ShortestCost keeps true until it meets b: the regions D
\* that it has a cost for are reached at that cost over regions that are settled;
\* an entry of the heap is the region's cost or an outdated one; an edge from a
\* settled region makes nothing cheaper, and nothing on the heap is cheaper than
\* what is settled.
CostInv(m, a, b, D, dist, heap) ==
  /\ a \in D /\ D \subseteq Regions(m) \cup {a} /\ dist[a] = 0
  /\ \A x \in D : dist[x] \in Nat
  /\ \A x \in D : \E n \in 0..Cardinality(Settled(D, dist, heap)) : Reached(m, a, x, n, dist[x])
  /\ IsFiniteSet(heap)
  /\ \A e \in heap : e = Entry(e.node, e.dist) /\ e.node \in D /\ e.dist \in Nat
                     /\ dist[e.node] <= e.dist
  /\ b \notin Settled(D, dist, heap)
  /\ \A x \in Settled(D, dist, heap) : \A e \in EdgesFrom(m, x) :
       e.to \in D /\ dist[e.to] <= dist[x] + e.cost
  /\ \A x \in Settled(D, dist, heap) : \A e \in heap : dist[x] <= e.dist

LEMMA CostInvStarts ==
  ASSUME NEW m, NEW a, NEW b, NEW dist, dist[a] = 0, NEW heap, heap = {Entry(a, 0)}
  PROVE  CostInv(m, a, b, {a}, dist, heap) /\ Settled({a}, dist, heap) = {}
<1>1. Settled({a}, dist, heap) = {}
  BY DEF Settled
<1>2. Cardinality({}) = 0
  BY FS_EmptySet
<1>3. Reached(m, a, a, 0, 0)
  BY NoPaths
<1>4. IsFiniteSet(heap)
  BY FS_Singleton
<1>5. \A e \in heap : e = Entry(e.node, e.dist) /\ e.node = a /\ e.dist = 0
  BY DEF Entry
<1>6. \E n \in 0..0 : Reached(m, a, a, n, 0)
  BY <1>3
<1>7. PICK S : S = Settled({a}, dist, heap)
  OBVIOUS
<1>8. S = {} /\ Cardinality(S) = 0
  BY <1>1, <1>2, <1>7
<1>9. \A x \in {a} : dist[x] = 0 /\ \E n \in 0..Cardinality(S) : Reached(m, a, x, n, dist[x])
  BY <1>6, <1>8
<1>10. /\ a \in {a} /\ {a} \subseteq Regions(m) \cup {a} /\ dist[a] = 0
       /\ \A x \in {a} : dist[x] \in Nat
       /\ b \notin S
  BY <1>8
<1>11. \A e \in heap : e = Entry(e.node, e.dist) /\ e.node \in {a} /\ e.dist \in Nat
                        /\ dist[e.node] <= e.dist
  BY <1>5
<1>12. \A x \in S : FALSE
  BY <1>8
<1>13. CostInv(m, a, b, {a}, dist, heap)
  BY ONLY <1>4, <1>7, <1>9, <1>10, <1>11, <1>12 DEF CostInv
<1> QED
  BY <1>7, <1>8, <1>13

\* No route gets to b more cheaply than the heap's cheapest entry, or than what
\* the loop says of b.
LEMMA CostBound ==
  ASSUME NEW m, MapOK(m), NEW a, NEW b, NEW D, NEW dist, NEW heap,
         CostInv(m, a, b, D, dist, heap),
         NEW ps, ps \in Seq(DOMAIN m), LeadsTo(m, a, ps, b)
  PROVE  /\ RouteOf(m, a, ps).cost \in Nat
         /\ \/ b \in D /\ dist[b] <= RouteOf(m, a, ps).cost
            \/ \E e \in heap : e.dist <= RouteOf(m, a, ps).cost
<1>1. PICK n : n \in Nat /\ n = Len(ps)
  BY LenProperties
<1>2. PICK total : total = RouteOf(m, a, ps).cost
  OBVIOUS
<1>3. PICK at, cost : Stops(m, a, b, n, total, at, cost)
  BY ONLY <1>1, <1>2, MapOK(m), ps \in Seq(DOMAIN m), LeadsTo(m, a, ps, b), Stations
<1>4. /\ at[0] = a /\ cost[0] = 0 /\ at[n] = b /\ cost[n] = total
      /\ \A k \in 0..n : cost[k] \in Nat
      /\ \A k \in 0..(n - 1) : \E e \in EdgesFrom(m, at[k]) :
           at[k + 1] = e.to /\ cost[k + 1] = cost[k] + e.cost
  BY <1>3 DEF Stops
<1>5. \A x \in D : dist[x] \in Nat
  BY DEF CostInv
<1>6. \A e \in heap : e.dist \in Nat
  BY DEF CostInv
<1> DEFINE Near(k) == at[k] \in D /\ dist[at[k]] <= cost[k]
           Ahead(k) == \E e \in heap : e.dist <= cost[k]
           T == {k \in 0..n : Near(k) \/ Ahead(k)}
<1>7. 0 \in T
  <2>1. Near(0)
    BY <1>4 DEF CostInv
  <2> QED
    BY <1>1, <2>1
<1>8. ASSUME NEW k \in 0..(n - 1), k \in T PROVE k + 1 \in T
  <2>1. k + 1 \in 0..n /\ k \in 0..n
    BY <1>1
  <2>2. PICK e \in EdgesFrom(m, at[k]) : at[k + 1] = e.to /\ cost[k + 1] = cost[k] + e.cost
    BY <1>4
  <2>3. e.cost \in Nat
    BY EdgeIsPath
  <2>4. cost[k] \in Nat /\ cost[k + 1] \in Nat /\ cost[k] <= cost[k + 1]
    BY <1>4, <2>1, <2>2, <2>3
  <2>5. CASE Ahead(k)
    <3>1. PICK f \in heap : f.dist <= cost[k]
      BY <2>5
    <3>2. f.dist <= cost[k + 1]
      BY <1>6, <2>4, <3>1
    <3> QED
      BY <2>1, <3>2
  <2>6. CASE Near(k)
    <3>1. CASE at[k] \in Settled(D, dist, heap)
      <4>1. e.to \in D /\ dist[e.to] <= dist[at[k]] + e.cost
        BY <3>1 DEF CostInv
      <4>2. dist[e.to] <= cost[k + 1]
        BY <1>5, <2>2, <2>3, <2>4, <2>6, <4>1
      <4>3. Near(k + 1)
        BY <2>2, <4>1, <4>2
      <4> QED
        BY <2>1, <4>3
    <3>2. CASE at[k] \notin Settled(D, dist, heap)
      <4>1. Entry(at[k], dist[at[k]]) \in heap
        BY <2>6, <3>2 DEF Settled
      <4>2. Entry(at[k], dist[at[k]]).dist = dist[at[k]]
        BY DEF Entry
      <4>3. dist[at[k]] <= cost[k + 1]
        BY <1>5, <2>4, <2>6
      <4>4. Ahead(k + 1)
        BY <4>1, <4>2, <4>3
      <4> QED
        BY <2>1, <4>4
    <3> QED
      BY <3>1, <3>2
  <2> QED
    BY <1>8, <2>5, <2>6
<1>9. \A k \in 0..n : k \in T
  <2> HIDE DEF T
  <2>1. \A k \in 0..(n - 1) : k \in T => k + 1 \in T
    BY <1>8
  <2>2. n \in Nat
    BY <1>1
  <2> QED
    BY ONLY <1>7, <2>1, <2>2, Spreads
<1>10. n \in 0..n
  BY <1>1
<1>11. Near(n) \/ Ahead(n)
  BY <1>9, <1>10
<1>12. total \in Nat
  BY <1>4, <1>10
<1> QED
  BY <1>2, <1>4, <1>11, <1>12

\* What relaxing the edges of the entry cur finds: the regions F, each at its
\* cheapest over such an edge, if that is cheaper than what is known of it.
Relaxes(m, D, dist, cur, F, c) ==
  /\ \A r \in F : \E e \in EdgesFrom(m, cur.node) : e.to = r /\ c[r] = cur.dist + e.cost
  /\ \A r \in F : r \in D => c[r] < dist[r]
  /\ \A e \in EdgesFrom(m, cur.node) :
       \/ e.to \in F /\ c[e.to] <= cur.dist + e.cost
       \/ e.to \notin F /\ e.to \in D /\ dist[e.to] <= cur.dist + e.cost

\* The heap without cur and with the new entries.
Reheaps(heap, cur, F, c, nh) ==
  /\ \A e \in nh : (e \in heap /\ e # cur) \/ \E r \in F : e = Entry(r, c[r])
  /\ \A e \in heap : e = cur \/ e \in nh
  /\ \A r \in F : Entry(r, c[r]) \in nh

\* A turn that relaxes cur, which no entry undercuts and which is not outdated.
Turn(m, D, dist, heap, cur, F, c, nd, nh) ==
  /\ cur \in heap /\ \A e \in heap : cur.dist <= e.dist
  /\ cur.dist <= dist[cur.node]
  /\ Relaxes(m, D, dist, cur, F, c) /\ Reheaps(heap, cur, F, c, nh)
  /\ \A r \in F : nd[r] = c[r]
  /\ \A x \in D : x \in F \/ nd[x] = dist[x]

\* The region of cur is settled, and no other changes its side.
LEMMA SettlesOne ==
  ASSUME NEW m, MapOK(m), NEW a, NEW b, NEW D, NEW dist, NEW heap,
         CostInv(m, a, b, D, dist, heap),
         NEW cur, NEW F, NEW c, NEW nd, NEW nh, Turn(m, D, dist, heap, cur, F, c, nd, nh)
  PROVE  /\ cur.node \in D /\ cur.node \notin F /\ cur = Entry(cur.node, dist[cur.node])
         /\ cur.dist = dist[cur.node] /\ nd[cur.node] = cur.dist
         /\ cur.node \notin Settled(D, dist, heap)
         /\ Settled(D \cup F, nd, nh) = Settled(D, dist, heap) \cup {cur.node}
         /\ \A x \in Settled(D, dist, heap) : x \in D /\ x \notin F /\ nd[x] = dist[x]
<1> USE DEF Turn
<1>1. \A e \in heap : e = Entry(e.node, e.dist) /\ e.node \in D /\ e.dist \in Nat
                       /\ dist[e.node] <= e.dist
  BY DEF CostInv
<1>2. \A x \in D : dist[x] \in Nat
  BY DEF CostInv
<1>3. cur.node \in D /\ cur.dist \in Nat /\ cur.dist = dist[cur.node]
  BY <1>1, <1>2
<1>4. cur = Entry(cur.node, dist[cur.node])
  BY <1>1, <1>3
<1>5. \A e \in EdgesFrom(m, cur.node) : e.cost \in Nat
  BY EdgeIsPath
<1>6. \A r \in F : c[r] \in Nat /\ cur.dist <= c[r]
  BY <1>3, <1>5 DEF Relaxes
<1>7. cur.node \notin F
  BY <1>2, <1>3, <1>6 DEF Relaxes
<1>8. cur.node \notin Settled(D, dist, heap)
  BY <1>4 DEF Settled
<1>9. ASSUME NEW x \in Settled(D, dist, heap) PROVE x \in D /\ x \notin F /\ nd[x] = dist[x]
  <2>1. x \in D /\ dist[x] <= cur.dist
    BY DEF Settled, CostInv
  <2>2. x \notin F
    BY <1>2, <1>3, <1>6, <2>1 DEF Relaxes
  <2> QED
    BY <2>1, <2>2
<1>10. \A x, y, d, f : Entry(x, d) = Entry(y, f) => x = y /\ d = f
  BY DEF Entry
<1>11. ASSUME NEW x \in Settled(D \cup F, nd, nh)
       PROVE  x \in Settled(D, dist, heap) \cup {cur.node}
  <2>1. x \notin F
    <3> SUFFICES ASSUME x \in F PROVE FALSE
      OBVIOUS
    <3>1. Entry(x, nd[x]) \in nh
      BY DEF Reheaps
    <3> QED
      BY <3>1 DEF Settled
  <2>2. x \in D /\ nd[x] = dist[x] /\ Entry(x, nd[x]) \notin nh
    BY <2>1 DEF Settled
  <2>3. Entry(x, dist[x]) \notin heap \/ Entry(x, dist[x]) = cur
    BY <2>2 DEF Reheaps
  <2> QED
    BY <1>4, <1>10, <2>2, <2>3 DEF Settled
<1>12. ASSUME NEW x \in D, x \notin F, nd[x] = dist[x],
              Entry(x, dist[x]) \notin heap \/ Entry(x, dist[x]) = cur
       PROVE  x \in Settled(D \cup F, nd, nh)
  <2> SUFFICES ASSUME Entry(x, dist[x]) \in nh PROVE FALSE
    BY <1>12 DEF Settled
  <2>1. \E r \in F : Entry(x, dist[x]) = Entry(r, c[r])
    BY <1>12 DEF Reheaps
  <2> QED
    BY <1>10, <1>12, <2>1
<1>13. cur.node \in Settled(D \cup F, nd, nh)
  BY <1>3, <1>4, <1>7, <1>12
<1>14. \A x \in Settled(D, dist, heap) : x \in Settled(D \cup F, nd, nh)
  BY <1>9, <1>12 DEF Settled
<1>15. Settled(D \cup F, nd, nh) = Settled(D, dist, heap) \cup {cur.node}
  BY <1>11, <1>13, <1>14
<1>16. nd[cur.node] = cur.dist
  BY <1>3, <1>7
<1> QED
  BY <1>3, <1>4, <1>7, <1>8, <1>9, <1>15, <1>16

LEMMA RelaxStep ==
  ASSUME NEW m, MapOK(m), NEW a, NEW b, NEW D, NEW dist, NEW heap,
         CostInv(m, a, b, D, dist, heap),
         NEW cur, NEW F, NEW c, NEW nd, NEW nh, Turn(m, D, dist, heap, cur, F, c, nd, nh),
         cur.node # b, IsFiniteSet(nh)
  PROVE  CostInv(m, a, b, D \cup F, nd, nh)
<1>1. PICK S : S = Settled(D, dist, heap)
  OBVIOUS
<1>2. PICK at : at = cur.node
  OBVIOUS
<1>3. PICK d : d = cur.dist
  OBVIOUS
<1>4. PICK X : X = Settled(D \cup F, nd, nh)
  OBVIOUS
<1>5. /\ at \in D /\ at \notin F /\ d = dist[at] /\ nd[at] = d /\ at \notin S
      /\ X = S \cup {at}
      /\ \A x \in S : x \in D /\ x \notin F /\ nd[x] = dist[x]
  BY ONLY MapOK(m), CostInv(m, a, b, D, dist, heap), Turn(m, D, dist, heap, cur, F, c, nd, nh),
          <1>1, <1>2, <1>3, <1>4, SettlesOne
<1> USE DEF Turn
<1>6. /\ a \in D /\ D \subseteq Regions(m) \cup {a} /\ dist[a] = 0
      /\ \A x \in D : dist[x] \in Nat
      /\ \A x \in D : \E n \in 0..Cardinality(S) : Reached(m, a, x, n, dist[x])
      /\ \A e \in heap : e = Entry(e.node, e.dist) /\ e.node \in D /\ e.dist \in Nat
                         /\ dist[e.node] <= e.dist
      /\ b \notin S
      /\ \A x \in S : \A e \in EdgesFrom(m, x) :
           e.to \in D /\ dist[e.to] <= dist[x] + e.cost
      /\ \A x \in S : \A e \in heap : dist[x] <= e.dist
  BY <1>1 DEF CostInv
<1>7. \A e \in EdgesFrom(m, at) : e.cost \in Nat /\ e.to \in Regions(m)
  BY EdgeIsPath
<1>8. d \in Nat /\ \A e \in heap : d <= e.dist
  BY <1>3, <1>5, <1>6
<1>9. \A r \in F : \E e \in EdgesFrom(m, at) : e.to = r /\ c[r] = d + e.cost
  BY <1>2, <1>3 DEF Relaxes
<1>10. \A r \in F : c[r] \in Nat /\ d <= c[r] /\ (r \in D => c[r] < dist[r]) /\ r \in Regions(m)
  BY <1>7, <1>8, <1>9 DEF Relaxes
<1>11. \A x \in D \cup F : nd[x] \in Nat /\ (x \in D => nd[x] <= dist[x])
  BY <1>6, <1>10
<1>12. D \cup F \subseteq Regions(m) \cup {a} /\ a \in D \cup F /\ nd[a] = 0
  <2>1. nd[a] \in Nat /\ nd[a] <= 0
    BY <1>6, <1>11
  <2> QED
    BY <1>6, <1>10, <2>1
<1>13. PICK n \in Nat : n = Cardinality(S) /\ Cardinality(X) = n + 1
  <2>1. PICK R : R = Regions(m) \cup {a}
    OBVIOUS
  <2>2. IsFiniteSet(R) /\ S \subseteq R
    BY <1>5, <1>6, <2>1, EdgesFinite, FS_AddElement
  <2>3. IsFiniteSet(S)
    BY <2>2, FS_Subset
  <2> QED
    BY <1>5, <2>3, FS_AddElement, FS_CardinalityType
<1>14. \A x \in D \cup F : \E k \in 0..(n + 1) : Reached(m, a, x, k, nd[x])
  <2>1. ASSUME NEW x \in D, x \notin F PROVE \E k \in 0..(n + 1) : Reached(m, a, x, k, nd[x])
    <3>1. PICK k \in 0..n : Reached(m, a, x, k, dist[x])
      BY <1>6, <1>13
    <3>2. nd[x] = dist[x] /\ k \in 0..(n + 1)
      BY <2>1
    <3> QED
      BY <3>1, <3>2
  <2>2. ASSUME NEW x \in F PROVE \E k \in 0..(n + 1) : Reached(m, a, x, k, nd[x])
    <3>1. PICK e \in EdgesFrom(m, at) : e.to = x /\ c[x] = d + e.cost
      BY <1>9
    <3>2. PICK k \in 0..n : Reached(m, a, at, k, d)
      BY <1>5, <1>6, <1>13
    <3>3. Reached(m, a, e.to, k + 1, d + e.cost)
      BY ONLY MapOK(m), <3>2, e \in EdgesFrom(m, at), OneMore
    <3>4. nd[x] = d + e.cost /\ k + 1 \in 0..(n + 1)
      BY <3>1
    <3> QED
      BY <3>1, <3>3, <3>4
  <2> QED
    BY <2>1, <2>2
<1>15. ASSUME NEW e \in nh
       PROVE  /\ e = Entry(e.node, e.dist) /\ e.node \in D \cup F /\ e.dist \in Nat
              /\ nd[e.node] <= e.dist /\ d <= e.dist
  <2>1. CASE e \in heap
    BY <1>6, <1>8, <1>11, <2>1
  <2>2. CASE \E r \in F : e = Entry(r, c[r])
    <3>1. PICK r \in F : e = Entry(r, c[r])
      BY <2>2
    <3>2. e.node = r /\ e.dist = c[r]
      BY <3>1 DEF Entry
    <3> QED
      BY <1>10, <3>1, <3>2
  <2> QED
    BY <2>1, <2>2 DEF Reheaps
<1>16. b \notin X
  BY <1>2, <1>5, <1>6
<1>17. \A x \in X : \A e \in EdgesFrom(m, x) : e.to \in D \cup F /\ nd[e.to] <= nd[x] + e.cost
  <2>1. ASSUME NEW x \in S, NEW e \in EdgesFrom(m, x)
        PROVE  e.to \in D \cup F /\ nd[e.to] <= nd[x] + e.cost
    <3>1. e.cost \in Nat
      BY EdgeIsPath
    <3>2. e.to \in D /\ dist[e.to] <= dist[x] + e.cost /\ x \in D /\ nd[x] = dist[x]
      BY <1>5, <1>6
    <3>3. nd[e.to] <= dist[e.to] /\ nd[e.to] \in Nat /\ dist[e.to] \in Nat /\ dist[x] \in Nat
      BY <1>6, <1>11, <3>2
    <3> QED
      BY <3>1, <3>2, <3>3
  <2>2. ASSUME NEW e \in EdgesFrom(m, at)
        PROVE  e.to \in D \cup F /\ nd[e.to] <= nd[at] + e.cost
    <3>1. \/ e.to \in F /\ c[e.to] <= d + e.cost
          \/ e.to \notin F /\ e.to \in D /\ dist[e.to] <= d + e.cost
      BY <1>2, <1>3 DEF Relaxes
    <3> QED
      BY <1>5, <3>1
  <2> QED
    BY <1>5, <2>1, <2>2
<1>18. \A x \in X : \A e \in nh : nd[x] <= e.dist
  <2>1. ASSUME NEW x \in S, NEW e \in nh PROVE nd[x] <= e.dist
    <3>1. nd[x] = dist[x] /\ dist[x] \in Nat /\ dist[x] <= d
      BY <1>3, <1>5, <1>6
    <3>2. d <= e.dist /\ e.dist \in Nat
      BY <1>15
    <3> QED
      BY <1>8, <3>1, <3>2
  <2>2. \A e \in nh : nd[at] <= e.dist
    BY <1>5, <1>15
  <2> QED
    BY <1>5, <2>1, <2>2
<1>19. \A x \in D \cup F : \E k \in 0..Cardinality(X) : Reached(m, a, x, k, nd[x])
  BY <1>13, <1>14
<1> QED
  BY ONLY <1>4, <1>11, <1>12, <1>15, <1>16, <1>17, <1>18, <1>19, IsFiniteSet(nh) DEF CostInv

\* An outdated entry is dropped.
LEMMA DropStep ==
  ASSUME NEW m, NEW a, NEW b, NEW D, NEW dist, NEW heap, CostInv(m, a, b, D, dist, heap),
         NEW cur, cur \in heap, dist[cur.node] < cur.dist
  PROVE  /\ CostInv(m, a, b, D, dist, heap \ {cur})
         /\ Settled(D, dist, heap \ {cur}) = Settled(D, dist, heap)
<1>1. PICK nh : nh = heap \ {cur}
  OBVIOUS
<1>2. cur.node \in D /\ dist[cur.node] \in Nat /\ cur.dist \in Nat
  BY DEF CostInv
<1>3. \A x \in D : Entry(x, dist[x]) # cur
  <2> SUFFICES ASSUME NEW x \in D, Entry(x, dist[x]) = cur PROVE FALSE
    OBVIOUS
  <2>1. cur.node = x /\ cur.dist = dist[x]
    BY DEF Entry
  <2> QED
    BY <1>2, <2>1
<1>4. Settled(D, dist, nh) = Settled(D, dist, heap)
  BY <1>1, <1>3 DEF Settled
<1>5. IsFiniteSet(nh) /\ nh \subseteq heap
  BY <1>1, FS_Subset DEF CostInv
<1>6. CostInv(m, a, b, D, dist, nh)
  BY <1>4, <1>5 DEF CostInv
<1> QED
  BY <1>1, <1>4, <1>6

LEMMA MinIsLeast ==
  ASSUME NEW S, S \subseteq Nat, S # {}
  PROVE  Min(S) \in S /\ Min(S) \in Nat /\ \A y \in S : Min(S) <= y
<1>1. \E x \in S : \A y \in S : x <= y
  BY HasLeast
<1> QED
  BY <1>1 DEF Min

\* The entry that the loop takes is one that none undercuts.
LEMMA NearestEntry ==
  ASSUME NEW heap, heap # {}, \A e \in heap : e.dist \in Nat,
         NEW cur, cur = CHOOSE e \in heap : \A f \in heap : e.dist <= f.dist
  PROVE  cur \in heap /\ \A f \in heap : cur.dist <= f.dist
<1>1. PICK S : S = {e.dist : e \in heap}
  OBVIOUS
<1>2. S \subseteq Nat /\ S # {}
  BY <1>1
<1>3. PICK x \in S : \A y \in S : x <= y
  BY <1>2, HasLeast
<1>4. \E e \in heap : \A f \in heap : e.dist <= f.dist
  BY <1>1, <1>3
<1> QED
  BY <1>4

\* Relax finds what it should.
LEMMA RelaxFinds ==
  ASSUME NEW m, MapOK(m), NEW D, NEW dist, D = DOMAIN dist, \A x \in D : dist[x] \in Nat,
         NEW cur, cur.dist \in Nat,
         NEW better,
         better = {e \in EdgesFrom(m, cur.node) : Improves(dist, e.to, cur.dist + e.cost)},
         NEW F, F = {e.to : e \in better},
         NEW c, c = [r \in F |-> cur.dist + Min({e.cost : e \in {f \in better : f.to = r}})]
  PROVE  Relaxes(m, D, dist, cur, F, c)
<1>1. \A e \in EdgesFrom(m, cur.node) : e.cost \in Nat
  BY EdgeIsPath
<1>2. \A e \in EdgesFrom(m, cur.node) :
        e \in better <=> (e.to \in D => cur.dist + e.cost < dist[e.to])
  BY DEF Improves
<1>3. better \subseteq EdgesFrom(m, cur.node)
  OBVIOUS
<1>4. ASSUME NEW r \in F
      PROVE  /\ \E e \in better : e.to = r /\ c[r] = cur.dist + e.cost
             /\ \A e \in better : e.to = r => c[r] <= cur.dist + e.cost
  <2>1. PICK S : S = {e.cost : e \in {f \in better : f.to = r}}
    OBVIOUS
  <2>2. S \subseteq Nat /\ S # {}
    BY <1>1, <1>3, <2>1
  <2>3. PICK x : x = Min(S)
    OBVIOUS
  <2>4. x \in S /\ x \in Nat /\ \A y \in S : x <= y
    BY <2>2, <2>3, MinIsLeast
  <2>5. c[r] = cur.dist + x
    BY <2>1, <2>3
  <2>6. PICK e \in better : e.to = r /\ e.cost = x
    BY <2>1, <2>4
  <2>7. \A f \in better : f.to = r => x <= f.cost /\ f.cost \in Nat
    BY <1>1, <1>3, <2>1, <2>4
  <2>8. \A f \in better : f.to = r => c[r] <= cur.dist + f.cost
    BY <2>4, <2>5, <2>7
  <2> QED
    BY <2>5, <2>6, <2>8
<1>5. \A r \in F : \E e \in EdgesFrom(m, cur.node) : e.to = r /\ c[r] = cur.dist + e.cost
  BY <1>3, <1>4
<1>6. ASSUME NEW r \in F, r \in D PROVE c[r] < dist[r]
  <2>1. PICK e \in better : e.to = r /\ c[r] = cur.dist + e.cost
    BY <1>4
  <2>2. e \in EdgesFrom(m, cur.node)
    BY <1>3, <2>1
  <2>3. cur.dist + e.cost < dist[e.to]
    BY <1>2, <1>6, <2>1, <2>2
  <2> QED
    BY <2>1, <2>3
<1>7. ASSUME NEW e \in EdgesFrom(m, cur.node)
      PROVE  \/ e.to \in F /\ c[e.to] <= cur.dist + e.cost
             \/ e.to \notin F /\ e.to \in D /\ dist[e.to] <= cur.dist + e.cost
  <2>1. CASE e \in better
    BY <1>4, <2>1
  <2>2. CASE e \notin better
    <3>1. e.to \in D /\ dist[e.to] <= cur.dist + e.cost
      BY <1>1, <1>2, <2>2
    <3>2. CASE e.to \in F
      <4>1. c[e.to] < dist[e.to]
        BY <1>6, <3>1, <3>2
      <4>2. PICK f \in EdgesFrom(m, cur.node) : c[e.to] = cur.dist + f.cost
        BY <1>5, <3>2
      <4>3. f.cost \in Nat /\ e.cost \in Nat /\ dist[e.to] \in Nat
        BY <1>1, <3>1
      <4>4. c[e.to] <= cur.dist + e.cost
        BY <3>1, <4>1, <4>2, <4>3
      <4> QED
        BY <3>2, <4>4
    <3> QED
      BY <3>1, <3>2
  <2> QED
    BY <2>1, <2>2
<1> QED
  BY <1>5, <1>6, <1>7 DEF Relaxes

\* The heap loses an entry and gains at most one for each region.
Heaped(heap, cur, F, c) == (heap \ {cur}) \cup {Entry(r, c[r]) : r \in F}

LEMMA HeapMoves ==
  ASSUME NEW heap, IsFiniteSet(heap), NEW cur, cur \in heap,
         NEW F, IsFiniteSet(F), NEW c,
         NEW nh, nh = Heaped(heap, cur, F, c)
  PROVE  /\ Reheaps(heap, cur, F, c, nh) /\ IsFiniteSet(nh)
         /\ Cardinality(nh) <= (Cardinality(heap) - 1) + Cardinality(F)
         /\ Cardinality(nh) \in Nat /\ Cardinality(heap) \in Nat /\ Cardinality(F) \in Nat
<1>1. PICK T : T = {Entry(r, c[r]) : r \in F}
  OBVIOUS
<1>2. IsFiniteSet(T) /\ Cardinality(T) <= Cardinality(F)
  <2>1. PICK g : g = [r \in F |-> Entry(r, c[r])]
    OBVIOUS
  <2>2. g \in Surjection(F, T)
    BY <1>1, <2>1 DEF Surjection
  <2> QED
    BY <2>2, FS_Surjection
<1>3. PICK rest : rest = heap \ {cur}
  OBVIOUS
<1>4. IsFiniteSet(rest) /\ Cardinality(rest) = Cardinality(heap) - 1
  BY <1>3, FS_RemoveElement
<1>5. nh = rest \cup T
  BY <1>1, <1>3 DEF Heaped
<1>6. /\ IsFiniteSet(nh)
      /\ Cardinality(nh) = Cardinality(rest) + Cardinality(T) - Cardinality(rest \cap T)
  BY <1>2, <1>4, <1>5, FS_Union
<1>7. IsFiniteSet(rest \cap T)
  BY <1>4, FS_Intersection
<1>8. /\ Cardinality(nh) \in Nat /\ Cardinality(heap) \in Nat /\ Cardinality(F) \in Nat
      /\ Cardinality(rest) \in Nat /\ Cardinality(T) \in Nat /\ Cardinality(rest \cap T) \in Nat
  BY <1>2, <1>4, <1>6, <1>7, FS_CardinalityType
<1>9. Cardinality(nh) <= (Cardinality(heap) - 1) + Cardinality(F)
  BY <1>2, <1>4, <1>6, <1>8
<1>10. Reheaps(heap, cur, F, c, nh)
  BY <1>1, <1>3, <1>5 DEF Reheaps
<1> QED
  BY <1>6, <1>8, <1>9, <1>10

\* A cost that no route from a to b undercuts, with a route for it.
Cheapest(m, a, b, c) ==
  /\ \E n \in 0..(Visits(m, a) - 1) : Reached(m, a, b, n, c)
  /\ \A ps \in Seq(DOMAIN m) : LeadsTo(m, a, ps, b) => c <= RouteOf(m, a, ps).cost

\* The states of the loop.
CostStates(m, a, b) ==
  {s \in [dist : UNION {[D -> Nat] : D \in SUBSET (Regions(m) \cup {a})},
          heap : SUBSET [node : Regions(m) \cup {a}, dist : Nat], found : Nat \cup {NotFound}] :
     IF s.found = NotFound THEN CostInv(m, a, b, DOMAIN s.dist, s.dist, s.heap)
     ELSE Cheapest(m, a, b, s.found)}

CostEnd(s) == s.heap = {} \/ s.found # NotFound

\* What is settled does not include b.
LEMMA SettledFew ==
  ASSUME NEW m, MapOK(m), NEW a, NEW b, NEW D, NEW dist, NEW heap, CostInv(m, a, b, D, dist, heap)
  PROVE  /\ IsFiniteSet(Settled(D, dist, heap))
         /\ Visits(m, a) \in Nat
         /\ Cardinality(Settled(D, dist, heap)) \in 0..Visits(m, a)
         /\ b \in D => Cardinality(Settled(D, dist, heap)) \in 0..(Visits(m, a) - 1)
<1>1. PICK R : R = Regions(m) \cup {a}
  OBVIOUS
<1>2. PICK S : S = Settled(D, dist, heap)
  OBVIOUS
<1>3. IsFiniteSet(R)
  BY <1>1, EdgesFinite, FS_AddElement
<1>4. PICK n \in Nat : n = Visits(m, a) /\ n = Cardinality(R)
  BY <1>1, <1>3, FS_CardinalityType DEF Visits
<1>5. S \subseteq D /\ D \subseteq R /\ b \notin S
  BY <1>1, <1>2 DEF CostInv, Settled
<1>6. IsFiniteSet(S) /\ Cardinality(S) <= n /\ Cardinality(S) \in Nat
  <2>1. S \subseteq R
    BY <1>5
  <2> QED
    BY <1>3, <1>4, <2>1, FS_Subset, FS_CardinalityType
<1>7. CASE b \in D
  <2>1. S # R
    BY <1>5, <1>7
  <2>2. Cardinality(S) # n
    BY <1>3, <1>4, <1>5, <2>1, FS_Subset
  <2> QED
    BY <1>2, <1>4, <1>6, <2>2
<1> QED
  BY <1>2, <1>4, <1>6, <1>7

\* When b is taken from the heap, its cost is a cheapest one.
LEMMA FoundIsCheapest ==
  ASSUME NEW m, MapOK(m), NEW a, NEW b, NEW D, NEW dist, NEW heap,
         CostInv(m, a, b, D, dist, heap),
         NEW cur, cur \in heap, \A e \in heap : cur.dist <= e.dist, cur.node = b
  PROVE  Cheapest(m, a, b, cur.dist) /\ cur.dist \in Nat
<1>1. PICK d : d = cur.dist
  OBVIOUS
<1>2. /\ b \in D /\ dist[b] \in Nat /\ d \in Nat /\ dist[b] <= d
      /\ \A e \in heap : e.dist \in Nat
  BY <1>1 DEF CostInv
<1>3. d = dist[b]
  <2>1. Entry(b, dist[b]) \in heap
    BY <1>2 DEF CostInv, Settled
  <2>2. Entry(b, dist[b]).dist = dist[b]
    BY DEF Entry
  <2>3. d <= dist[b]
    BY <1>1, <2>1, <2>2
  <2> QED
    BY <1>2, <2>3
<1>4. \E n \in 0..(Visits(m, a) - 1) : Reached(m, a, b, n, d)
  <2>1. PICK S : S = Settled(D, dist, heap)
    OBVIOUS
  <2>2. PICK n \in 0..Cardinality(S) : Reached(m, a, b, n, d)
    BY <1>2, <1>3, <2>1 DEF CostInv
  <2>3. Visits(m, a) \in Nat /\ Cardinality(S) \in 0..(Visits(m, a) - 1)
    BY ONLY MapOK(m), CostInv(m, a, b, D, dist, heap), <1>2, <2>1, SettledFew
  <2>4. n \in 0..(Visits(m, a) - 1)
    BY <2>3
  <2> QED
    BY <2>2, <2>4
<1>5. ASSUME NEW ps, ps \in Seq(DOMAIN m), LeadsTo(m, a, ps, b)
      PROVE  d <= RouteOf(m, a, ps).cost
  <2>1. /\ RouteOf(m, a, ps).cost \in Nat
        /\ \/ b \in D /\ dist[b] <= RouteOf(m, a, ps).cost
           \/ \E e \in heap : e.dist <= RouteOf(m, a, ps).cost
    BY ONLY MapOK(m), CostInv(m, a, b, D, dist, heap), <1>5, CostBound
  <2>2. PICK total \in Nat : total = RouteOf(m, a, ps).cost
    BY <2>1
  <2>3. CASE dist[b] <= total
    BY <1>3, <2>2, <2>3
  <2>4. CASE \E e \in heap : e.dist <= total
    <3>1. PICK e \in heap : e.dist <= total
      BY <2>4
    <3>2. d <= e.dist /\ e.dist \in Nat
      BY <1>1, <1>2
    <3>3. d <= total
      BY <1>2, <3>1, <3>2
    <3> QED
      BY <2>2, <3>3
  <2> QED
    BY <2>1, <2>2, <2>3, <2>4
<1>6. \A ps \in Seq(DOMAIN m) : LeadsTo(m, a, ps, b) => d <= RouteOf(m, a, ps).cost
  BY <1>5
<1>7. Cheapest(m, a, b, d)
  BY ONLY <1>4, <1>6 DEF Cheapest
<1> QED
  BY <1>1, <1>2, <1>7

\* How far the loop must have come: each region is settled once, and each entry
\* was put on the heap by a region that is.
Spent(m, a, s) ==
  Visits(m, a) * Cardinality(Settled(DOMAIN s.dist, s.dist, s.heap)) - Cardinality(s.heap)

\* A turn keeps to the states, and either finds b or comes one step further.
LEMMA SettleStays ==
  ASSUME NEW m, MapOK(m), NEW a, NEW b, NEW s, s \in CostStates(m, a, b)
  PROVE  /\ Settle(m, b, s) \in CostStates(m, a, b)
         /\ CostEnd(s) => Settle(m, b, s) = s
         /\ ~CostEnd(s) => \/ Settle(m, b, s).found # NotFound
                           \/ Spent(m, a, s) + 1 <= Spent(m, a, Settle(m, b, s))
<1>1. CASE CostEnd(s)
  BY <1>1 DEF CostEnd, Settle
<1>2. CASE ~CostEnd(s)
  <2>1. PICK R : R = Regions(m) \cup {a}
    OBVIOUS
  <2>2. PICK D : D = DOMAIN s.dist
    OBVIOUS
  <2>3. PICK dist : dist = s.dist
    OBVIOUS
  <2>4. PICK heap : heap = s.heap
    OBVIOUS
  <2>5. s.found = NotFound /\ heap # {}
    BY <1>2, <2>4 DEF CostEnd
  <2>6. CostInv(m, a, b, D, dist, heap)
    BY <2>2, <2>3, <2>4, <2>5 DEF CostStates
  <2>7. /\ s \in [dist : UNION {[X -> Nat] : X \in SUBSET R},
                   heap : SUBSET [node : R, dist : Nat], found : Nat \cup {NotFound}]
    BY <2>1 DEF CostStates
  <2>8. PICK cur : cur = CHOOSE e \in heap : \A f \in heap : e.dist <= f.dist
    OBVIOUS
  <2>9. cur \in heap /\ \A f \in heap : cur.dist <= f.dist
    <3>1. \A e \in heap : e.dist \in Nat
      BY <2>6 DEF CostInv
    <3> QED
      BY ONLY <2>5, <2>8, <3>1, NearestEntry
  <2>10. /\ cur.node \in D /\ cur.dist \in Nat /\ \A x \in D : dist[x] \in Nat
         /\ IsFiniteSet(heap)
    BY <2>6, <2>9 DEF CostInv
  <2>11. CASE cur.node = b
    <3>1. PICK v : v = [s EXCEPT !.heap = heap \ {cur}, !.found = cur.dist]
      OBVIOUS
    <3>2. Settle(m, b, s) = v
      BY <2>4, <2>5, <2>8, <2>11, <3>1 DEF Settle
    <3>3. Cheapest(m, a, b, cur.dist)
      BY ONLY MapOK(m), <2>6, <2>9, <2>11, FoundIsCheapest
    <3>4. v.found = cur.dist /\ v.found # NotFound
      BY <2>7, <2>10, <3>1 DEF NotFound
    <3>5. v \in [dist : UNION {[X -> Nat] : X \in SUBSET R},
                 heap : SUBSET [node : R, dist : Nat], found : Nat \cup {NotFound}]
      BY <2>4, <2>7, <2>10, <3>1
    <3>6. v \in CostStates(m, a, b)
      BY <2>1, <3>3, <3>4, <3>5 DEF CostStates
    <3> QED
      BY <1>2, <3>2, <3>4, <3>6
  <2>12. CASE cur.node # b /\ cur.dist > dist[cur.node]
    <3>1. PICK nh : nh = heap \ {cur}
      OBVIOUS
    <3>2. PICK v : v = [s EXCEPT !.heap = nh]
      OBVIOUS
    <3>3. Settle(m, b, s) = v
      BY <2>3, <2>4, <2>5, <2>8, <2>12, <3>1, <3>2 DEF Settle
    <3>4. CostInv(m, a, b, D, dist, nh) /\ Settled(D, dist, nh) = Settled(D, dist, heap)
      <4>1. dist[cur.node] < cur.dist
        BY <2>10, <2>12
      <4> QED
        BY ONLY <2>6, <2>9, <3>1, <4>1, DropStep
    <3>5. v.dist = dist /\ v.heap = nh /\ v.found = NotFound /\ DOMAIN v.dist = D
      BY <2>2, <2>3, <2>5, <2>7, <3>2
    <3>6. v \in [dist : UNION {[X -> Nat] : X \in SUBSET R},
                 heap : SUBSET [node : R, dist : Nat], found : Nat \cup {NotFound}]
      BY <2>4, <2>7, <3>1, <3>2
    <3>7. v \in CostStates(m, a, b)
      BY <2>1, <3>4, <3>5, <3>6 DEF CostStates
    <3>8. Spent(m, a, s) + 1 <= Spent(m, a, v)
      <4>1. Cardinality(nh) = Cardinality(heap) - 1 /\ Cardinality(heap) \in Nat
        BY <2>9, <2>10, <3>1, FS_RemoveElement, FS_CardinalityType
      <4>2. PICK S : S = Settled(D, dist, heap)
        OBVIOUS
      <4>3. PICK k : k = Visits(m, a) * Cardinality(S)
        OBVIOUS
      <4>4. k \in Nat
        <5>1. Visits(m, a) \in Nat /\ Cardinality(S) \in Nat
          BY <2>6, <4>2, SettledFew
        <5> QED
          BY <4>3, <5>1
      <4>5. Spent(m, a, s) = k - Cardinality(heap) /\ Spent(m, a, v) = k - Cardinality(nh)
        BY <2>2, <2>3, <2>4, <3>4, <3>5, <4>2, <4>3 DEF Spent
      <4> QED
        BY <4>1, <4>4, <4>5
    <3> QED
      BY <1>2, <3>3, <3>7, <3>8
  <2>13. CASE cur.node # b /\ ~(cur.dist > dist[cur.node])
    <3>1. PICK better :
            better = {e \in EdgesFrom(m, cur.node) : Improves(dist, e.to, cur.dist + e.cost)}
      OBVIOUS
    <3>2. PICK F : F = {e.to : e \in better}
      OBVIOUS
    <3>3. PICK c : c = [r \in F |-> cur.dist + Min({e.cost : e \in {f \in better : f.to = r}})]
      OBVIOUS
    <3>4. PICK nd : nd = [r \in D \cup F |-> IF r \in F THEN c[r] ELSE dist[r]]
      OBVIOUS
    <3>5. PICK nh : nh = Heaped(heap, cur, F, c)
      OBVIOUS
    <3>6. PICK v : v = [dist |-> nd, heap |-> nh, found |-> s.found]
      OBVIOUS
    <3>7. Settle(m, b, s) = v
      <4>1. Settle(m, b, s) = Relax(m, s, cur)
        BY <2>3, <2>4, <2>5, <2>8, <2>13 DEF Settle
      <4>2. Relax(m, s, cur) = v
        BY <2>2, <2>3, <2>4, <3>1, <3>2, <3>3, <3>4, <3>5, <3>6 DEF Relax, Entry, Heaped
      <4> QED
        BY <4>1, <4>2
    <3>8. Relaxes(m, D, dist, cur, F, c)
      <4>1. D = DOMAIN dist
        BY <2>2, <2>3
      <4>2. \A x \in D : dist[x] \in Nat
        BY <2>10
      <4>3. cur.dist \in Nat
        BY <2>10
      <4> QED
        BY ONLY MapOK(m), <3>1, <3>2, <3>3, <4>1, <4>2, <4>3, RelaxFinds
    <3>9. IsFiniteSet(F) /\ F \subseteq Regions(m) /\ Cardinality(F) <= Visits(m, a)
      <4>1. F \subseteq Regions(m)
        BY <3>1, <3>2, EdgeIsPath
      <4>2. IsFiniteSet(R) /\ F \subseteq R
        BY <2>1, <4>1, EdgesFinite, FS_AddElement
      <4> QED
        BY <2>1, <4>1, <4>2, FS_Subset DEF Visits
    <3>10. /\ Reheaps(heap, cur, F, c, nh) /\ IsFiniteSet(nh)
           /\ Cardinality(nh) <= (Cardinality(heap) - 1) + Cardinality(F)
           /\ Cardinality(nh) \in Nat /\ Cardinality(heap) \in Nat /\ Cardinality(F) \in Nat
      BY ONLY <2>9, <2>10, <3>5, <3>9, HeapMoves
    <3>11. Turn(m, D, dist, heap, cur, F, c, nd, nh)
      <4>1. cur.dist <= dist[cur.node]
        BY <2>10, <2>13
      <4>2. (\A r \in F : nd[r] = c[r]) /\ \A x \in D : x \in F \/ nd[x] = dist[x]
        BY <3>4
      <4> QED
        BY ONLY <2>9, <3>8, <3>10, <4>1, <4>2 DEF Turn
    <3>12. CostInv(m, a, b, D \cup F, nd, nh)
      BY ONLY MapOK(m), <2>6, <2>13, <3>10, <3>11, RelaxStep
    <3>13. v.dist = nd /\ v.heap = nh /\ v.found = NotFound /\ DOMAIN v.dist = D \cup F
      BY <2>5, <3>4, <3>6
    <3>14. v \in CostStates(m, a, b)
      <4>1. D \cup F \in SUBSET R /\ \A x \in D \cup F : nd[x] \in Nat
        BY <2>1, <3>12 DEF CostInv
      <4>2. nd \in [D \cup F -> Nat]
        BY ONLY <3>4, <4>1
      <4>3. nh \in SUBSET [node : R, dist : Nat]
        <5>1. \A e \in nh : e = Entry(e.node, e.dist) /\ e.node \in D \cup F /\ e.dist \in Nat
          BY <3>12 DEF CostInv
        <5>2. \A e \in nh : e \in [node : R, dist : Nat]
          BY ONLY <4>1, <5>1 DEF Entry
        <5> QED
          BY ONLY <5>2
      <4>4. v \in [dist : UNION {[X -> Nat] : X \in SUBSET R},
                   heap : SUBSET [node : R, dist : Nat], found : Nat \cup {NotFound}]
        BY ONLY <2>5, <3>6, <4>1, <4>2, <4>3
      <4>5. CostInv(m, a, b, DOMAIN v.dist, v.dist, v.heap)
        BY ONLY <3>12, <3>13
      <4> QED
        BY ONLY <2>1, <3>13, <4>4, <4>5 DEF CostStates
    <3>15. Spent(m, a, s) + 1 <= Spent(m, a, v)
      <4>1. PICK S : S = Settled(D, dist, heap)
        OBVIOUS
      <4>2. PICK n \in Nat : n = Visits(m, a)
        BY <2>6, SettledFew
      <4>3. PICK l \in Nat : l = Cardinality(S) /\ IsFiniteSet(S)
        BY <2>6, <4>1, SettledFew
      <4>4. /\ cur.node \notin S /\ Settled(D \cup F, nd, nh) = S \cup {cur.node}
        BY ONLY MapOK(m), <2>6, <3>11, <4>1, SettlesOne
      <4>5. Cardinality(S \cup {cur.node}) = l + 1
        BY <4>3, <4>4, FS_AddElement
      <4>6. Spent(m, a, s) = n * l - Cardinality(heap)
        BY <2>2, <2>3, <2>4, <4>1, <4>2, <4>3 DEF Spent
      <4>7. Spent(m, a, v) = n * (l + 1) - Cardinality(nh)
        BY <3>13, <4>2, <4>4, <4>5 DEF Spent
      <4>8. n * (l + 1) = n * l + n /\ n * l \in Nat
        OBVIOUS
      <4>9. PICK k \in Nat : k = n * l
        BY <4>8
      <4>10. Cardinality(F) <= n
        BY <3>9, <4>2
      <4>11. Spent(m, a, s) = k - Cardinality(heap) /\ Spent(m, a, v) = (k + n) - Cardinality(nh)
        BY <4>6, <4>7, <4>8, <4>9
      <4> QED
        BY ONLY <3>10, <4>10, <4>11, k \in Nat, n \in Nat
    <3> QED
      BY <1>2, <3>7, <3>14, <3>15
  <2> QED
    BY <2>11, <2>12, <2>13
<1> QED
  BY <1>1, <1>2

LEMMA CostStarts ==
  ASSUME NEW m, MapOK(m), NEW a, NEW b
  PROVE  LET s == [dist |-> [r \in {a} |-> 0], heap |-> {[node |-> a, dist |-> 0]},
                   found |-> NotFound]
         IN s \in CostStates(m, a, b) /\ -1 <= Spent(m, a, s)
<1>1. PICK dist : dist = [r \in {a} |-> 0]
  OBVIOUS
<1>2. PICK heap : heap = {Entry(a, 0)}
  OBVIOUS
<1>3. PICK s : s = [dist |-> dist, heap |-> heap, found |-> NotFound]
  OBVIOUS
<1>4. dist[a] = 0 /\ DOMAIN dist = {a} /\ dist \in [{a} -> Nat]
  BY <1>1
<1>5. CostInv(m, a, b, {a}, dist, heap) /\ Settled({a}, dist, heap) = {}
  BY ONLY <1>2, <1>4, CostInvStarts
<1>6. PICK R : R = Regions(m) \cup {a}
  OBVIOUS
<1>7. heap \in SUBSET [node : R, dist : Nat] /\ {a} \in SUBSET R
  BY <1>2, <1>6 DEF Entry
<1>8. s \in [dist : UNION {[D -> Nat] : D \in SUBSET R},
             heap : SUBSET [node : R, dist : Nat], found : Nat \cup {NotFound}]
  BY <1>3, <1>4, <1>7
<1>9. s \in CostStates(m, a, b)
  BY <1>3, <1>4, <1>5, <1>6, <1>8 DEF CostStates
<1>10. -1 <= Spent(m, a, s)
  <2>1. Cardinality(heap) = 1 /\ Cardinality({}) = 0
    BY <1>2, FS_Singleton, FS_EmptySet
  <2>2. Spent(m, a, s) = Visits(m, a) * 0 - 1
    BY <1>3, <1>4, <1>5, <2>1 DEF Spent
  <2>3. Visits(m, a) * 0 = 0
    <3>1. Visits(m, a) \in Nat
      BY <1>5, SettledFew
    <3> QED
      BY <3>1
  <2> QED
    BY <2>2, <2>3
<1> QED
  BY <1>1, <1>2, <1>3, <1>9, <1>10 DEF Entry

\* The loop of ShortestCost has ended, by its own condition, when it is over.
LEMMA CostLoop ==
  ASSUME NEW m, MapOK(m), NEW a, NEW b
  PROVE  \E s \in CostStates(m, a, b) :
           /\ CostEnd(s)
           /\ ShortestCost(m, a, b) = IF s.found # NotFound THEN s.found
                                      ELSE IF b \in DOMAIN s.dist THEN s.dist[b] ELSE Unreachable
<1>1. PICK V : V = CostStates(m, a, b)
  OBVIOUS
<1>2. PICK N \in Nat : N = Visits(m, a)
  <2>1. IsFiniteSet(Regions(m) \cup {a})
    BY EdgesFinite, FS_AddElement
  <2> QED
    BY <2>1, FS_CardinalityType DEF Visits
<1>3. PICK n \in Nat : n = Settles(m, a) /\ n = 1 + N * N
  <2>1. N * N \in Nat
    OBVIOUS
  <2> QED
    BY <1>2, <2>1 DEF Settles
<1>4. PICK start : start = [dist |-> [r \in {a} |-> 0], heap |-> {[node |-> a, dist |-> 0]},
                            found |-> NotFound]
  OBVIOUS
<1>5. start \in V /\ -1 <= Spent(m, a, start)
  BY <1>1, <1>4, CostStarts
<1>6. \A s \in V : Settle(m, b, s) \in V
  BY <1>1, SettleStays
<1> DEFINE turn == [k \in 1..n |-> [s \in V |-> Settle(m, b, s)]]
           loops(f) == f = [k \in 0..n |-> IF k = 0 THEN start ELSE Settle(m, b, f[k - 1])]
<1>7. \E f : loops(f)
  <2>1. turn \in [1..n -> [V -> V]]
    BY <1>6
  <2>2. \A k \in 1..n : \A s \in V : turn[k][s] = Settle(m, b, s)
    OBVIOUS
  <2> HIDE DEF turn
  <2>3. PICK g : Runs(g, n, V, start, turn)
    BY <1>5, <2>1, Iterates
  <2>4. \A k \in 1..n : k - 1 \in 0..n /\ g[k] = Settle(m, b, g[k - 1])
    <3>1. \A k \in 1..n : k - 1 \in 0..n
      OBVIOUS
    <3>2. \A k \in 1..n : g[k] = turn[k][g[k - 1]] /\ g[k - 1] \in V
      BY <2>3, <3>1 DEF Runs
    <3> QED
      BY <2>2, <3>1, <3>2
  <2>5. \A k \in 0..n : g[k] = IF k = 0 THEN start ELSE Settle(m, b, g[k - 1])
    <3>1. \A k \in 0..n : k = 0 \/ k \in 1..n
      OBVIOUS
    <3> QED
      BY <2>3, <2>4, <3>1 DEF Runs
  <2>6. loops(g)
    BY <2>3, <2>5 DEF Runs
  <2> QED
    BY <2>6
<1>8. ShortestCost(m, a, b) =
        LET s == (CHOOSE f : loops(f))[n]
        IN IF s.found # NotFound THEN s.found
           ELSE IF b \in DOMAIN s.dist THEN s.dist[b] ELSE Unreachable
  BY <1>3, <1>4 DEF ShortestCost
<1> HIDE DEF loops
<1>9. PICK f : f = (CHOOSE g : loops(g)) /\ loops(f)
  BY <1>7
<1>10. f[0] = start /\ \A k \in 0..(n - 1) : f[k + 1] = Settle(m, b, f[k])
  <2>1. \A k \in 0..n : f[k] = IF k = 0 THEN start ELSE Settle(m, b, f[k - 1])
    BY <1>9 DEF loops
  <2>2. 0 \in 0..n /\ \A k \in 0..(n - 1) : k + 1 \in 0..n /\ k + 1 # 0 /\ (k + 1) - 1 = k
    OBVIOUS
  <2> QED
    BY <2>1, <2>2
<1> DEFINE T == {k \in 0..n : f[k] \in V /\ (CostEnd(f[k]) \/ k - 1 <= Spent(m, a, f[k]))}
<1>11. \A s \in V : ~CostEnd(s) =>
         \E l \in 0..N : \E h \in Nat \ {0} : Spent(m, a, s) = N * l - h
  <2> SUFFICES ASSUME NEW s \in V, ~CostEnd(s)
               PROVE  \E l \in 0..N : \E h \in Nat \ {0} : Spent(m, a, s) = N * l - h
    OBVIOUS
  <2>1. CostInv(m, a, b, DOMAIN s.dist, s.dist, s.heap) /\ s.heap # {}
    BY <1>1 DEF CostStates, CostEnd
  <2>2. PICK l \in 0..N : l = Cardinality(Settled(DOMAIN s.dist, s.dist, s.heap))
    BY <1>2, <2>1, SettledFew
  <2>3. PICK h \in Nat \ {0} : h = Cardinality(s.heap)
    <3>1. IsFiniteSet(s.heap)
      BY <2>1 DEF CostInv
    <3> QED
      BY <2>1, <3>1, FS_EmptySet, FS_CardinalityType
  <2>4. Spent(m, a, s) = N * l - h
    BY <1>2, <2>2, <2>3 DEF Spent
  <2> QED
    BY <2>4
<1>12. \A k \in 0..n : k \in T
  <2>1. 0 \in T
    BY <1>5, <1>10
  <2>2. \A k \in 0..(n - 1) : k \in T => k + 1 \in T
    <3> SUFFICES ASSUME NEW k \in 0..(n - 1), k \in T PROVE k + 1 \in T
      OBVIOUS
    <3>1. k + 1 \in 0..n /\ f[k] \in V /\ f[k + 1] = Settle(m, b, f[k]) /\ f[k + 1] \in V
      BY <1>6, <1>10
    <3>2. CASE CostEnd(f[k])
      <4>1. f[k + 1] = f[k]
        BY <1>1, <3>1, <3>2, SettleStays
      <4> QED
        BY <3>1, <3>2, <4>1
    <3>3. CASE ~CostEnd(f[k]) /\ ~CostEnd(f[k + 1])
      <4>1. f[k + 1].found = NotFound
        BY <3>3 DEF CostEnd
      <4>2. Spent(m, a, f[k]) + 1 <= Spent(m, a, f[k + 1])
        BY <1>1, <3>1, <3>3, <4>1, SettleStays
      <4>3. PICK x \in Int : x = Spent(m, a, f[k])
        BY <1>11, <3>1, <3>3
      <4>4. PICK y \in Int : y = Spent(m, a, f[k + 1])
        BY <1>11, <3>1, <3>3
      <4>5. k - 1 <= x /\ x + 1 <= y
        BY <3>3, <4>2, <4>3, <4>4
      <4>6. (k + 1) - 1 <= y
        BY <4>5
      <4> QED
        BY <3>1, <4>4, <4>6
    <3>4. CASE CostEnd(f[k + 1])
      BY <3>1, <3>4
    <3> QED
      BY <3>2, <3>3, <3>4
  <2> HIDE DEF T
  <2> QED
    BY <2>1, <2>2, Spreads
<1>13. f[n] \in V /\ (CostEnd(f[n]) \/ n - 1 <= Spent(m, a, f[n]))
  <2>1. n \in 0..n
    OBVIOUS
  <2> QED
    BY <1>12, <2>1
<1>14. CostEnd(f[n])
  <2> SUFFICES ASSUME ~CostEnd(f[n]) PROVE FALSE
    OBVIOUS
  <2>1. PICK l \in 0..N, h \in Nat \ {0} : Spent(m, a, f[n]) = N * l - h
    BY <1>11, <1>13
  <2>2. PICK x \in Nat, y \in Nat : x = N * l /\ y = N * N /\ x <= y
    <3>1. N * l \in Nat /\ N * N \in Nat /\ N * l <= N * N
      OBVIOUS
    <3> QED
      BY <3>1
  <2>3. n = 1 + y /\ n - 1 <= x - h
    BY <1>3, <1>13, <2>1, <2>2
  <2> QED
    BY ONLY <2>2, <2>3, h \in Nat \ {0}
<1>15. PICK s : s = f[n]
  OBVIOUS
<1>16. ShortestCost(m, a, b) = IF s.found # NotFound THEN s.found
                               ELSE IF b \in DOMAIN s.dist THEN s.dist[b] ELSE Unreachable
  BY ONLY <1>8, <1>9, <1>15
<1> QED
  BY <1>1, <1>13, <1>14, <1>15, <1>16

\* ShortestCost finds the cost of a cheapest route, and Unreachable only if there
\* is none.
LEMMA CostIsCheapest ==
  ASSUME NEW m, MapOK(m), NEW a, NEW b
  PROVE  \/ Cheapest(m, a, b, ShortestCost(m, a, b))
         \/ /\ ShortestCost(m, a, b) = Unreachable
            /\ \A ps \in Seq(DOMAIN m) : ~LeadsTo(m, a, ps, b)
<1>1. PICK s : /\ s \in CostStates(m, a, b) /\ CostEnd(s)
               /\ ShortestCost(m, a, b) = IF s.found # NotFound THEN s.found
                                          ELSE IF b \in DOMAIN s.dist THEN s.dist[b] ELSE Unreachable
  BY CostLoop
<1>2. CASE s.found # NotFound
  BY <1>1, <1>2 DEF CostStates
<1>3. CASE s.found = NotFound
  <2>1. PICK D, dist, heap : D = DOMAIN s.dist /\ dist = s.dist /\ heap = s.heap
    OBVIOUS
  <2>2. CostInv(m, a, b, D, dist, heap)
    BY <1>1, <1>3, <2>1 DEF CostStates
  <2>3. heap = {}
    BY <1>1, <1>3, <2>1 DEF CostEnd
  <2>4. b \notin D
    BY <2>2, <2>3 DEF CostInv, Settled
  <2>5. ShortestCost(m, a, b) = Unreachable
    BY <1>1, <1>3, <2>1, <2>4
  <2>6. ASSUME NEW ps, ps \in Seq(DOMAIN m), LeadsTo(m, a, ps, b) PROVE FALSE
    <3>1. /\ RouteOf(m, a, ps).cost \in Nat
          /\ \/ b \in D /\ dist[b] <= RouteOf(m, a, ps).cost
             \/ \E e \in heap : e.dist <= RouteOf(m, a, ps).cost
      BY ONLY MapOK(m), <2>2, <2>6, CostBound
    <3> QED
      BY <2>3, <2>4, <3>1
  <2> QED
    BY <2>5, <2>6
<1> QED
  BY <1>2, <1>3

\* The routes that the property looks at are short enough to be listed.
LEMMA RoutesListed ==
  ASSUME NEW m, MapOK(m), NEW a, NEW b
  PROVE  /\ \A ps \in RoutesTo(m, a, b) : ps \in Seq(DOMAIN m) /\ LeadsTo(m, a, ps, b)
         /\ \A ps \in Seq(DOMAIN m) :
              LeadsTo(m, a, ps, b) /\ Len(ps) \in 0..(Visits(m, a) - 1) => ps \in RoutesTo(m, a, b)
<1>1. PICK D : D = DOMAIN m
  OBVIOUS
<1>2. PICK I : I = 0..(Visits(m, a) - 1)
  OBVIOUS
<1>3. I \subseteq Nat
  <2>1. Visits(m, a) \in Nat
    <3>1. IsFiniteSet(Regions(m) \cup {a})
      BY EdgesFinite, FS_AddElement
    <3> QED
      BY <3>1, FS_CardinalityType DEF Visits
  <2> QED
    BY <1>2, <2>1
<1>4. RoutesTo(m, a, b) = {ps \in UNION {[1..n -> D] : n \in I} : LeadsTo(m, a, ps, b)}
  BY <1>1, <1>2 DEF RoutesTo
<1>5. ASSUME NEW ps \in UNION {[1..n -> D] : n \in I} PROVE ps \in Seq(D)
  <2>1. PICK n \in I : ps \in [1..n -> D]
    OBVIOUS
  <2> QED
    BY <1>3, <2>1
<1>6. ASSUME NEW ps, ps \in Seq(D), Len(ps) \in I PROVE ps \in UNION {[1..n -> D] : n \in I}
  <2>1. ps \in [1..Len(ps) -> D]
    BY <1>6, LenProperties
  <2> QED
    BY <1>6, <2>1
<1> QED
  BY <1>1, <1>2, <1>4, <1>5, <1>6

LEMMA SearchesFind ==
  ASSUME NEW m, MapOK(m), NEW a, NEW b
  PROVE  Shortest(m, a, b)
<1>1. PICK routes : routes = RoutesTo(m, a, b)
  OBVIOUS
<1>2. PICK h : h = Hops(m, a, b)
  OBVIOUS
<1>3. PICK c : c = ShortestCost(m, a, b)
  OBVIOUS
<1>4. PICK P : P = {ps \in Seq(DOMAIN m) : LeadsTo(m, a, ps, b)}
  OBVIOUS
<1>5. routes \subseteq P /\ \A ps \in P : Len(ps) \in 0..(Visits(m, a) - 1) => ps \in routes
  BY <1>1, <1>4, RoutesListed
<1>6. \/ h = Unreachable /\ P = {}
      \/ (\E ps \in routes : h = Len(ps)) /\ \A ps \in P : h <= Len(ps)
  <2>1. CASE Fewest(m, a, b, h)
    <3>1. PICK d : Reached(m, a, b, h, d)
      BY <2>1 DEF Fewest
    <3>2. PICK ps \in P : Len(ps) = h
      BY <1>4, <3>1 DEF Reached
    <3>3. h \in 0..(Visits(m, a) - 1) /\ \A qs \in P : h <= Len(qs)
      BY <1>4, <2>1 DEF Fewest
    <3> QED
      BY <1>5, <3>2, <3>3
  <2>2. CASE h = Unreachable /\ \A ps \in Seq(DOMAIN m) : ~LeadsTo(m, a, ps, b)
    BY <1>4, <2>2
  <2> QED
    BY <1>2, <2>1, <2>2, HopsAreFewest
<1>7. \/ c = Unreachable /\ P = {}
      \/ /\ \E ps \in routes : c = RouteOf(m, a, ps).cost
         /\ \A ps \in P : c <= RouteOf(m, a, ps).cost
  <2>1. CASE Cheapest(m, a, b, c)
    <3>1. PICK n \in 0..(Visits(m, a) - 1) : Reached(m, a, b, n, c)
      BY <2>1 DEF Cheapest
    <3>2. PICK ps \in P : Len(ps) = n /\ RouteOf(m, a, ps).cost = c
      BY <1>4, <3>1 DEF Reached
    <3>3. \A qs \in P : c <= RouteOf(m, a, qs).cost
      BY <1>4, <2>1 DEF Cheapest
    <3> QED
      BY <1>5, <3>2, <3>3
  <2>2. CASE c = Unreachable /\ \A ps \in Seq(DOMAIN m) : ~LeadsTo(m, a, ps, b)
    BY <1>4, <2>2
  <2> QED
    BY <1>3, <2>1, <2>2, CostIsCheapest
<1>8. CASE P = {}
  <2>1. routes = {} /\ h = Unreachable /\ c = Unreachable
    BY <1>5, <1>6, <1>7, <1>8
  <2> QED
    BY <1>1, <1>2, <1>3, <2>1 DEF Shortest
<1>9. CASE P # {}
  <2>1. /\ \E ps \in routes : h = Len(ps)
        /\ \E ps \in routes : c = RouteOf(m, a, ps).cost
        /\ \A ps \in routes : h <= Len(ps) /\ c <= RouteOf(m, a, ps).cost
    BY <1>5, <1>6, <1>7, <1>9
  <2> QED
    BY <1>1, <1>2, <1>3, <2>1 DEF Shortest
<1> QED
  BY <1>8, <1>9

\* On every map with named regions and costs that are not negative, whatever the
\* regions: Hops counts the paths of a shortest route, ShortestCost is the cost
\* of a cheapest one, and both say so when there is none (map.go, lines 105 to 160).
THEOREM SearchesFindTheBest == Spec => []SearchesAreShortest
<1>1. SearchesAreShortest
  <2>1. ASSUME NEW m \in Maps, NEW a, NEW b PROVE Shortest(m, a, b)
    <3>1. MapOK(m)
      BY MapsAssumption DEF MapOK
    <3> QED
      BY <3>1, SearchesFind
  <2> QED
    BY <2>1 DEF SearchesAreShortest
<1> QED
  BY <1>1, PTL
=============================================================================
