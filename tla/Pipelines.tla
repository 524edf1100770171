----------------------------- MODULE Pipelines ------------------------------
(***************************************************************************)
(* One call of RunRouteRisk or RunIntercept (internal/pipeline): a         *)
(* dispatcher feeds a buffered channel, workers take candidates from it and*)
(* hand their scores over an unbuffered one, a closer closes that when the *)
(* workers are done, and the caller aggregates until it sees the close or  *)
(* the two seconds are over.  A select with several cases ready takes any. *)
(*                                                                         *)
(* The score is part of the candidate: it is a pure function of the        *)
(* snapshot the call was made with (Routes.tla), which nobody writes to.   *)
(***************************************************************************)
EXTENDS Integers, Sequences, FiniteSets

CONSTANTS
  Worker,      \* the goroutines that score (4)
  InCap,       \* places in the channel `in` (20 for route risk, 30 for intercept)
  Candidate,   \* what is scored: [id, target, score]
  Task         \* the calls: [kind, jobs], jobs a sequence of candidates

ASSUME WorkerAssumption == Worker # {}
ASSUME CapAssumption == InCap \in Nat \ {0}
ASSUME CandidateAssumption ==
  Candidate \subseteq [id : STRING, target : STRING, score : [num : Int, den : Nat \ {0}]]
ASSUME TaskAssumption == Task \subseteq [kind : {"risk", "intercept"}, jobs : Seq(Candidate)]

VARIABLES
  task,         \* the call that is made
  expired,      \* the two seconds were over before the caller had its answer
  next,         \* the dispatcher's next candidate
  dispatching,  \* the dispatcher runs; it closes `in` when it ends
  in,           \* candidates sent and not taken, by their number
  worker,       \* what each worker does
  outClosed,    \* wg.Wait() is over and `out` is closed
  collected,    \* the numbers of the candidates whose score arrived, in order
  best,         \* RunIntercept: the best entry of each unit so far
  answer        \* what the call returns

vars == <<task, expired, next, dispatching, in, worker, outClosed, collected, best, answer>>

-----------------------------------------------------------------------------

Jobs == task.jobs
Idle == [at |-> "range", job |-> 0]
Holding(j) == [at |-> "select", job |-> j]
Done == [at |-> "done", job |-> 0]

NoAnswer == [ready |-> FALSE, partial |-> FALSE, ranked |-> <<>>, byUnit |-> {}]

Init ==
  /\ task \in Task /\ expired = FALSE
  /\ next = 1 /\ dispatching = TRUE /\ in = <<>>
  /\ worker = [w \in Worker |-> Idle]
  /\ outClosed = FALSE /\ collected = <<>> /\ best = {} /\ answer = NoAnswer

\* ctx.Done() is closed by the timeout, or by the deferred cancel of a call that
\* has returned.
CtxDone == expired \/ answer.ready

Timeout ==
  /\ ~CtxDone /\ expired' = TRUE
  /\ UNCHANGED <<task, next, dispatching, in, worker, outClosed, collected, best, answer>>

-----------------------------------------------------------------------------
(* Dispatcher *)

Dispatch ==
  /\ dispatching /\ next <= Len(Jobs) /\ Len(in) < InCap
  /\ in' = Append(in, next) /\ next' = next + 1
  /\ UNCHANGED <<task, expired, dispatching, worker, outClosed, collected, best, answer>>

\* Mutant: the last candidate is left out.
DispatcherEnds_OneEarly ==
  /\ dispatching /\ (next >= Len(Jobs) \/ CtxDone)
  /\ dispatching' = FALSE
  /\ UNCHANGED <<task, expired, next, in, worker, outClosed, collected, best, answer>>

\* All is sent, or the context is done: the deferred close(in).
DispatcherEnds ==
  /\ dispatching /\ (next > Len(Jobs) \/ CtxDone)
  /\ dispatching' = FALSE
  /\ UNCHANGED <<task, expired, next, in, worker, outClosed, collected, best, answer>>

-----------------------------------------------------------------------------
(* Workers *)

\* Mutant: the candidate stays in the channel.
Take_Peeks(w) ==
  /\ worker[w] = Idle /\ in # <<>>
  /\ worker' = [worker EXCEPT ![w] = Holding(Head(in))]
  /\ UNCHANGED <<task, expired, next, dispatching, in, outClosed, collected, best, answer>>

Take(w) ==
  /\ worker[w] = Idle /\ in # <<>>
  /\ worker' = [worker EXCEPT ![w] = Holding(Head(in))] /\ in' = Tail(in)
  /\ UNCHANGED <<task, expired, next, dispatching, outClosed, collected, best, answer>>

\* `in` is closed and empty: the range loop ends.
WorkerEnds(w) ==
  /\ worker[w] = Idle /\ in = <<>> /\ ~dispatching
  /\ worker' = [worker EXCEPT ![w] = Done]
  /\ UNCHANGED <<task, expired, next, dispatching, in, outClosed, collected, best, answer>>

Below(x, y) == x.num * y.den < y.num * x.den

\* Mutant: the score that comes last is kept.
Keep_Last(entries, e) == {f \in entries : f.id # e.id} \cup {e}

\* `cur, seen := best[e.UnitID]; !seen || e.Score > cur.Score`
Keep(entries, e) ==
  IF \E cur \in entries : cur.id = e.id /\ ~Below(cur.score, e.score) THEN entries
  ELSE {f \in entries : f.id # e.id} \cup {e}

\* A worker's send and the aggregator's receive, which need each other.
Collect(w) ==
  /\ worker[w].at = "select" /\ ~answer.ready
  /\ worker' = [worker EXCEPT ![w] = Idle]
  /\ collected' = Append(collected, worker[w].job)
  /\ best' = IF task.kind = "intercept" THEN Keep(best, Jobs[worker[w].job]) ELSE best
  /\ UNCHANGED <<task, expired, next, dispatching, in, outClosed, answer>>

\* Mutant: a worker waits for the aggregator only.
WorkerCancelled_Never(w) == FALSE /\ UNCHANGED vars

WorkerCancelled(w) ==
  /\ worker[w].at = "select" /\ CtxDone
  /\ worker' = [worker EXCEPT ![w] = Done]
  /\ UNCHANGED <<task, expired, next, dispatching, in, outClosed, collected, best, answer>>

\* The goroutine that waits for the workers.
CloseOut ==
  /\ ~outClosed /\ \A w \in Worker : worker[w] = Done
  /\ outClosed' = TRUE
  /\ UNCHANGED <<task, expired, next, dispatching, in, worker, collected, best, answer>>

-----------------------------------------------------------------------------
(* Aggregator *)

\* sort.SliceStable by score: an entry's place is the number of entries with a
\* lower score, or the same one and an earlier arrival.
Ranked(s) ==
  LET before(j, k) == Below(s[j].score, s[k].score)
                        \/ (~Below(s[k].score, s[j].score) /\ j <= k)
      place(k) == Cardinality({j \in DOMAIN s : before(j, k)})
  IN [n \in DOMAIN s |-> s[CHOOSE k \in DOMAIN s : place(k) = n]]

\* Mutant: only the timeout makes a result partial.
Partial_TimeoutOnly(sawTimeout) == sawTimeout

\* What the caller knows to be missing: RunRouteRisk counts, RunIntercept does not.
Partial(sawTimeout) ==
  sawTimeout \/ (task.kind = "risk" /\ Len(collected) < Len(Jobs))

Answer(sawTimeout) ==
  /\ ~answer.ready
  /\ answer' = [ready |-> TRUE, partial |-> Partial(sawTimeout),
                ranked |-> IF task.kind = "risk"
                             THEN Ranked([k \in DOMAIN collected |-> Jobs[collected[k]]])
                             ELSE <<>>,
                byUnit |-> best]
  /\ UNCHANGED <<task, expired, next, dispatching, in, worker, outClosed, collected, best>>

SeesClose == outClosed /\ Answer(FALSE)
SeesTimeout == expired /\ Answer(TRUE)

-----------------------------------------------------------------------------
Dispatcher == Dispatch \/ DispatcherEnds
Work(w) == Take(w) \/ WorkerEnds(w) \/ Collect(w) \/ WorkerCancelled(w)
Aggregator == SeesClose \/ SeesTimeout

Next ==
  \/ Timeout
  \/ Dispatcher
  \/ \E w \in Worker : Work(w)
  \/ CloseOut
  \/ Aggregator

Spec == Init /\ [][Next]_vars

\* Every goroutine runs; nobody has to wait for the timeout.
FairSpec ==
  /\ Spec /\ WF_vars(Dispatcher) /\ WF_vars(CloseOut) /\ WF_vars(Aggregator)
  /\ \A w \in Worker : WF_vars(Work(w))
=============================================================================
