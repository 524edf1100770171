---------------------------- MODULE ServerProofs ----------------------------
(***************************************************************************)
(* For any players, orders, units and number of requests: what a player is *)
(* told of an order agrees with the records on the bus, and what the       *)
(* engine takes it plays or wipes once, in the game and turn it was taken  *)
(* in; and what an answer lists in a region are units of that region.      *)
(***************************************************************************)
EXTENDS ServerProps, SliceProofs

-----------------------------------------------------------------------------
(* Counting the copies of a record on a topic *)

LEMMA TimesInNone == \A o : Times(<<>>, o) = 0
<1> SUFFICES ASSUME NEW o PROVE Times(<<>>, o) = 0
  OBVIOUS
<1>1. {k \in DOMAIN <<>> : <<>>[k] = o} = {}
  BY EmptySeq
<1> QED
  BY <1>1, FS_EmptySet DEF Times

LEMMA TimesAppended ==
  ASSUME NEW S, NEW s \in Seq(S), NEW x \in S, NEW o
  PROVE  /\ Times(s, o) \in Nat
         /\ Times(Append(s, x), o) = Times(s, o) + (IF x = o THEN 1 ELSE 0)
<1> DEFINE t == Append(s, x)
           before == {k \in DOMAIN s : s[k] = o}
           after == {k \in DOMAIN t : t[k] = o}
<1>1. /\ DOMAIN t = 1..(Len(s) + 1) /\ DOMAIN s = 1..Len(s) /\ Len(s) \in Nat
      /\ \A k \in 1..Len(s) : t[k] = s[k]
      /\ t[Len(s) + 1] = x
  BY AppendProperties, LenProperties
<1>2. IsFiniteSet(before) /\ Cardinality(before) \in Nat /\ Len(s) + 1 \notin before
  <2>1. IsFiniteSet(1..Len(s))
    BY <1>1, FS_Interval
  <2>2. before \in SUBSET (1..Len(s))
    BY <1>1
  <2> QED
    BY <1>1, <2>1, <2>2, FS_Subset, FS_CardinalityType
<1> HIDE DEF t
<1>3. after = IF x = o THEN before \cup {Len(s) + 1} ELSE before
  <2>1. \A k \in DOMAIN t : k \in DOMAIN s \/ k = Len(s) + 1
    BY <1>1
  <2> QED
    BY <1>1, <2>1
<1> HIDE DEF before, after
<1>4. Cardinality(before \cup {Len(s) + 1}) = Cardinality(before) + 1
  BY <1>2, FS_AddElement
<1>5. Cardinality(after) = Cardinality(before) + (IF x = o THEN 1 ELSE 0)
  BY <1>2, <1>3, <1>4
<1> QED
  BY <1>2, <1>5 DEF Times, before, after, t

LEMMA TimesOfMember ==
  ASSUME NEW S, NEW s \in Seq(S), NEW o
  PROVE  Times(s, o) = 0 <=> o \notin Range(s)
<1> DEFINE at == {k \in DOMAIN s : s[k] = o}
<1>1. IsFiniteSet(at)
  <2>1. DOMAIN s = 1..Len(s) /\ Len(s) \in Nat
    BY LenProperties
  <2>2. IsFiniteSet(1..Len(s))
    BY <2>1, FS_Interval
  <2>3. at \in SUBSET (1..Len(s))
    BY <2>1
  <2> QED
    BY <2>2, <2>3, FS_Subset
<1>2. Cardinality(at) = 0 <=> at = {}
  BY <1>1, FS_EmptySet
<1> QED
  BY <1>2 DEF Times, Range

LEMMA RangeAppended ==
  ASSUME NEW S, NEW s \in Seq(S), NEW x \in S
  PROVE  Append(s, x) \in Seq(S) /\ Range(Append(s, x)) = Range(s) \cup {x}
<1> DEFINE t == Append(s, x)
<1>1. /\ t \in Seq(S) /\ DOMAIN t = 1..(Len(s) + 1) /\ DOMAIN s = 1..Len(s) /\ Len(s) \in Nat
      /\ \A k \in 1..Len(s) : t[k] = s[k]
      /\ t[Len(s) + 1] = x
  BY AppendProperties, LenProperties
<1> HIDE DEF t
<1>2. \A k \in DOMAIN t : k \in DOMAIN s \/ k = Len(s) + 1
  BY <1>1
<1>3. Range(t) = Range(s) \cup {x}
  BY <1>1, <1>2 DEF Range
<1> QED
  BY <1>1, <1>3 DEF t

LEMMA RangeOfNone == Range(<<>>) = {} /\ \A S : <<>> \in Seq(S)
<1>1. DOMAIN <<>> = {}
  BY EmptySeq
<1> QED
  BY <1>1, EmptySeq DEF Range

-----------------------------------------------------------------------------
(* The life of an order in its handler *)

Order == [by : Client, n : Nat, unit : Unit, turn : 1..MaxTurns]

AtWork(c) == pc[c] \in {"submit", "record"}

OrderTypes ==
  /\ raw \in Seq(Order) /\ validated \in Seq(Order) /\ dlq \in Seq(Order)
  /\ pending \in Seq(Order)
  /\ asked \in [Client -> Nat]
  /\ DOMAIN pc = Client /\ DOMAIN ask = Client /\ DOMAIN verdict = Client

\* Every order is put on game.orders.raw first, and numbered by its client.
AllArrived ==
  /\ Range(pending) \cup Range(validated) \cup Range(dlq) \cup {a.order : a \in replies}
       \cup {f.order : f \in fate} \subseteq Range(raw)
  /\ \A o \in Range(raw) : Times(raw, o) = 1 /\ o.n <= asked[o.by]

\* The order a handler works on has no verdict on a topic and no answer yet; the
\* engine has taken it if the handler knows so.
InHand(c) ==
  AtWork(c) =>
    /\ ask[c] \in Range(raw) /\ ask[c].by = c
    /\ Times(validated, ask[c]) = 0 /\ Times(dlq, ask[c]) = 0
    /\ \A a \in replies : a.order # ask[c]
    /\ Accepted(ask[c]) <=> pc[c] = "record" /\ verdict[c] = "OK"

AnsweredRight ==
  \A a \in replies :
    /\ Times(validated, a.order) = (IF Accepted(a.order) THEN 1 ELSE 0)
    /\ Times(dlq, a.order) = (IF Accepted(a.order) THEN 0 ELSE 1)
    /\ a.code = IF Accepted(a.order) THEN 202 ELSE 422

OrderInv ==
  /\ OrderTypes /\ AllArrived /\ AnsweredRight
  /\ \A c \in Client : InHand(c)

LEMMA InitOrder == Init => OrderInv
<1> SUFFICES ASSUME Init PROVE OrderInv
  OBVIOUS
<1>1. OrderTypes
  BY RangeOfNone DEF Init, OrderTypes
<1>2. /\ Range(raw) = {} /\ Range(pending) = {} /\ Range(validated) = {} /\ Range(dlq) = {}
      /\ fate = {} /\ replies = {} /\ \A c \in Client : ~AtWork(c)
  BY RangeOfNone DEF Init, AtWork
<1> QED
  BY <1>1, <1>2 DEF OrderInv, AllArrived, AnsweredRight, InHand

\* A step that works on no order: requests of another kind, turns, snapshots.
LEMMA QuietOrder ==
  ASSUME OrderInv, UNCHANGED <<ask, verdict, topics, replies>>,
         pending' = pending \/ pending' = <<>>,
         fate \subseteq fate',
         \A f \in fate' : f \in fate \/ (f.order \in Range(pending) /\ f.what # "accepted"),
         asked' \in [Client -> Nat], DOMAIN pc' = Client,
         \A c \in Client : asked[c] <= asked'[c] /\ (AtWork(c)' => pc'[c] = pc[c])
  PROVE  OrderInv'
<1> USE DEF OrderInv
<1>1. UNCHANGED <<raw, validated, dlq, ask, verdict, replies>>
  BY DEF topics
<1>2. pending' \in Seq(Order) /\ Range(pending') \subseteq Range(pending)
  BY RangeOfNone DEF OrderTypes
<1>3. OrderTypes'
  BY <1>1, <1>2 DEF OrderTypes
<1>4. AllArrived'
  <2>1. ASSUME NEW o \in Range(raw) PROVE o.n <= asked'[o.by]
    <3>1. o \in Order
      BY ElementOfSeq, LenProperties DEF Range, OrderTypes
    <3>2. o.by \in Client /\ o.n \in Nat /\ o.n <= asked[o.by]
      BY <3>1 DEF Order, AllArrived
    <3> QED
      BY <3>2 DEF OrderTypes
  <2>2. \A o : Times(raw, o)' = Times(raw, o)
    BY <1>1 DEF Times
  <2>3. {f.order : f \in fate'} \subseteq Range(raw)
    BY DEF AllArrived
  <2> QED
    BY <1>1, <1>2, <2>1, <2>2, <2>3 DEF AllArrived
<1>5. /\ \A o : Accepted(o)' <=> Accepted(o)
      /\ \A o : Times(validated, o)' = Times(validated, o) /\ Times(dlq, o)' = Times(dlq, o)
  <2>1. \A o : Accepted(o)' <=> Accepted(o)
    BY DEF Accepted
  <2> QED
    BY <1>1, <2>1 DEF Times
<1>6. AnsweredRight'
  BY <1>1, <1>5 DEF AnsweredRight
<1>7. \A c \in Client : InHand(c)'
  <2> SUFFICES ASSUME NEW c \in Client, AtWork(c)' PROVE InHand(c)'
    BY DEF InHand
  <2>1. AtWork(c) /\ pc'[c] = pc[c]
    BY DEF AtWork
  <2> QED
    BY <1>1, <1>5, <2>1 DEF InHand
<1> QED
  BY <1>3, <1>4, <1>6, <1>7

\* Asking changes the asker only.
LEMMA AskedOnce ==
  ASSUME OrderTypes, NEW c \in Client, NEW step, Asks(c, step)
  PROVE  /\ asked' \in [Client -> Nat] /\ asked'[c] = asked[c] + 1
         /\ \A d \in Client : d # c => asked'[d] = asked[d] /\ pc'[d] = pc[d]
         /\ DOMAIN pc' = Client /\ pc'[c] = step /\ ~AtWork(c)
BY DEF OrderTypes, Asks, AtWork

LEMMA ArrivesOrder ==
  ASSUME OrderInv, NEW c \in Client, NEW u \in Unit, NEW t \in 1..MaxTurns, OrderArrives(c, u, t)
  PROVE  OrderInv'
<1> USE DEF OrderInv
<1> DEFINE o == [by |-> c, n |-> asked[c] + 1, unit |-> u, turn |-> t]
<1>1. /\ asked' \in [Client -> Nat] /\ asked'[c] = asked[c] + 1
      /\ \A d \in Client : d # c => asked'[d] = asked[d] /\ pc'[d] = pc[d]
      /\ DOMAIN pc' = Client /\ pc'[c] = "submit" /\ ~AtWork(c)
  BY AskedOnce DEF OrderArrives
<1>2. /\ ask' = [ask EXCEPT ![c] = o] /\ raw' = Append(raw, o)
      /\ UNCHANGED <<verdict, validated, dlq, fate, replies, pending>>
  BY <1>1 DEF OrderArrives, engineVars
<1>3. o \in Order /\ o.by = c /\ o.n = asked'[c]
  BY <1>1 DEF OrderTypes, Order
<1> HIDE DEF o
<1>4. \A r \in Range(raw) : r \in Order /\ r # o /\ r.n <= asked'[r.by]
  <2> SUFFICES ASSUME NEW r \in Range(raw)
               PROVE  r \in Order /\ r # o /\ r.n <= asked'[r.by]
    OBVIOUS
  <2>1. r \in Order
    BY ElementOfSeq, LenProperties DEF Range, OrderTypes
  <2>2. r.by \in Client /\ r.n \in Nat /\ r.n <= asked[r.by]
    BY <2>1 DEF Order, AllArrived
  <2>3. asked[r.by] \in Nat /\ asked[r.by] <= asked'[r.by] /\ asked[c] \in Nat
    <3>1. /\ asked[r.by] \in Nat /\ asked[c] \in Nat
          /\ asked'[c] = asked[c] + 1 /\ (r.by # c => asked'[r.by] = asked[r.by])
      BY <1>1, <2>2 DEF OrderTypes
    <3>2. CASE r.by = c
      BY <3>1, <3>2
    <3>3. CASE r.by # c
      BY <3>1, <3>3
    <3> QED
      BY <3>2, <3>3
  <2>4. r # o
    BY <1>1, <1>3, <2>2, <2>3
  <2> QED
    BY <1>1, <2>1, <2>2, <2>3, <2>4
<1>5. /\ raw' \in Seq(Order) /\ Range(raw') = Range(raw) \cup {o}
      /\ \A r \in Range(raw') : Times(raw', r) = 1
  <2>1. raw \in Seq(Order)
    BY DEF OrderTypes
  <2>2. raw' \in Seq(Order) /\ Range(raw') = Range(raw) \cup {o}
    BY <1>2, <1>3, <2>1, RangeAppended
  <2>3. o \notin Range(raw)
    BY <1>4
  <2>4. Times(raw, o) = 0
    BY <2>1, <2>3, TimesOfMember
  <2>5. Times(raw', o) = 1
    <3>1. Times(Append(raw, o), o) = Times(raw, o) + (IF o = o THEN 1 ELSE 0)
      BY <1>3, <2>1, TimesAppended
    <3> QED
      BY <1>2, <2>4, <3>1
  <2>6. ASSUME NEW r \in Range(raw) PROVE Times(raw', r) = 1
    <3>1. /\ Times(raw, r) \in Nat
          /\ Times(Append(raw, o), r) = Times(raw, r) + (IF o = r THEN 1 ELSE 0)
      BY <1>3, <2>1, TimesAppended
    <3>2. o # r /\ Times(raw, r) = 1
      BY <1>4 DEF AllArrived
    <3> QED
      BY <1>2, <3>1, <3>2
  <2> QED
    BY <2>2, <2>5, <2>6
<1>6. OrderTypes'
  BY <1>1, <1>2, <1>5 DEF OrderTypes
<1>7. AllArrived'
  <2>1. \A r \in Range(raw') : r.n <= asked'[r.by]
    BY <1>1, <1>3, <1>4, <1>5
  <2> QED
    BY <1>2, <1>5, <2>1 DEF AllArrived
<1>8. /\ \A r : Accepted(r)' <=> Accepted(r)
      /\ \A r : Times(validated, r)' = Times(validated, r) /\ Times(dlq, r)' = Times(dlq, r)
  BY <1>2 DEF Accepted, Times
<1>9. AnsweredRight'
  BY <1>2, <1>8 DEF AnsweredRight
<1>10. InHand(c)'
  <2>1. ask'[c] = o
    BY <1>2 DEF OrderTypes
  <2>2. o \notin Range(validated) /\ o \notin Range(dlq) /\ ~Accepted(o)
        /\ \A a \in replies : a.order # o
    BY <1>4 DEF AllArrived, Accepted
  <2>3. Times(validated, o) = 0 /\ Times(dlq, o) = 0
    BY <2>2, TimesOfMember DEF OrderTypes
  <2> QED
    BY <1>1, <1>2, <1>3, <1>5, <1>8, <2>1, <2>2, <2>3 DEF InHand
<1>11. ASSUME NEW d \in Client, d # c PROVE InHand(d)'
  <2>1. ask'[d] = ask[d] /\ pc'[d] = pc[d] /\ verdict'[d] = verdict[d]
    BY <1>1, <1>2, <1>11 DEF OrderTypes
  <2> QED
    BY <1>2, <1>5, <1>8, <2>1 DEF InHand, AtWork
<1> QED
  BY <1>6, <1>7, <1>9, <1>10, <1>11

\* Handlers work on different orders.
LEMMA AsksDiffer ==
  ASSUME OrderInv, NEW c \in Client, AtWork(c), NEW d \in Client, AtWork(d), c # d
  PROVE  ask[c] # ask[d]
BY DEF OrderInv, InHand

LEMMA SubmitOrder ==
  ASSUME OrderInv, NEW c \in Client, Submit(c)
  PROVE  OrderInv'
<1> USE DEF OrderInv
<1> DEFINE o == ask[c]
<1>1. PICK v \in Verdicts(o) :
        /\ verdict' = [verdict EXCEPT ![c] = v]
        /\ pending' = IF v = "OK" THEN Append(pending, o) ELSE pending
        /\ fate' = IF v = "OK" THEN fate \cup {Marked(o, "accepted")} ELSE fate
  BY DEF Submit
<1>2. /\ pc[c] = "submit" /\ pc' = [pc EXCEPT ![c] = "record"]
      /\ UNCHANGED <<ask, raw, validated, dlq, asked, replies>>
  BY DEF Submit, topics
<1>3. /\ AtWork(c) /\ o \in Range(raw) /\ ~Accepted(o) /\ \A a \in replies : a.order # o
  BY <1>2 DEF InHand, AtWork
<1>4. o \in Order
  BY <1>3, ElementOfSeq, LenProperties DEF Range, OrderTypes
<1> HIDE DEF o
<1>5. pending' \in Seq(Order) /\ Range(pending') \subseteq Range(pending) \cup {o}
  BY <1>1, <1>4, RangeAppended DEF OrderTypes
<1>6. \A r : Accepted(r)' <=> Accepted(r) \/ (v = "OK" /\ r = o)
  <2>1. CASE v # "OK"
    BY <1>1, <2>1 DEF Accepted
  <2>2. CASE v = "OK"
    <3> DEFINE m == Marked(o, "accepted")
    <3>1. m.order = o /\ m.what = "accepted" /\ fate' = fate \cup {m}
      BY <1>1, <2>2 DEF Marked
    <3> HIDE DEF m
    <3> QED
      BY <2>2, <3>1 DEF Accepted
  <2> QED
    BY <2>1, <2>2
<1>7. {f.order : f \in fate'} \subseteq {f.order : f \in fate} \cup {o}
  BY <1>1 DEF Marked
<1>8. OrderTypes'
  BY <1>1, <1>2, <1>5 DEF OrderTypes
<1>9. \A s : Times(raw, s)' = Times(raw, s) /\ Times(validated, s)' = Times(validated, s)
             /\ Times(dlq, s)' = Times(dlq, s)
  BY <1>2 DEF Times
<1>10. AllArrived'
  BY <1>2, <1>3, <1>5, <1>7, <1>9 DEF AllArrived
<1>11. AnsweredRight'
  BY <1>2, <1>3, <1>6, <1>9 DEF AnsweredRight
<1>12. InHand(c)'
  <2>1. pc'[c] = "record" /\ verdict'[c] = v /\ ask'[c] = o
    BY <1>1, <1>2 DEF OrderTypes, o
  <2>2. o.by = c /\ Times(validated, o) = 0 /\ Times(dlq, o) = 0
    BY <1>3 DEF InHand, o
  <2> QED
    BY <1>2, <1>3, <1>6, <1>9, <2>1, <2>2 DEF InHand
<1>13. ASSUME NEW d \in Client, d # c PROVE InHand(d)'
  <2>1. pc'[d] = pc[d] /\ verdict'[d] = verdict[d] /\ ask'[d] = ask[d]
    BY <1>1, <1>2, <1>13 DEF OrderTypes
  <2>2. AtWork(d) => ask[d] # o
    BY <1>3, <1>13, AsksDiffer DEF o
  <2> QED
    BY <1>2, <1>6, <1>9, <2>1, <2>2 DEF InHand, AtWork
<1> QED
  BY <1>8, <1>10, <1>11, <1>12, <1>13

LEMMA RecordOrder ==
  ASSUME OrderInv, NEW c \in Client, Record(c)
  PROVE  OrderInv'
<1> USE DEF OrderInv
<1> DEFINE o == ask[c]
           ok == verdict[c] = "OK"
<1>1. /\ pc[c] = "record" /\ pc' = [pc EXCEPT ![c] = "idle"]
      /\ ask' = [ask EXCEPT ![c] = NoOrder] /\ verdict' = [verdict EXCEPT ![c] = ""]
      /\ UNCHANGED <<raw, pending, asked, fate>>
  BY DEF Record, Forget, engineVars
<1>2. /\ dlq' = IF ok THEN dlq ELSE Append(dlq, o)
      /\ validated' = IF ok THEN Append(validated, o) ELSE validated
      /\ replies' = replies \cup {[order |-> o, code |-> IF ok THEN 202 ELSE 422]}
  BY DEF Record, Reply
<1>3. /\ AtWork(c) /\ o \in Range(raw) /\ \A a \in replies : a.order # o
      /\ Times(validated, o) = 0 /\ Times(dlq, o) = 0 /\ (Accepted(o) <=> ok)
  BY <1>1 DEF InHand, AtWork
<1>4. o \in Order
  BY <1>3, ElementOfSeq, LenProperties DEF Range, OrderTypes
<1>5. \A d \in Client : d # c /\ AtWork(d) => ask[d] # o
  BY <1>3, AsksDiffer
<1> HIDE DEF o, ok
<1>6. /\ dlq' \in Seq(Order) /\ validated' \in Seq(Order)
      /\ Range(dlq') \subseteq Range(dlq) \cup {o}
      /\ Range(validated') \subseteq Range(validated) \cup {o}
  BY <1>2, <1>4, RangeAppended DEF OrderTypes
<1>7. ASSUME NEW r
      PROVE  /\ Times(dlq', r) = Times(dlq, r) + (IF ~ok /\ o = r THEN 1 ELSE 0)
             /\ Times(validated', r) = Times(validated, r) + (IF ok /\ o = r THEN 1 ELSE 0)
  <2>1. dlq \in Seq(Order) /\ validated \in Seq(Order)
    BY DEF OrderTypes
  <2>2. /\ Times(dlq, r) \in Nat
        /\ Times(Append(dlq, o), r) = Times(dlq, r) + (IF o = r THEN 1 ELSE 0)
    BY <1>4, <2>1, TimesAppended
  <2>3. /\ Times(validated, r) \in Nat
        /\ Times(Append(validated, o), r) = Times(validated, r) + (IF o = r THEN 1 ELSE 0)
    BY <1>4, <2>1, TimesAppended
  <2> QED
    BY <1>2, <2>2, <2>3
<1>8. \A r : Accepted(r)' <=> Accepted(r)
  BY <1>1 DEF Accepted
<1>9. ASSUME NEW r, r # o
      PROVE  Times(dlq', r) = Times(dlq, r) /\ Times(validated', r) = Times(validated, r)
  <2>1. Times(dlq, r) \in Nat /\ Times(validated, r) \in Nat
    BY <1>4, TimesAppended DEF OrderTypes
  <2> QED
    BY <1>7, <1>9, <2>1
<1>10. OrderTypes'
  BY <1>1, <1>6 DEF OrderTypes
<1>11. AllArrived'
  <2>1. {a.order : a \in replies'} \subseteq {a.order : a \in replies} \cup {o}
    BY <1>2
  <2>2. \A r : Times(raw, r)' = Times(raw, r)
    BY <1>1 DEF Times
  <2> QED
    BY <1>1, <1>3, <1>6, <2>1, <2>2 DEF AllArrived
<1>12. AnsweredRight'
  <2> SUFFICES ASSUME NEW a \in replies'
               PROVE  /\ Times(validated', a.order) = (IF Accepted(a.order) THEN 1 ELSE 0)
                      /\ Times(dlq', a.order) = (IF Accepted(a.order) THEN 0 ELSE 1)
                      /\ a.code = IF Accepted(a.order) THEN 202 ELSE 422
    BY <1>8 DEF AnsweredRight, Times
  <2>1. CASE a \in replies
    <3>1. a.order # o
      BY <1>3, <2>1
    <3> QED
      BY <1>9, <2>1, <3>1 DEF AnsweredRight
  <2>2. CASE a = [order |-> o, code |-> IF ok THEN 202 ELSE 422]
    <3>1. /\ Times(dlq', o) = (IF ok THEN 0 ELSE 1)
          /\ Times(validated', o) = (IF ok THEN 1 ELSE 0)
      BY <1>3, <1>7
    <3> QED
      BY <1>3, <2>2, <3>1
  <2> QED
    BY <1>2, <2>1, <2>2
<1>13. InHand(c)'
  BY <1>1 DEF InHand, AtWork, OrderTypes
<1>14. ASSUME NEW d \in Client, d # c PROVE InHand(d)'
  <2> SUFFICES ASSUME AtWork(d)' PROVE InHand(d)'
    BY DEF InHand
  <2>1. ask'[d] = ask[d] /\ pc'[d] = pc[d] /\ verdict'[d] = verdict[d]
    BY <1>1, <1>14 DEF OrderTypes
  <2>2. AtWork(d) /\ ask[d] # o
    BY <1>5, <1>14, <2>1 DEF AtWork
  <2>3. /\ ask[d] \in Range(raw) /\ ask[d].by = d
        /\ Times(validated, ask[d]) = 0 /\ Times(dlq, ask[d]) = 0
        /\ \A a \in replies : a.order # ask[d]
        /\ Accepted(ask[d]) <=> pc[d] = "record" /\ verdict[d] = "OK"
    BY <2>2 DEF InHand
  <2>4. Times(validated', ask[d]) = 0 /\ Times(dlq', ask[d]) = 0
    BY <1>9, <2>2, <2>3
  <2>5. \A a \in replies' : a.order # ask[d]
    BY <1>2, <2>2, <2>3
  <2>6. \A r : Times(validated, r)' = Times(validated', r) /\ Times(dlq, r)' = Times(dlq', r)
    BY DEF Times
  <2>7. /\ ask'[d] \in Range(raw') /\ ask'[d].by = d
        /\ Times(validated, ask[d])' = 0 /\ Times(dlq, ask[d])' = 0
        /\ \A a \in replies' : a.order # ask'[d]
    BY <1>1, <2>1, <2>3, <2>4, <2>5, <2>6
  <2>8. Accepted(ask[d])' <=> pc'[d] = "record" /\ verdict'[d] = "OK"
    BY <1>8, <2>1, <2>3
  <2> QED
    BY <2>7, <2>8 DEF InHand
<1> QED
  BY <1>10, <1>11, <1>12, <1>13, <1>14

\* What a turn or a reset says of the orders it found in the queue.
LEMMA MarksQueue ==
  ASSUME NEW what, what # "accepted",
         fate' = fate \cup {Marked(o, what) : o \in Range(pending)}
  PROVE  /\ fate \subseteq fate'
         /\ \A f \in fate' : f \in fate \/ (f.order \in Range(pending) /\ f.what # "accepted")
<1> SUFFICES ASSUME NEW f \in fate', f \notin fate
             PROVE  f.order \in Range(pending) /\ f.what # "accepted"
  OBVIOUS
<1>1. PICK o \in Range(pending) : f = Marked(o, what)
  OBVIOUS
<1> QED
  BY <1>1 DEF Marked

\* A snapshot taken sends its handler on to encode it.
LEMMA ShowsOne ==
  ASSUME OrderTypes, NEW h \in Client \cup {Timer}, NEW s, Shows(h, s)
  PROVE  DOMAIN pc' = Client /\ \A c \in Client : AtWork(c)' => pc'[c] = pc[c]
BY DEF OrderTypes, Shows, AtWork

LEMMA StepOrder == OrderInv /\ [Next]_vars => OrderInv'
<1> SUFFICES ASSUME OrderInv, [Next]_vars PROVE OrderInv'
  OBVIOUS
<1> USE DEF OrderInv
<1>1. ASSUME NEW c \in Client, BadJSON(c) \/ TickArrives(c) \/ ResetArrives(c) \/ StateArrives(c)
      PROVE  OrderInv'
  <2>1. PICK step \in {"idle", "tick", "reset", "snapshot"} : Asks(c, step)
    BY <1>1 DEF BadJSON, TickArrives, ResetArrives, StateArrives
  <2>2. UNCHANGED <<ask, verdict, topics, fate, replies, pending>>
    BY <1>1 DEF BadJSON, TickArrives, ResetArrives, StateArrives, engineVars
  <2>3. /\ asked' \in [Client -> Nat] /\ asked'[c] = asked[c] + 1
        /\ \A d \in Client : d # c => asked'[d] = asked[d] /\ pc'[d] = pc[d]
        /\ DOMAIN pc' = Client /\ pc'[c] = step
    BY <2>1, AskedOnce
  <2>4. \A d \in Client : asked[d] <= asked'[d] /\ (AtWork(d)' => pc'[d] = pc[d])
    BY <2>3 DEF OrderTypes, AtWork
  <2> QED
    BY <2>2, <2>3, <2>4, QuietOrder
<1>2. ASSUME UNCHANGED <<ask, verdict, topics, replies, asked>>, DOMAIN pc' = Client,
             \A c \in Client : AtWork(c)' => pc'[c] = pc[c],
             pending' = pending \/ pending' = <<>>,
             fate \subseteq fate',
             \A f \in fate' : f \in fate \/ (f.order \in Range(pending) /\ f.what # "accepted")
      PROVE  OrderInv'
  <2>1. /\ asked' \in [Client -> Nat]
        /\ \A c \in Client : asked[c] <= asked'[c] /\ (AtWork(c)' => pc'[c] = pc[c])
    BY <1>2 DEF OrderTypes
  <2> QED
    BY <1>2, <2>1, QuietOrder
<1>3. ASSUME NEW c \in Client, TickAfterTheEnd(c) \/ TakeSnapshot(c) PROVE OrderInv'
  <2>1. PICK s : Shows(c, s)
    BY <1>3 DEF TickAfterTheEnd, TakeSnapshot
  <2>2. UNCHANGED <<ask, verdict, topics, replies, asked, pending, fate>>
    BY <1>3 DEF TickAfterTheEnd, TakeSnapshot, engineVars
  <2>3. DOMAIN pc' = Client /\ \A d \in Client : AtWork(d)' => pc'[d] = pc[d]
    BY <2>1, ShowsOne
  <2> QED
    BY <1>2, <2>2, <2>3
<1>4. CASE TurnEnds
  <2>1. holder \in Client \cup {Timer} /\ \E s : Shows(holder, s)
    BY <1>4 DEF TurnEnds, Wants
  <2>2. /\ UNCHANGED <<ask, verdict, topics, replies, asked>> /\ pending' = <<>>
        /\ fate' = fate \cup {Marked(o, "played") : o \in Range(pending)}
    BY <1>4 DEF TurnEnds
  <2>3. DOMAIN pc' = Client /\ \A d \in Client : AtWork(d)' => pc'[d] = pc[d]
    BY <2>1, ShowsOne
  <2> QED
    BY <1>2, <2>2, <2>3, MarksQueue
<1>5. ASSUME NEW c \in Client, Reset(c) PROVE OrderInv'
  <2>1. /\ UNCHANGED <<ask, verdict, topics, replies, asked>> /\ pending' = <<>>
        /\ fate' = fate \cup {Marked(o, "wiped") : o \in Range(pending)}
        /\ pc' = [pc EXCEPT ![c] = "snapshot"]
    BY <1>5 DEF Reset
  <2>2. DOMAIN pc' = Client /\ \A d \in Client : AtWork(d)' => pc'[d] = pc[d]
    BY <2>1 DEF OrderTypes, AtWork
  <2> QED
    BY <1>2, <2>1, <2>2, MarksQueue
<1>6. ASSUME NEW c \in Client, Encode(c) PROVE OrderInv'
  <2>1. /\ UNCHANGED <<ask, verdict, topics, replies, asked, pending, fate>>
        /\ \E to \in {"answered", "encode"} : pc' = [pc EXCEPT ![c] = to]
    BY <1>6 DEF Encode, engineVars
  <2>2. DOMAIN pc' = Client /\ \A d \in Client : AtWork(d)' => pc'[d] = pc[d]
    BY <2>1 DEF OrderTypes, AtWork
  <2> QED
    BY <1>2, <2>1, <2>2
<1>7. CASE \/ \E h \in Client \cup {Timer} : TurnBegins(h)
           \/ InTurn
           \/ UNCHANGED vars
  <2>1. UNCHANGED <<ask, verdict, topics, replies, asked, pending, fate, pc>>
    BY <1>7 DEF TurnBegins, InTurn, handlerVars, vars, engineVars
  <2> QED
    BY <1>2, <2>1 DEF OrderTypes
<1> QED
  BY <1>1, <1>3, <1>4, <1>5, <1>6, <1>7, ArrivesOrder, SubmitOrder, RecordOrder
     DEF Next, Request, Handle, Move, Fall, Conquer, EntryAlone

\* What the players are told of their orders agrees with the bus: one copy and one
\* verdict of each order answered, the verdict the engine gave it (Server.order).
THEOREM AnswersMatchRecords == Spec => []RecordsMatchAnswers
<1>1. OrderInv => RecordsMatchAnswers
  BY DEF OrderInv, AllArrived, AnsweredRight, InHand, AtWork, RecordsMatchAnswers
<1> QED
  BY <1>1, InitOrder, StepOrder, PTL DEF Spec

-----------------------------------------------------------------------------
(* The life of an accepted order in the engine *)

EndsOf(o) == {g \in fate : g.order = o /\ g.what # "accepted"}

\* It waits in the queue of the turn and the game that took it, or has met one end
\* there.
Waits(f) ==
  Times(pending, f.order) = 1 /\ EndsOf(f.order) = {} /\ f.game = game /\ f.turn = turn

Ended(f) ==
  /\ Times(pending, f.order) = 0
  /\ \E g \in fate : EndsOf(f.order) = {g} /\ g.game = f.game /\ g.turn = f.turn

\* The engine remembers the units whose orders it has taken this turn, and nothing was
\* taken in a turn or a game to come, nor after an end that is to come.
Remembered(f) ==
  /\ f.game \in Nat /\ f.game <= game
  /\ f.game = game =>
       /\ f.turn \in Nat /\ f.turn <= turn /\ (f.late => over)
       /\ f.turn = turn /\ f.late = over => f.order.unit \in seen

FateTypes ==
  /\ game \in Nat /\ turn \in Nat /\ over \in BOOLEAN
  /\ holder # Nobody => ~over
  /\ \A f \in fate : Accepted(f.order) /\ f.late \in BOOLEAN
  /\ \A o \in Range(pending) : Accepted(o)

OneAUnit ==
  \A f, g \in fate :
    f.what = "accepted" /\ g.what = "accepted" /\ g.order.unit = f.order.unit
      /\ g.game = f.game /\ g.turn = f.turn /\ g.late = f.late => g = f

FateInv ==
  /\ FateTypes /\ OneAUnit
  /\ \A f \in fate : f.what = "accepted" =>
       f.turn = f.order.turn /\ (Waits(f) \/ Ended(f)) /\ Remembered(f)

LEMMA InitFate == Init => FateInv
<1> SUFFICES ASSUME Init PROVE FateInv
  OBVIOUS
<1>1. fate = {} /\ Range(pending) = {} /\ game = 1 /\ turn = 1 /\ over = FALSE
  BY RangeOfNone DEF Init
<1> QED
  BY <1>1 DEF FateInv, FateTypes, OneAUnit

\* The engine takes an order it has not taken before, of a unit it does not remember.
LEMMA SubmitFate ==
  ASSUME OrderInv, FateInv, NEW c \in Client, Submit(c)
  PROVE  FateInv'
<1> USE DEF FateInv
<1> PICK o : o = ask[c]
  OBVIOUS
<1> PICK n : n = Marked(o, "accepted")
  OBVIOUS
<1>1. PICK v \in Verdicts(o) :
        /\ pending' = IF v = "OK" THEN Append(pending, o) ELSE pending
        /\ seen' = IF v = "OK" THEN seen \cup {o.unit} ELSE seen
        /\ fate' = IF v = "OK" THEN fate \cup {n} ELSE fate
  BY DEF Submit
<1>2. pc[c] = "submit" /\ UNCHANGED <<turn, over, game, holder>>
  BY DEF Submit
<1>3. CASE v # "OK"
  <2>1. UNCHANGED <<pending, seen, fate, turn, over, game, holder>>
    BY <1>1, <1>2, <1>3
  <2>2. FateTypes'
    BY <2>1 DEF FateTypes, Accepted
  <2> QED
    BY <2>1, <2>2 DEF OneAUnit, Waits, Ended, Remembered, EndsOf, Times
<1>4. CASE v = "OK"
  <2>1. o.unit \notin seen /\ o.turn = turn
    BY <1>1, <1>4 DEF Verdicts
  <2>2. ~Accepted(o) /\ o \in Range(raw)
    BY <1>2 DEF OrderInv, InHand, AtWork
  <2>3. o \in Order /\ pending \in Seq(Order)
    BY <2>2, ElementOfSeq, LenProperties DEF OrderInv, Range, OrderTypes
  <2>4. /\ n.order = o /\ n.what = "accepted" /\ n.game = game /\ n.turn = turn /\ n.late = over
    BY DEF Marked
  <2>5. /\ pending' = Append(pending, o) /\ seen' = seen \cup {o.unit}
        /\ fate' = fate \cup {n}
    BY <1>1, <1>4
  <2>6. \A f \in fate : f.order # o
    BY <2>2 DEF FateTypes
  <2>7. Times(pending, o) = 0
    BY <2>2, <2>3, TimesOfMember DEF FateTypes
  <2>8. ASSUME NEW r
        PROVE  /\ Times(pending, r) \in Nat
               /\ Times(pending', r) = Times(pending, r) + (IF o = r THEN 1 ELSE 0)
    BY <2>3, <2>5, TimesAppended
  <2>9. \A r : EndsOf(r)' = EndsOf(r)
    BY <2>4, <2>5 DEF EndsOf
  <2>10. \A r : Accepted(r)' <=> Accepted(r) \/ r = o
    BY <2>4, <2>5 DEF Accepted
  <2>11. FateTypes'
    <3>1. Range(pending') = Range(pending) \cup {o}
      BY <2>3, <2>5, RangeAppended
    <3> QED
      BY <1>2, <2>4, <2>5, <2>10, <3>1 DEF FateTypes
  <2>12. ASSUME NEW f \in fate, f.what = "accepted"
         PROVE  ~(f.order.unit = o.unit /\ f.game = game /\ f.turn = turn /\ f.late = over)
    BY <2>1, <2>12 DEF Remembered
  <2>13. OneAUnit'
    BY <2>4, <2>5, <2>12 DEF OneAUnit
  <2>14. n.turn = n.order.turn /\ Waits(n)' /\ Remembered(n)'
    <3>1. EndsOf(o) = {}
      BY <2>6 DEF EndsOf
    <3>2. Times(pending', o) = 1
      BY <2>7, <2>8
    <3>3. Times(pending, o)' = Times(pending', o)
      BY DEF Times
    <3>4. Waits(n)'
      BY <1>2, <2>4, <2>9, <3>1, <3>2, <3>3 DEF Waits
    <3>5. Remembered(n)'
      BY <1>2, <2>4, <2>5 DEF Remembered, FateTypes
    <3> QED
      BY <2>1, <2>4, <3>4, <3>5
  <2>15. ASSUME NEW f \in fate, f.what = "accepted"
         PROVE  f.turn = f.order.turn /\ (Waits(f)' \/ Ended(f)') /\ Remembered(f)'
    <3>1. Times(pending', f.order) = Times(pending, f.order)
      BY <2>6, <2>8
    <3>2. Times(pending, f.order)' = Times(pending', f.order)
      BY DEF Times
    <3>3. Waits(f) => Waits(f)'
      BY <1>2, <2>9, <3>1, <3>2 DEF Waits
    <3>4. Ended(f) => Ended(f)'
      BY <2>5, <2>9, <3>1, <3>2 DEF Ended
    <3>5. Remembered(f)'
      BY <1>2, <2>5, <2>15 DEF Remembered
    <3> QED
      BY <2>15, <3>3, <3>4, <3>5
  <2> QED
    BY <2>4, <2>5, <2>11, <2>13, <2>14, <2>15
<1> QED
  BY <1>3, <1>4

\* A turn or a reset that empties the queue is the one end of all that waited in it.
LEMMA QueueEnds ==
  ASSUME FateInv, NEW what, what # "accepted", pending' = <<>>,
         fate' = fate \cup {Marked(o, what) : o \in Range(pending)}, pending \in Seq(Order)
  PROVE  /\ \A f \in fate' : f.what = "accepted" => f \in fate /\ Ended(f)'
         /\ \A f \in fate' : Accepted(f.order)' /\ f.late \in BOOLEAN
         /\ OneAUnit'
<1> USE DEF FateInv
<1>1. /\ fate \subseteq fate'
      /\ \A f \in fate' : f \in fate \/ (f.order \in Range(pending) /\ f.what # "accepted")
  BY MarksQueue
<1>2. \A o \in Range(pending) :
        LET m == Marked(o, what) IN
          /\ m \in fate' /\ m.order = o /\ m.what = what
          /\ m.game = game /\ m.turn = turn /\ m.late = over
  BY DEF Marked
<1>3. \A o : Times(pending, o)' = 0
  BY TimesInNone DEF Times
<1>4. ASSUME NEW f \in fate, f.what = "accepted" PROVE Ended(f)'
  <2> DEFINE o == f.order
             m == Marked(o, what)
  <2>1. CASE Waits(f)
    <3>1. o \in Range(pending)
      <4>1. Times(pending, o) = 1
        BY <2>1 DEF Waits
      <4> QED
        BY <4>1, TimesOfMember
    <3>2. m \in fate' /\ m.order = o /\ m.what = what /\ m.game = game /\ m.turn = turn
      BY <1>2, <3>1
    <3> HIDE DEF m
    <3>3. EndsOf(o)' = {m}
      <4> SUFFICES ASSUME NEW g \in fate', g.order = o, g.what # "accepted" PROVE g = m
        BY <3>2 DEF EndsOf
      <4>1. g \notin fate
        BY <2>1 DEF Waits, EndsOf
      <4>2. PICK r \in Range(pending) : g = Marked(r, what)
        BY <4>1
      <4>3. r = o
        BY <4>2 DEF Marked
      <4> QED
        BY <4>2, <4>3 DEF m
    <3> QED
      BY <1>3, <2>1, <3>2, <3>3 DEF Ended, Waits
  <2>2. CASE Ended(f)
    <3>1. o \notin Range(pending)
      <4>1. Times(pending, o) = 0
        BY <2>2 DEF Ended
      <4> QED
        BY <4>1, TimesOfMember
    <3>2. EndsOf(o)' = EndsOf(o)
      BY <1>1, <3>1 DEF EndsOf
    <3> QED
      BY <1>1, <1>3, <2>2, <3>2 DEF Ended
  <2> QED
    BY <1>4, <2>1, <2>2
<1>5. \A o : Accepted(o)' <=> Accepted(o)
  BY <1>1 DEF Accepted
<1>6. \A f \in fate' : f.late \in BOOLEAN
  <2> SUFFICES ASSUME NEW f \in fate', f \notin fate PROVE f.late \in BOOLEAN
    BY DEF FateTypes
  <2>1. PICK o \in Range(pending) : f = Marked(o, what)
    OBVIOUS
  <2> QED
    BY <2>1 DEF Marked, FateTypes
<1>7. \A f \in fate' : Accepted(f.order)'
  BY <1>1, <1>5 DEF FateTypes
<1> QED
  BY <1>1, <1>4, <1>6, <1>7 DEF OneAUnit

LEMMA StepFate == OrderInv /\ FateInv /\ [Next]_vars => FateInv'
<1> SUFFICES ASSUME OrderInv, FateInv, [Next]_vars PROVE FateInv'
  OBVIOUS
<1> USE DEF FateInv
<1>1. pending \in Seq(Order)
  BY DEF OrderInv, OrderTypes
<1>2. CASE TurnEnds
  <2>1. /\ pending' = <<>> /\ seen' = {} /\ holder' = Nobody /\ game' = game
        /\ fate' = fate \cup {Marked(o, "played") : o \in Range(pending)}
        /\ over' \in {turn = MaxTurns, TRUE} /\ turn' = AfterTurn(over')
    BY <1>2 DEF TurnEnds
  <2>2. holder # Nobody
    BY <1>2, TimerAssumption DEF TurnEnds, Wants
  <2>3. ~over /\ over \in BOOLEAN /\ turn \in Nat /\ game \in Nat
    BY <2>2 DEF FateTypes
  <2>4. /\ \A f \in fate' : f.what = "accepted" => f \in fate /\ Ended(f)'
        /\ \A f \in fate' : Accepted(f.order)' /\ f.late \in BOOLEAN
        /\ OneAUnit'
    BY <1>1, <2>1, QueueEnds
  <2>5. over' \in BOOLEAN /\ turn' \in Nat /\ turn' = IF over' THEN turn ELSE turn + 1
    <3>1. over' \in BOOLEAN
      BY <2>1
    <3>2. turn' = IF over' THEN turn ELSE turn + 1
      BY <2>1 DEF AfterTurn
    <3> QED
      BY <2>3, <3>1, <3>2
  <2>6. ASSUME NEW f \in fate, f.what = "accepted" PROVE f.turn = f.order.turn /\ Remembered(f)'
    <3>1. Remembered(f) /\ f.late \in BOOLEAN
      BY <2>6 DEF FateTypes
    <3>2. CASE f.game = game
      <4>1. f.turn \in Nat /\ f.turn <= turn /\ ~f.late
        BY <2>3, <3>1, <3>2 DEF Remembered
      <4>2. f.turn <= turn' /\ ~(f.turn = turn' /\ f.late = over')
        BY <2>3, <2>5, <3>1, <4>1
      <4> QED
        BY <2>1, <2>6, <3>1, <4>1, <4>2 DEF Remembered
    <3>3. CASE f.game # game
      BY <2>1, <2>6, <3>1, <3>3 DEF Remembered
    <3> QED
      BY <3>2, <3>3
  <2>7. FateTypes'
    BY <2>1, <2>3, <2>4, <2>5, RangeOfNone DEF FateTypes
  <2> QED
    BY <2>4, <2>6, <2>7
<1>3. ASSUME NEW c \in Client, Reset(c) PROVE FateInv'
  <2>1. /\ pending' = <<>> /\ seen' = {} /\ game' = game + 1 /\ turn' = 1 /\ over' = FALSE
        /\ fate' = fate \cup {Marked(o, "wiped") : o \in Range(pending)}
    BY <1>3 DEF Reset
  <2>2. game \in Nat
    BY DEF FateTypes
  <2>3. /\ \A f \in fate' : f.what = "accepted" => f \in fate /\ Ended(f)'
        /\ \A f \in fate' : Accepted(f.order)' /\ f.late \in BOOLEAN
        /\ OneAUnit'
    BY <1>1, <2>1, QueueEnds
  <2>4. ASSUME NEW f \in fate, f.what = "accepted" PROVE f.turn = f.order.turn /\ Remembered(f)'
    BY <2>1, <2>2, <2>4 DEF Remembered
  <2>5. FateTypes'
    <3>1. Range(pending') = {} /\ game' \in Nat /\ turn' \in Nat
      BY <2>1, <2>2, RangeOfNone
    <3> QED
      BY <2>1, <2>3, <3>1 DEF FateTypes
  <2> QED
    BY <2>3, <2>4, <2>5
<1>4. CASE UNCHANGED <<turn, over, pending, seen, game, fate>> /\ (holder' # Nobody => ~over)
  <2>1. FateTypes'
    BY <1>4 DEF FateTypes, Accepted
  <2> QED
    BY <1>4, <2>1 DEF OneAUnit, Waits, Ended, Remembered, EndsOf, Times
<1>5. ASSUME NEW c \in Client, Request(c) \/ Record(c) \/ TickAfterTheEnd(c) \/ TakeSnapshot(c)
                                \/ Encode(c)
      PROVE  FateInv'
  <2>1. UNCHANGED <<turn, over, pending, seen, game, fate, holder>>
    BY <1>5 DEF Request, BadJSON, OrderArrives, TickArrives, ResetArrives, StateArrives,
                Record, TickAfterTheEnd, TakeSnapshot, Encode, engineVars
  <2> QED
    BY <1>4, <2>1 DEF FateTypes
<1>6. ASSUME NEW h \in Client \cup {Timer}, TurnBegins(h) PROVE FateInv'
  BY <1>4, <1>6 DEF TurnBegins
<1>7. CASE InTurn \/ UNCHANGED vars
  <2>1. UNCHANGED <<turn, over, pending, seen, game, fate, holder>>
    BY <1>7 DEF InTurn, vars, engineVars
  <2> QED
    BY <1>4, <2>1 DEF FateTypes
<1> QED
  BY <1>2, <1>3, <1>5, <1>6, <1>7, SubmitFate
     DEF Next, Handle, Move, Fall, Conquer, EntryAlone

\* However the players' orders race each other, the turn timer and a reset: what the
\* engine accepts it plays or wipes once, in the turn and the game it was accepted in,
\* and of one unit it accepts one order a turn (Engine.Submit, Reset, ProcessTurn).
THEOREM AcceptedIsPlayedOnce == Spec => []PlayedOnce
<1>1. OrderInv /\ FateInv => PlayedOnce
  <2> SUFFICES ASSUME OrderInv, FateInv, NEW f \in fate, f.what = "accepted"
               PROVE  /\ f.turn = f.order.turn
                      /\ Cardinality(EndsOf(f.order)) + Times(pending, f.order) = 1
                      /\ \A g \in EndsOf(f.order) : g.game = f.game /\ g.turn = f.turn
                      /\ Times(pending, f.order) = 1 => f.game = game /\ f.turn = turn
                      /\ \A g \in fate :
                           g.what = "accepted" /\ g.order.unit = f.order.unit
                             /\ g.game = f.game /\ g.turn = f.turn /\ g.late = f.late => g = f
    BY DEF PlayedOnce, EndsOf
  <2>1. \A g \in fate :
          g.what = "accepted" /\ g.order.unit = f.order.unit
            /\ g.game = f.game /\ g.turn = f.turn /\ g.late = f.late => g = f
    BY DEF FateInv, OneAUnit
  <2>2. CASE Waits(f)
    <3>1. Cardinality(EndsOf(f.order)) = 0
      BY <2>2, FS_EmptySet DEF Waits
    <3> QED
      BY <2>1, <2>2, <3>1 DEF Waits, FateInv
  <2>3. CASE Ended(f)
    <3>1. PICK g \in fate : EndsOf(f.order) = {g} /\ g.game = f.game /\ g.turn = f.turn
      BY <2>3 DEF Ended
    <3>2. Cardinality(EndsOf(f.order)) = 1
      BY <3>1, FS_Singleton
    <3>3. Times(pending, f.order) = 0
      BY <2>3 DEF Ended
    <3> QED
      BY <2>1, <3>1, <3>2, <3>3 DEF FateInv
  <2> QED
    BY <2>2, <2>3 DEF FateInv
<1>2. Init => OrderInv /\ FateInv
  BY InitOrder, InitFate
<1>3. (OrderInv /\ FateInv) /\ [Next]_vars => (OrderInv /\ FateInv)'
  BY StepOrder, StepFate
<1> QED
  BY <1>1, <1>2, <1>3, PTL DEF Spec

-----------------------------------------------------------------------------
(* The regions' lists as slices *)

Cell == Unit \cup {""}
Slice == [arr : Nat, len : Nat]

\* On board b, slice z shows only units that region r's list ever held, and no other
\* region's list lies in its array, unless that has no room for anything.
Sound(b, r, z, ever) ==
  /\ z \in Slice /\ z.arr \in DOMAIN b.mem /\ z.len <= Len(b.mem[z.arr])
  /\ \A k \in 1..z.len : b.mem[z.arr][k] \in ever[r]
  /\ \A q \in Region \ {r} : b.slice[q].arr = z.arr => b.mem[z.arr] = <<>>

Laid(b, ever) ==
  /\ b \in [mem : Seq(Seq(Cell)), slice : [Region -> Slice]]
  /\ 1 \in DOMAIN b.mem /\ b.mem[1] = <<>>
  /\ \A r \in Region : Sound(b, r, b.slice[r], ever)

\* Whatever slice was sound on b is sound on c: those of a snapshot, or of a copy of
\* a region, too.
Carries(b, c, ever) == \A r \in Region : \A z \in Slice : Sound(b, r, z, ever) => Sound(c, r, z, ever)

\* A step from b to c gives up no array, writes a unit only into the array of the
\* list of a region it was in, and lists a region in an array of its own.
Proper(b, c, ever) ==
  /\ \A a \in DOMAIN b.mem :
       /\ a \in DOMAIN c.mem /\ Len(c.mem[a]) = Len(b.mem[a]) /\ c.mem[a] \in Seq(Cell)
       /\ \A k \in 1..Len(b.mem[a]) :
            \/ c.mem[a][k] = b.mem[a][k]
            \/ \E r \in Region : b.slice[r].arr = a /\ c.mem[a][k] \in ever[r]
  /\ \A q \in Region : \/ c.slice[q].arr = b.slice[q].arr
                       \/ c.slice[q].arr \notin DOMAIN b.mem
                       \/ c.slice[q].arr = 1

LEMMA ProperCarries ==
  ASSUME NEW b, NEW c, NEW ever, b.mem[1] = <<>>, Proper(b, c, ever)
  PROVE  Carries(b, c, ever)
<1> SUFFICES ASSUME NEW r \in Region, NEW z \in Slice, Sound(b, r, z, ever)
             PROVE  Sound(c, r, z, ever)
  BY DEF Carries
<1>1. PICK a : a = z.arr
  OBVIOUS
<1>2. PICK old : old = b.mem[a]
  OBVIOUS
<1>3. PICK new : new = c.mem[a]
  OBVIOUS
<1>4. PICK l \in Nat : l = z.len
  BY DEF Slice
<1>5. a \in DOMAIN b.mem /\ l <= Len(old) /\ \A k \in 1..l : old[k] \in ever[r]
  BY <1>1, <1>2, <1>4 DEF Sound
<1>6. a \in DOMAIN c.mem /\ Len(new) = Len(old) /\ new \in Seq(Cell)
  BY <1>2, <1>3, <1>5 DEF Proper
<1>7. Len(new) \in Nat
  BY <1>6, LenProperties
<1>8. old = <<>> => new = <<>> /\ l = 0
  <2>1. Len(<<>>) = 0
    BY EmptySeq
  <2> QED
    BY <1>4, <1>5, <1>6, <1>7, <2>1, EmptySeq
<1>9. ASSUME NEW k \in 1..l PROVE new[k] \in ever[r]
  <2>1. k \in 1..Len(old)
    BY <1>4, <1>5, <1>6, <1>7
  <2>2. CASE new[k] = old[k]
    BY <1>5, <2>2
  <2>3. CASE \E q \in Region : b.slice[q].arr = a /\ new[k] \in ever[q]
    <3>1. PICK q \in Region : b.slice[q].arr = a /\ new[k] \in ever[q]
      BY <2>3
    <3>2. q # r => old = <<>>
      BY <1>1, <1>2, <3>1 DEF Sound
    <3> QED
      BY <1>8, <3>1, <3>2
  <2> QED
    BY <1>2, <1>3, <1>5, <2>1, <2>2, <2>3 DEF Proper
<1>10. ASSUME NEW q \in Region \ {r}, c.slice[q].arr = a PROVE new = <<>>
  <2>1. b.slice[q].arr = a \/ a = 1
    BY <1>5, <1>10 DEF Proper
  <2>2. b.slice[q].arr = a => old = <<>>
    BY <1>1, <1>2 DEF Sound
  <2> QED
    BY <1>2, <1>8, <2>1, <2>2
<1> QED
  BY <1>1, <1>3, <1>4, <1>5, <1>6, <1>9, <1>10 DEF Sound

LEMMA CarriesOn ==
  ASSUME NEW b, NEW c, NEW d, NEW ever, Carries(b, c, ever), Carries(c, d, ever)
  PROVE  Carries(b, d, ever)
BY DEF Carries

LEMMA CarriesItself == \A b, ever : Carries(b, b, ever)
BY DEF Carries

\* More units have been there.
Wider(ever, more) == \A r \in Region : ever[r] \subseteq more[r]

LEMMA SoundGrows ==
  ASSUME NEW b, NEW r \in Region, NEW z, NEW ever, NEW more,
         Sound(b, r, z, ever), Wider(ever, more)
  PROVE  Sound(b, r, z, more)
BY DEF Sound, Wider

LEMMA LaidGrows ==
  ASSUME NEW b, NEW ever, NEW more, Laid(b, ever), Wider(ever, more)
  PROVE  Laid(b, more)
BY SoundGrows DEF Laid

\* A shorter slice of the same array.
LEMMA SoundShorter ==
  ASSUME NEW b, NEW r \in Region, NEW z, NEW ever, Sound(b, r, z, ever),
         NEW y \in Slice, y.arr = z.arr, y.len <= z.len, b.mem[z.arr] \in Seq(Cell)
  PROVE  Sound(b, r, y, ever)
<1>1. PICK l \in Nat : l = z.len
  BY DEF Sound, Slice
<1>2. PICK k \in Nat : k = y.len
  BY DEF Slice
<1>3. PICK n \in Nat : n = Len(b.mem[z.arr])
  BY LenProperties
<1>4. l <= n /\ k <= l
  BY <1>1, <1>2, <1>3 DEF Sound
<1>5. k <= n /\ \A i \in 1..k : i \in 1..l
  BY <1>4
<1> QED
  BY <1>1, <1>2, <1>3, <1>5 DEF Sound

\* What a sound slice shows.
LEMMA ContentProperties ==
  ASSUME NEW b, b.mem \in Seq(Seq(Cell)), NEW ever, NEW r \in Region, NEW z, Sound(b, r, z, ever),
         NEW a, a = b.mem[z.arr]
  PROVE  /\ z.arr \in Nat /\ z.len \in Nat /\ a \in Seq(Cell) /\ Len(a) \in Nat /\ DOMAIN a = 1..Len(a)
         /\ Content(b.mem, z) \in Seq(Cell)
         /\ Len(Content(b.mem, z)) = z.len
         /\ Range(Content(b.mem, z)) \subseteq ever[r]
<1>1. z \in Slice /\ z.arr \in DOMAIN b.mem /\ z.len <= Len(a) /\ \A k \in 1..z.len : a[k] \in ever[r]
  BY DEF Sound
<1>2. a \in Seq(Cell)
  BY <1>1, ElementOfSeq, LenProperties
<1>3. /\ z.arr \in Nat /\ z.len \in Nat /\ Len(a) \in Nat /\ DOMAIN a = 1..Len(a)
  BY <1>1, <1>2, LenProperties DEF Slice
<1>4. PICK n : n = z.len
  OBVIOUS
<1>5. PICK x : x = SubSeq(a, 1, n)
  OBVIOUS
<1>6. x \in Seq(Cell) /\ Len(x) = n /\ \A k \in 1..n : x[k] = a[k]
  <2>1. n \in Int /\ 1 \in Int /\ n \in Nat /\ \A k \in 1..n : a[k] \in Cell
    BY <1>1, <1>2, <1>3, <1>4
  <2>2. /\ SubSeq(a, 1, n) \in Seq(Cell)
        /\ Len(SubSeq(a, 1, n)) = n
        /\ \A k \in 1..n : SubSeq(a, 1, n)[k] = a[k]
    BY <2>1, SubSeqProperties
  <2> QED
    BY <1>5, <2>2
<1>7. Range(x) \subseteq ever[r]
  <2>1. DOMAIN x = 1..n
    BY <1>6, LenProperties
  <2> QED
    BY <1>1, <1>4, <1>6, <2>1 DEF Range
<1>8. Content(b.mem, z) = x
  BY <1>4, <1>5 DEF Content
<1> QED
  BY <1>2, <1>3, <1>4, <1>6, <1>7, <1>8

SameArrays(b, c) == \A q \in Region : c.slice[q].arr = b.slice[q].arr

\* remove: what stays is shifted within the array.
LEMMA RemoveFromLaid ==
  ASSUME NEW ever, NEW b, Laid(b, ever), NEW r \in Region, NEW u
  PROVE  LET c == RemoveFrom(b, r, u) IN
           Laid(c, ever) /\ Carries(b, c, ever) /\ SameArrays(b, c)
<1>a. PICK s : s = b.slice[r]
  OBVIOUS
<1>b. PICK old : old = b.mem[s.arr]
  OBVIOUS
<1>c. PICK kept : kept = Without(Content(b.mem, s), u)
  OBVIOUS
<1> DEFINE new == kept \o SubSeq(old, Len(kept) + 1, Len(old))
           c == RemoveFrom(b, r, u)
<1>1. /\ b \in [mem : Seq(Seq(Cell)), slice : [Region -> Slice]] /\ b.mem \in Seq(Seq(Cell))
      /\ Sound(b, r, s, ever) /\ s \in Slice /\ s.arr \in DOMAIN b.mem
  BY <1>a DEF Laid, Sound
<1>2. /\ old \in Seq(Cell) /\ DOMAIN old = 1..Len(old) /\ Len(old) \in Nat
      /\ s.len \in Nat /\ s.len <= Len(old)
  <2>1. s.len <= Len(old)
    BY <1>b, <1>1 DEF Sound
  <2> QED
    BY <1>b, <1>1, <2>1, ContentProperties
<1>3. /\ kept \in Seq(Cell) /\ Len(kept) \in 0..s.len /\ DOMAIN kept = 1..Len(kept)
      /\ Range(kept) \subseteq ever[r]
  <2> DEFINE x == Content(b.mem, s)
             I == {k \in DOMAIN x : x[k] # u}
  <2>1. x \in Seq(Cell) /\ Len(x) = s.len /\ DOMAIN x = 1..s.len /\ Range(x) \subseteq ever[r]
    BY <1>1, ContentProperties, LenProperties
  <2> HIDE DEF x
  <2>2. I \in SUBSET DOMAIN x /\ I \in SUBSET (1..s.len)
    BY <2>1
  <2>3. Pick(x, I) \in Seq(Cell) /\ Len(Pick(x, I)) = Cardinality(I)
    BY <2>1, <2>2, PickProperties
  <2>4. Cardinality(I) \in 0..s.len
    BY <1>2, <2>2, RankIsOnto
  <2>5. kept = Pick(x, I)
    BY <1>c DEF Without, x
  <2>6. Range(Without(x, u)) = Range(x) \ {u}
    BY <2>1, WithoutProperties
  <2>7. Range(kept) \subseteq ever[r]
    BY <1>c, <2>1, <2>6 DEF x
  <2> QED
    BY <2>3, <2>4, <2>5, <2>7, LenProperties
<1>4. c = [mem |-> [b.mem EXCEPT ![s.arr] = new],
           slice |-> [b.slice EXCEPT ![r].len = Len(kept)]]
  BY <1>a, <1>b, <1>c DEF RemoveFrom
<1>5. /\ new \in Seq(Cell) /\ Len(new) = Len(old)
      /\ \A k \in 1..Len(old) : new[k] = old[k] \/ new[k] \in ever[r]
  <2>1. PICK i : i = Len(kept)
    OBVIOUS
  <2>2. PICK n : n = Len(old)
    OBVIOUS
  <2>3. i \in Nat /\ n \in Nat /\ i <= n
    BY <1>2, <1>3, <2>1, <2>2
  <2>4. PICK rest : rest = SubSeq(old, i + 1, n)
    OBVIOUS
  <2>5. rest \in Seq(Cell) /\ Len(rest) = n - i /\ \A k \in 1..(n - i) : rest[k] = old[i + k]
    <3>1. i + 1 \in Int /\ n \in Int /\ \A k \in (i + 1)..n : old[k] \in Cell
      BY <1>2, <2>2, <2>3, ElementOfSeq
    <3>2. SubSeq(old, i + 1, n) \in Seq(Cell)
      BY <3>1, SubSeqProperties
    <3>3. Len(SubSeq(old, i + 1, n)) = IF i + 1 <= n THEN n - (i + 1) + 1 ELSE 0
      BY <3>1, SubSeqProperties
    <3>4. Len(rest) = n - i
      BY <2>3, <2>4, <3>3
    <3>5. \A k \in 1..(n - (i + 1) + 1) : SubSeq(old, i + 1, n)[k] = old[(i + 1) + k - 1]
      BY <3>1, SubSeqProperties
    <3>6. \A k \in 1..(n - i) : k \in 1..(n - (i + 1) + 1) /\ (i + 1) + k - 1 = i + k
      BY <2>3
    <3> QED
      BY <2>4, <3>2, <3>4, <3>5, <3>6
  <2>6. PICK w : w = kept \o rest
    OBVIOUS
  <2>7. /\ w \in Seq(Cell) /\ Len(w) = Len(kept) + Len(rest)
        /\ \A k \in 1..(Len(kept) + Len(rest)) : w[k] = IF k <= Len(kept) THEN kept[k] ELSE rest[k - Len(kept)]
    BY <1>3, <2>5, <2>6, ConcatProperties
  <2>8. Len(w) = n
    BY <2>1, <2>3, <2>5, <2>7
  <2>9. ASSUME NEW k \in 1..n PROVE w[k] = old[k] \/ w[k] \in ever[r]
    <3>1. CASE k <= i
      <4>1. w[k] = kept[k] /\ k \in DOMAIN kept
        BY <1>3, <2>1, <2>3, <2>5, <2>7, <3>1
      <4> QED
        BY <1>3, <4>1 DEF Range
    <3>2. CASE ~(k <= i)
      <4>1. w[k] = rest[k - i] /\ k - i \in 1..(n - i) /\ i + (k - i) = k
        BY <2>1, <2>3, <2>5, <2>7, <3>2
      <4> QED
        BY <2>5, <4>1
    <3> QED
      BY <3>1, <3>2
  <2> QED
    BY <2>1, <2>2, <2>4, <2>6, <2>7, <2>8, <2>9
<1> HIDE DEF c, new
<1>6. c \in [mem : Seq(Seq(Cell)), slice : [Region -> Slice]]
  <2>1. [b.mem EXCEPT ![s.arr] = new] \in Seq(Seq(Cell))
    BY <1>1, <1>5, ExceptSeq, LenProperties
  <2>2. [b.slice EXCEPT ![r].len = Len(kept)] \in [Region -> Slice]
    BY <1>a, <1>1, <1>3 DEF Slice
  <2> QED
    BY <1>4, <2>1, <2>2
<1>7. /\ c.slice[r].arr = s.arr /\ c.slice[r].len = Len(kept)
      /\ \A q \in Region : c.slice[q].arr = b.slice[q].arr
      /\ \A q \in Region \ {r} : c.slice[q] = b.slice[q]
  BY <1>a, <1>1, <1>4 DEF Slice
<1>8. /\ DOMAIN c.mem = DOMAIN b.mem
      /\ c.mem[s.arr] = new
      /\ \A a \in DOMAIN b.mem : a # s.arr => c.mem[a] = b.mem[a]
  BY <1>1, <1>4
<1>9. Proper(b, c, ever)
  <2>1. ASSUME NEW a \in DOMAIN b.mem
        PROVE  /\ a \in DOMAIN c.mem /\ Len(c.mem[a]) = Len(b.mem[a]) /\ c.mem[a] \in Seq(Cell)
               /\ \A k \in 1..Len(b.mem[a]) :
                    c.mem[a][k] = b.mem[a][k] \/ \E q \in Region : b.slice[q].arr = a /\ c.mem[a][k] \in ever[q]
    <3>1. CASE a = s.arr
      BY <1>a, <1>b, <1>5, <1>8, <3>1
    <3>2. CASE a # s.arr
      <4>1. b.mem[a] \in Seq(Cell)
        BY <1>1, ElementOfSeq, LenProperties
      <4> QED
        BY <1>8, <3>2, <4>1
    <3> QED
      BY <3>1, <3>2
  <2> QED
    BY <1>7, <2>1 DEF Proper
<1>10. Carries(b, c, ever)
  BY <1>9, ProperCarries DEF Laid
<1>11. ASSUME NEW q \in Region PROVE Sound(c, q, c.slice[q], ever)
  <2>1. b.slice[q] \in Slice /\ Sound(c, q, b.slice[q], ever)
    BY <1>10 DEF Carries, Laid, Sound
  <2>2. CASE q = r
    <3>1. PICK y : y = c.slice[r]
      OBVIOUS
    <3>2. y \in Slice /\ y.arr = s.arr /\ y.len <= s.len
      BY <1>2, <1>3, <1>6, <1>7, <3>1
    <3>3. Sound(c, r, s, ever) /\ c.mem[s.arr] \in Seq(Cell)
      BY <1>a, <1>5, <1>8, <2>1, <2>2
    <3>4. Sound(c, r, y, ever)
      BY <3>2, <3>3, SoundShorter
    <3> QED
      BY <2>2, <3>1, <3>4
  <2>3. CASE q # r
    BY <1>7, <2>1, <2>3
  <2> QED
    BY <2>2, <2>3
<1>12. 1 \in DOMAIN c.mem /\ c.mem[1] = <<>>
  <2>1. 1 \in DOMAIN b.mem /\ Len(b.mem[1]) = 0
    BY EmptySeq DEF Laid
  <2>2. 1 \in DOMAIN c.mem /\ Len(c.mem[1]) = 0 /\ c.mem[1] \in Seq(Cell)
    BY <1>9, <2>1 DEF Proper
  <2> QED
    BY <2>2, EmptySeq
<1>13. Laid(c, ever)
  BY <1>6, <1>11, <1>12 DEF Laid
<1> QED
  BY <1>7, <1>10, <1>13 DEF c, SameArrays

\* append: behind the list, in its array or in a new one.
LEMMA AppendToLaid ==
  ASSUME NEW ever, NEW b, Laid(b, ever), NEW r \in Region, NEW u \in Unit, u \in ever[r]
  PROVE  LET c == AppendTo(b, r, u) IN Laid(c, ever) /\ Carries(b, c, ever)
<1>a. PICK s : s = b.slice[r]
  OBVIOUS
<1>b. PICK old : old = b.mem[s.arr]
  OBVIOUS
<1>c. PICK room : room = Len(old)
  OBVIOUS
<1>d. PICK n : n = s.len + 1
  OBVIOUS
<1>e. PICK made : made = Len(b.mem) + 1
  OBVIOUS
<1>f. PICK twice : twice = IF room = 0 THEN 1 ELSE 2 * room
  OBVIOUS
<1> DEFINE longer == IF room = 0 THEN <<u>>
                     ELSE Append(old, u) \o [k \in 1..(room - 1) |-> ""]
           c == AppendTo(b, r, u)
<1>1. /\ b.mem \in Seq(Seq(Cell)) /\ b.slice \in [Region -> Slice] /\ Sound(b, r, s, ever)
      /\ s \in Slice /\ s.arr \in DOMAIN b.mem /\ s.len <= room
      /\ \A k \in 1..s.len : old[k] \in ever[r]
  BY <1>a, <1>b, <1>c DEF Laid, Sound
<1>2. /\ old \in Seq(Cell) /\ DOMAIN old = 1..room /\ room \in Nat
      /\ s.arr \in Nat /\ s.len \in Nat
      /\ Len(b.mem) \in Nat /\ DOMAIN b.mem = 1..Len(b.mem)
  BY <1>1, <1>b, <1>c, ContentProperties, LenProperties
<1>3. u \in Cell /\ "" \in Cell
  BY DEF Cell
<1>4. n \in Nat /\ s.len = n - 1 /\ n \in 1..n /\ \A k \in 1..n : k \in 1..s.len \/ k = n
  <2>1. PICK l \in Nat : l = s.len
    BY <1>2
  <2>2. n = l + 1
    BY <1>d, <2>1
  <2>3. n \in Nat /\ l = n - 1 /\ n \in 1..n /\ \A k \in 1..n : k \in 1..l \/ k = n
    BY <2>2
  <2> QED
    BY <2>1, <2>3
\* What is left to show of the new board.
<1>5. ASSUME c \in [mem : Seq(Seq(Cell)), slice : [Region -> Slice]], Proper(b, c, ever),
             Sound(c, r, c.slice[r], ever), \A q \in Region \ {r} : c.slice[q] = b.slice[q]
      PROVE  Laid(c, ever) /\ Carries(b, c, ever)
  <2> HIDE DEF c
  <2>1. Carries(b, c, ever)
    BY <1>5, ProperCarries DEF Laid
  <2>2. ASSUME NEW q \in Region, q # r PROVE Sound(c, q, c.slice[q], ever)
    <3>1. b.slice[q] \in Slice /\ Sound(c, q, b.slice[q], ever)
      BY <2>1 DEF Carries, Laid, Sound
    <3> QED
      BY <1>5, <2>2, <3>1
  <2>3. 1 \in DOMAIN c.mem /\ c.mem[1] = <<>>
    <3>1. 1 \in DOMAIN b.mem /\ Len(b.mem[1]) = 0
      BY EmptySeq DEF Laid
    <3>2. 1 \in DOMAIN c.mem /\ Len(c.mem[1]) = 0 /\ c.mem[1] \in Seq(Cell)
      BY <1>5, <3>1 DEF Proper
    <3> QED
      BY <3>2, EmptySeq
  <2> QED
    BY <1>5, <2>1, <2>2, <2>3 DEF Laid
<1>6. CASE s.len < room
  <2> DEFINE new == [old EXCEPT ![n] = u]
  <2>1. c = [mem |-> [b.mem EXCEPT ![s.arr] = new], slice |-> [b.slice EXCEPT ![r].len = n]]
    BY <1>a, <1>b, <1>c, <1>d, <1>1, <1>6 DEF AppendTo
  <2>2. n \in 1..room
    BY <1>2, <1>4, <1>6
  <2>3. /\ new \in Seq(Cell) /\ Len(new) = room /\ new[n] = u
        /\ \A k \in 1..room : new[k] = old[k] \/ new[k] \in ever[r]
        /\ \A k \in 1..n : new[k] \in ever[r]
    <3>1. n \in 1..Len(old) /\ u \in Cell
      BY <1>c, <1>3, <2>2
    <3>2. /\ new \in Seq(Cell) /\ Len(new) = Len(old)
          /\ \A k \in 1..Len(old) : new[k] = IF k = n THEN u ELSE old[k]
      BY <1>2, <3>1, ExceptSeq
    <3>3. \A k \in 1..n : k \in 1..Len(old)
      BY <3>1, <1>2, <1>c
    <3> HIDE DEF new
    <3> QED
      BY <1>c, <1>1, <1>4, <3>1, <3>2, <3>3
  <2> HIDE DEF c, new
  <2>4. c \in [mem : Seq(Seq(Cell)), slice : [Region -> Slice]]
    <3>1. [b.mem EXCEPT ![s.arr] = new] \in Seq(Seq(Cell))
      BY <1>1, <1>2, <2>3, ExceptSeq
    <3>2. [b.slice EXCEPT ![r].len = n] \in [Region -> Slice]
      <4>1. [b.slice[r] EXCEPT !.len = n] \in Slice
        BY <1>1, <1>4 DEF Slice
      <4> QED
        BY <1>1, <4>1
    <3> QED
      BY <2>1, <3>1, <3>2
  <2>5. /\ c.slice[r] \in Slice /\ c.slice[r].arr = s.arr /\ c.slice[r].len = n
        /\ \A q \in Region \ {r} : c.slice[q] = b.slice[q]
    BY <1>a, <1>1, <1>4, <2>1 DEF Slice
  <2>6. /\ DOMAIN c.mem = DOMAIN b.mem /\ c.mem[s.arr] = new
        /\ \A a \in DOMAIN b.mem : a # s.arr => c.mem[a] = b.mem[a]
    BY <1>1, <2>1
  <2>7. Proper(b, c, ever)
    <3>1. ASSUME NEW a \in DOMAIN b.mem
          PROVE  /\ a \in DOMAIN c.mem /\ Len(c.mem[a]) = Len(b.mem[a]) /\ c.mem[a] \in Seq(Cell)
                 /\ \A k \in 1..Len(b.mem[a]) :
                      c.mem[a][k] = b.mem[a][k] \/ \E q \in Region : b.slice[q].arr = a /\ c.mem[a][k] \in ever[q]
      <4>1. CASE a = s.arr
        BY <1>a, <1>b, <1>c, <2>3, <2>6, <4>1
      <4>2. CASE a # s.arr
        <5>1. b.mem[a] \in Seq(Cell)
          BY <1>1, ElementOfSeq, LenProperties
        <5> QED
          BY <2>6, <4>2, <5>1
      <4> QED
        BY <4>1, <4>2
    <3>2. \A q \in Region : c.slice[q].arr = b.slice[q].arr
      BY <1>a, <2>5
    <3> QED
      BY <3>1, <3>2 DEF Proper
  <2>8. \A q \in Region \ {r} : c.slice[q].arr # s.arr
    <3>1. room # 0
      BY <1>2, <1>6
    <3>2. old # <<>>
      BY <1>c, <3>1, EmptySeq
    <3> QED
      BY <1>a, <1>b, <2>5, <3>2 DEF Laid, Sound
  <2>9. Sound(c, r, c.slice[r], ever)
    <3>1. n <= Len(new)
      BY <2>2, <2>3
    <3>2. PICK y : y = c.slice[r]
      OBVIOUS
    <3>3. y \in Slice /\ y.arr = s.arr /\ y.len = n /\ c.mem[y.arr] = new /\ y.arr \in DOMAIN c.mem
      BY <1>1, <2>5, <2>6, <3>2
    <3>4. Sound(c, r, y, ever)
      BY <2>3, <2>8, <3>1, <3>3 DEF Sound
    <3> QED
      BY <3>2, <3>4
  <2> QED
    BY <1>5, <2>4, <2>5, <2>7, <2>9 DEF c
<1>7. CASE ~(s.len < room)
  <2>1. c = [mem |-> Append(b.mem, longer),
             slice |-> [b.slice EXCEPT ![r] = [arr |-> made, len |-> n]]]
    BY <1>a, <1>b, <1>c, <1>d, <1>e, <1>f, <1>1, <1>7 DEF AppendTo
  <2>2. s.len = room /\ twice \in Nat /\ n \in 1..twice /\ made \in Nat /\ made \notin DOMAIN b.mem
    <3>1. s.len = room
      BY <1>1, <1>2, <1>7
    <3>2. twice \in Nat /\ n \in 1..twice
      BY <1>d, <1>f, <1>1, <1>2, <3>1
    <3> QED
      BY <1>e, <1>2, <3>1, <3>2
  <2>3. longer \in Seq(Cell) /\ Len(longer) = twice /\ longer[n] = u
        /\ \A k \in 1..s.len : longer[k] = old[k]
    <3>1. CASE room = 0
      <4>1. <<u>> \in Seq(Cell) /\ Len(<<u>>) = 1 /\ <<u>>[1] = u
        <5>1. u \in Cell
          BY <1>3
        <5>2. /\ Append(<<>>, u) \in Seq(Cell) /\ Len(Append(<<>>, u)) = Len(<<>>) + 1
              /\ Append(<<>>, u)[Len(<<>>) + 1] = u
          BY <5>1, EmptySeq, AppendProperties
        <5>3. Append(<<>>, u) = <<u>> /\ Len(<<>>) = 0
          OBVIOUS
        <5> QED
          BY <5>2, <5>3
      <4>2. longer = <<u>> /\ twice = 1 /\ n = 1 /\ 1..s.len = {}
        BY <1>d, <1>f, <2>2, <3>1
      <4> QED
        BY <4>1, <4>2
    <3>2. CASE room # 0
      <4>1. PICK blank : blank = [k \in 1..(room - 1) |-> ""]
        OBVIOUS
      <4>2. blank \in Seq(Cell) /\ Len(blank) = room - 1
        <5>1. room - 1 \in Nat /\ blank \in [1..(room - 1) -> Cell]
          <6>1. room - 1 \in Nat
            BY <1>2, <3>2
          <6>2. "" \in Cell
            BY <1>3
          <6> QED
            BY <4>1, <6>1, <6>2
        <5>2. blank \in Seq(Cell) /\ DOMAIN blank = 1..(room - 1)
          BY <5>1, SeqDef
        <5> QED
          BY <5>1, <5>2, LenProperties
      <4>3. PICK full : full = Append(old, u)
        OBVIOUS
      <4>4. /\ full \in Seq(Cell) /\ Len(full) = room + 1 /\ full[room + 1] = u
            /\ \A k \in 1..room : full[k] = old[k]
        <5>1. u \in Cell /\ old \in Seq(Cell)
          BY <1>2, <1>3
        <5>2. /\ Append(old, u) \in Seq(Cell) /\ Len(Append(old, u)) = Len(old) + 1
              /\ Append(old, u)[Len(old) + 1] = u
              /\ \A k \in 1..Len(old) : Append(old, u)[k] = old[k]
          BY <5>1, AppendProperties
        <5> QED
          BY <1>c, <4>3, <5>2
      <4>5. PICK w : w = full \o blank
        OBVIOUS
      <4>6. /\ w \in Seq(Cell) /\ Len(w) = Len(full) + Len(blank)
            /\ \A k \in 1..(Len(full) + Len(blank)) :
                 w[k] = IF k <= Len(full) THEN full[k] ELSE blank[k - Len(full)]
        BY <4>2, <4>4, <4>5, ConcatProperties
      <4>7. Len(w) = twice /\ \A k \in 1..(room + 1) : w[k] = full[k]
        BY <1>f, <1>2, <3>2, <4>2, <4>4, <4>6
      <4>8. n = room + 1 /\ n \in 1..(room + 1) /\ \A k \in 1..room : k \in 1..(room + 1)
        BY <1>d, <1>2, <2>2
      <4>9. w[n] = u /\ \A k \in 1..s.len : w[k] = old[k]
        BY <2>2, <4>4, <4>7, <4>8
      <4>10. longer = w
        BY <3>2, <4>1, <4>3, <4>5
      <4> QED
        BY <4>6, <4>7, <4>9, <4>10
    <3> QED
      BY <3>1, <3>2
  <2> HIDE DEF c, longer
  <2>4. \A k \in 1..n : longer[k] \in ever[r]
    BY <1>1, <1>4, <2>3
  <2>5. c \in [mem : Seq(Seq(Cell)), slice : [Region -> Slice]]
    <3>1. Append(b.mem, longer) \in Seq(Seq(Cell))
      BY <1>1, <2>3, AppendProperties
    <3>2. [b.slice EXCEPT ![r] = [arr |-> made, len |-> n]] \in [Region -> Slice]
      BY <1>1, <1>4, <2>2 DEF Slice
    <3> QED
      BY <2>1, <3>1, <3>2
  <2>6. /\ c.slice[r] = [arr |-> made, len |-> n]
        /\ \A q \in Region \ {r} : c.slice[q] = b.slice[q]
    BY <1>1, <2>1
  <2>7. /\ DOMAIN c.mem = 1..made /\ c.mem[made] = longer
        /\ \A a \in DOMAIN b.mem : a \in DOMAIN c.mem /\ c.mem[a] = b.mem[a]
    <3>1. /\ Len(Append(b.mem, longer)) = made /\ Append(b.mem, longer)[made] = longer
          /\ Append(b.mem, longer) \in Seq(Seq(Cell))
          /\ \A a \in 1..Len(b.mem) : Append(b.mem, longer)[a] = b.mem[a]
      BY <1>e, <1>1, <2>3, AppendProperties
    <3>2. \A a \in DOMAIN b.mem : a \in 1..made
      BY <1>e, <1>2
    <3> QED
      BY <1>2, <2>1, <3>1, <3>2, LenProperties
  <2>8. Proper(b, c, ever)
    <3>1. \A a \in DOMAIN b.mem : b.mem[a] \in Seq(Cell)
      BY <1>1, ElementOfSeq, LenProperties
    <3>2. \A q \in Region : c.slice[q].arr = b.slice[q].arr \/ c.slice[q].arr \notin DOMAIN b.mem
      BY <2>2, <2>6
    <3> QED
      BY <2>7, <3>1, <3>2 DEF Proper
  <2>9. \A q \in Region \ {r} : c.slice[q].arr # made
    BY <2>2, <2>6 DEF Laid, Sound
  <2>10. Sound(c, r, c.slice[r], ever)
    <3>1. n <= Len(longer) /\ made \in 1..made
      BY <1>e, <1>2, <2>2, <2>3
    <3>2. PICK y : y = c.slice[r]
      OBVIOUS
    <3>3. y \in Slice /\ y.arr = made /\ y.len = n /\ c.mem[y.arr] = longer /\ y.arr \in DOMAIN c.mem
      BY <1>4, <2>2, <2>6, <2>7, <3>1, <3>2 DEF Slice
    <3>4. Sound(c, r, y, ever)
      BY <2>4, <2>9, <3>1, <3>3 DEF Sound
    <3> QED
      BY <3>2, <3>4
  <2> QED
    BY <1>5, <2>5, <2>6, <2>8, <2>10 DEF c
<1> QED
  BY <1>6, <1>7

LEMMA AppendUniqueLaid ==
  ASSUME NEW ever, NEW b, Laid(b, ever), NEW r \in Region, NEW u \in Unit, u \in ever[r]
  PROVE  LET c == AppendUnique(b, r, u) IN Laid(c, ever) /\ Carries(b, c, ever)
<1>1. CASE u \in Range(Content(b.mem, b.slice[r]))
  BY <1>1, CarriesItself DEF AppendUnique
<1>2. CASE u \notin Range(Content(b.mem, b.slice[r]))
  BY <1>2, AppendToLaid DEF AppendUnique
<1> QED
  BY <1>1, <1>2

\* seed: every list starts with an array of its own, and the old ones stay.
Bare(m) == [mem |-> m, slice |-> [r \in Region |-> [arr |-> 1, len |-> 0]]]

LEMMA BareLaid ==
  ASSUME NEW ever, NEW m \in Seq(Seq(Cell)), 1 \in DOMAIN m, m[1] = <<>>
  PROVE  Laid(Bare(m), ever)
<1>1. PICK start : start = Bare(m)
  OBVIOUS
<1>2. /\ start.mem = m /\ start.slice \in [Region -> Slice]
      /\ start \in [mem : Seq(Seq(Cell)), slice : [Region -> Slice]]
      /\ \A r \in Region : start.slice[r].arr = 1 /\ start.slice[r].len = 0
  BY <1>1 DEF Bare, Slice
<1>3. Len(m[1]) = 0 /\ 1..0 = {}
  BY EmptySeq
<1>4. \A r \in Region : Sound(start, r, start.slice[r], ever)
  BY <1>2, <1>3 DEF Sound
<1> QED
  BY <1>1, <1>2, <1>4 DEF Laid

LEMMA SeededLaid ==
  ASSUME NEW ever, \A u \in Unit : u \in ever[Home[u]],
         NEW m \in Seq(Seq(Cell)), 1 \in DOMAIN m, m[1] = <<>>
  PROVE  Laid(Seeded(m), ever) /\ Carries(Bare(m), Seeded(m), ever)
<1>1. PICK n \in Nat : n = Len(UnitOrder) /\ DOMAIN UnitOrder = 1..n
  BY OrderAssumption, LenProperties
<1>2. PICK start : start = Bare(m)
  OBVIOUS
<1>3. Laid(start, ever)
  BY <1>2, BareLaid
<1> DEFINE Boards == {b \in [mem : Seq(Seq(Cell)), slice : [Region -> Slice]] : Laid(b, ever)}
           Put(b, k) == AppendTo(b, Home[UnitOrder[k]], UnitOrder[k])
           next == [k \in 1..n |-> [b \in Boards |-> Put(b, k)]]
<1>4. \A k \in 1..n : /\ UnitOrder[k] \in Unit /\ Home[UnitOrder[k]] \in Region
                      /\ UnitOrder[k] \in ever[Home[UnitOrder[k]]]
  BY <1>1, HomeAssumption DEF Unit, Range
<1>5. \A b : b \in Boards <=> Laid(b, ever)
  BY DEF Laid
<1>6. ASSUME NEW k \in 1..n, NEW b \in Boards
      PROVE  Put(b, k) \in Boards /\ Carries(b, Put(b, k), ever)
  BY <1>4, <1>5, AppendToLaid
<1> HIDE DEF Boards, Put
<1>7. PICK g : Runs(g, n, Boards, start, next)
  <2>1. next \in [1..n -> [Boards -> Boards]] /\ start \in Boards
    BY <1>3, <1>5, <1>6
  <2> HIDE DEF next
  <2> QED
    BY <2>1, Iterates
<1>8. g[0] = start /\ \A k \in 1..n : k - 1 \in 0..n /\ g[k] = Put(g[k - 1], k)
  <2>1. \A k \in 1..n : k - 1 \in 0..n
    BY <1>1
  <2> QED
    BY <1>7, <2>1 DEF Runs
<1> DEFINE seeds(f) == f = [k \in 0..Len(UnitOrder) |->
                              IF k = 0 THEN [mem |-> m, slice |-> [r \in Region |-> [arr |-> 1, len |-> 0]]]
                              ELSE AppendTo(f[k - 1], Home[UnitOrder[k]], UnitOrder[k])]
<1>9. seeds(g)
  <2>1. \A k \in 0..n : k = 0 \/ k \in 1..n
    BY <1>1
  <2>2. \A k \in 0..n : g[k] = IF k = 0 THEN start ELSE Put(g[k - 1], k)
    BY <1>8, <2>1
  <2> QED
    BY <1>1, <1>2, <1>7, <2>2 DEF Put, Runs, Bare
<1>10. Seeded(m) = (CHOOSE f : seeds(f))[Len(UnitOrder)]
  BY DEF Seeded
<1>11. seeds(CHOOSE f : seeds(f))
  <2> HIDE DEF seeds
  <2> QED
    BY <1>9
<1> HIDE DEF seeds
<1>12. PICK f : f = (CHOOSE h : seeds(h)) /\ seeds(f)
  BY <1>11
<1>13. /\ f[0] = start
       /\ \A k \in 0..(n - 1) : f[k + 1] = AppendTo(f[k], Home[UnitOrder[k + 1]], UnitOrder[k + 1])
  <2>1. \A k \in 0..n : f[k] = IF k = 0 THEN start
                                ELSE AppendTo(f[k - 1], Home[UnitOrder[k]], UnitOrder[k])
    <3>1. seeds(f)
      BY <1>12
    <3> QED
      BY <1>1, <1>2, <3>1 DEF seeds, Bare
  <2>2. \A k \in 0..(n - 1) : k + 1 \in 0..n /\ k + 1 # 0 /\ (k + 1) - 1 = k
    BY <1>1
  <2>3. 0 \in 0..n
    BY <1>1
  <2> QED
    BY <2>1, <2>2, <2>3
<1> DEFINE T == {k \in 0..n : Laid(f[k], ever) /\ Carries(start, f[k], ever)}
<1>14. 0 \in T
  BY <1>1, <1>3, <1>13, CarriesItself
<1>15. ASSUME NEW k \in 0..(n - 1), k \in T PROVE k + 1 \in T
  <2>1. PICK u : u = UnitOrder[k + 1]
    OBVIOUS
  <2>2. PICK b : b = f[k]
    OBVIOUS
  <2>3. k + 1 \in 1..n /\ k + 1 \in 0..n
    BY <1>1
  <2>4. u \in Unit /\ Home[u] \in Region /\ u \in ever[Home[u]]
    BY <1>4, <2>1, <2>3
  <2>5. Laid(b, ever) /\ Carries(start, b, ever)
    BY <1>15, <2>2
  <2>6. PICK c : c = AppendTo(b, Home[u], u)
    OBVIOUS
  <2>7. Laid(c, ever) /\ Carries(b, c, ever)
    BY <2>4, <2>5, <2>6, AppendToLaid
  <2>8. Carries(start, c, ever)
    BY <2>5, <2>7, CarriesOn
  <2>9. f[k + 1] = c
    BY <1>13, <2>1, <2>2, <2>6
  <2> QED
    BY <2>3, <2>7, <2>8, <2>9
<1> HIDE DEF T
<1>16. n \in T
  <2>1. \A k \in 0..(n - 1) : k \in T => k + 1 \in T
    BY <1>15
  <2>2. \A k \in 0..n : k \in T
    BY <1>14, <2>1, Spreads
  <2>3. n \in 0..n
    BY <1>1
  <2> QED
    BY <2>2, <2>3
<1>17. Seeded(m) = f[n]
  BY <1>1, <1>10, <1>12
<1> QED
  BY <1>2, <1>16, <1>17 DEF T

-----------------------------------------------------------------------------
(* What a snapshot keeps when its arrays are overwritten *)

Showing == {"encode", "answered"}

\* A handler in step p with snapshot s has encoded v.  The slices of the snapshot
\* are sound on board b, and what has been encoded of them is as long as they are
\* and names only units their regions' lists ever held.
Right(p, s, v, b, ever) ==
  /\ p \notin Showing => v = <<>>
  /\ p \in Showing =>
       /\ \A r \in Region : Sound(b, r, s.slice[r], ever) /\ Len(s.held[r]) = s.slice[r].len
       /\ RegionOrder # <<>> =>
            /\ v \in Seq(Seq(Cell)) /\ Len(v) <= Len(RegionOrder)
            /\ Len(v) = Len(RegionOrder) <=> p = "answered"
            /\ \A k \in 1..Len(v) : /\ Len(v[k]) = s.slice[RegionOrder[k]].len
                                    /\ Range(v[k]) \subseteq ever[RegionOrder[k]]

LEMMA OrderedRegion ==
  ASSUME NEW n, n <= Len(RegionOrder), n \in Nat, NEW k \in 1..n
  PROVE  RegionOrder[k] \in Region
<1>1. PICK l \in Nat : l = Len(RegionOrder) /\ DOMAIN RegionOrder = 1..l
  BY OrderAssumption, LenProperties
<1>2. k \in 1..l
  BY <1>1
<1> QED
  BY <1>1, <1>2 DEF Region, Range

LEMMA RightKept ==
  ASSUME NEW p, NEW s, NEW v, NEW b, NEW c, NEW ever, NEW more,
         Right(p, s, v, b, ever), Carries(b, c, more), Wider(ever, more)
  PROVE  Right(p, s, v, c, more)
<1>1. p \in Showing => \A r \in Region : Sound(c, r, s.slice[r], more)
  <2> SUFFICES ASSUME p \in Showing, NEW r \in Region PROVE Sound(c, r, s.slice[r], more)
    OBVIOUS
  <2>1. PICK z : z = s.slice[r]
    OBVIOUS
  <2>2. Sound(b, r, z, ever)
    BY <2>1 DEF Right
  <2>3. Sound(b, r, z, more) /\ z \in Slice
    BY <2>2, SoundGrows DEF Sound
  <2> QED
    BY <2>1, <2>3 DEF Carries
<1>2. ASSUME p \in Showing, RegionOrder # <<>>, NEW k \in 1..Len(v)
      PROVE  Range(v[k]) \subseteq more[RegionOrder[k]]
  <2>1. v \in Seq(Seq(Cell)) /\ Len(v) <= Len(RegionOrder)
        /\ Range(v[k]) \subseteq ever[RegionOrder[k]]
    BY <1>2 DEF Right
  <2>2. Len(v) \in Nat
    BY <2>1, LenProperties
  <2>3. RegionOrder[k] \in Region
    BY <2>1, <2>2, OrderedRegion
  <2> QED
    BY <2>1, <2>3 DEF Wider
<1> QED
  BY <1>1, <1>2 DEF Right

LEMMA SnapshotRight ==
  ASSUME NEW b, NEW ever, Laid(b, ever), NEW s, s.slice = b.slice, s.held = Held(b)
  PROVE  Right("encode", s, <<>>, b, ever)
<1>1. ASSUME NEW r \in Region
      PROVE  Sound(b, r, s.slice[r], ever) /\ Len(s.held[r]) = s.slice[r].len
  <2>1. PICK z : z = b.slice[r]
    OBVIOUS
  <2>2. Sound(b, r, z, ever) /\ b.mem \in Seq(Seq(Cell))
    BY <2>1 DEF Laid
  <2>3. Len(Content(b.mem, z)) = z.len
    BY <2>2, ContentProperties
  <2> QED
    BY <2>1, <2>2, <2>3 DEF Held
<1>2. <<>> \in Seq(Seq(Cell)) /\ Len(<<>>) = 0 /\ 1..Len(<<>>) = {}
  BY EmptySeq
<1>3. RegionOrder # <<>> => Len(RegionOrder) # 0 /\ Len(RegionOrder) \in Nat
  BY OrderAssumption, EmptySeq, LenProperties
<1> QED
  BY <1>1, <1>2, <1>3 DEF Right, Showing

LEMMA EncodeRight ==
  ASSUME NEW s, NEW v, NEW b, b.mem \in Seq(Seq(Cell)), NEW ever, Right("encode", s, v, b, ever),
         NEW w, w = Append(v, Content(b.mem, s.slice[RegionOrder[Len(v) + 1]])),
         NEW p, p = IF Len(w) = Len(RegionOrder) THEN "answered" ELSE "encode"
  PROVE  Right(p, s, w, b, ever)
<1>1. p \in Showing /\ "encode" \in Showing
  BY DEF Showing
<1>2. CASE RegionOrder = <<>>
  BY <1>1, <1>2 DEF Right
<1>3. CASE RegionOrder # <<>>
  <2>1. PICK k : k = Len(v) + 1
    OBVIOUS
  <2>2. PICK n : n = Len(RegionOrder)
    OBVIOUS
  <2>3. v \in Seq(Seq(Cell)) /\ Len(v) <= n /\ Len(v) # n
    BY <1>1, <1>3, <2>2 DEF Right
  <2>4. Len(v) \in Nat /\ n \in Nat /\ DOMAIN RegionOrder = 1..n
    BY <2>2, <2>3, OrderAssumption, LenProperties
  <2>5. k \in 1..n
    BY <2>1, <2>3, <2>4
  <2>6. PICK r : r = RegionOrder[k] /\ r \in Region
    BY <2>4, <2>5 DEF Region, Range
  <2>7. PICK z : z = s.slice[r]
    OBVIOUS
  <2>8. Sound(b, r, z, ever)
    BY <1>1, <2>6, <2>7 DEF Right
  <2>9. PICK x : x = Content(b.mem, z)
    OBVIOUS
  <2>10. x \in Seq(Cell) /\ Len(x) = z.len /\ Range(x) \subseteq ever[r]
    BY <2>6, <2>8, <2>9, ContentProperties
  <2>11. /\ w \in Seq(Seq(Cell)) /\ Len(w) = k /\ w[k] = x
         /\ \A i \in 1..Len(v) : w[i] = v[i]
    BY <2>1, <2>3, <2>6, <2>7, <2>9, <2>10, AppendProperties
  <2>12. \A i \in 1..k : i \in 1..Len(v) \/ i = k
    BY <2>1, <2>4
  <2>13. \A i \in 1..Len(v) : /\ Len(v[i]) = s.slice[RegionOrder[i]].len
                              /\ Range(v[i]) \subseteq ever[RegionOrder[i]]
    BY <1>1, <1>3 DEF Right
  <2>14. \A i \in 1..Len(w) : /\ Len(w[i]) = s.slice[RegionOrder[i]].len
                              /\ Range(w[i]) \subseteq ever[RegionOrder[i]]
    BY <2>6, <2>7, <2>10, <2>11, <2>12, <2>13
  <2>15. Len(w) <= n /\ (Len(w) = n <=> p = "answered")
    BY <2>2, <2>5, <2>11
  <2> QED
    BY <1>1, <2>2, <2>11, <2>14, <2>15 DEF Right
<1> QED
  BY <1>2, <1>3

\* resolveCombat's copy of a region is sound, and its array is still the list's.
Stale(g, b, ever) ==
  g # NoReg => /\ g.region \in Region
               /\ Sound(b, g.region, g.slice, ever)
               /\ g.slice.arr = b.slice[g.region].arr

\* The lists are always sound, also inside a turn, and so is what each handler has
\* copied and encoded of them.
BoardInv ==
  /\ DOMAIN pc = Client /\ DOMAIN snap = Client /\ DOMAIN view = Client
  /\ where \in [Unit -> Region \cup {""}]
  /\ been \in [Region -> SUBSET Unit] /\ \A u \in Unit : u \in been[Home[u]]
  /\ Laid(board, been) /\ Stale(reg, board, been) /\ (holder = Nobody => reg = NoReg)
  /\ \A c \in Client : Right(pc[c], snap[c], view[c], board, been)

LEMMA InitBoard == Init => BoardInv
<1> SUFFICES ASSUME Init PROVE BoardInv
  OBVIOUS
<1>1. PICK m : m = <<<<>>>>
  OBVIOUS
<1>2. m \in Seq(Seq(Cell)) /\ 1 \in DOMAIN m /\ m[1] = <<>>
  <2>1. <<>> \in Seq(Cell)
    BY EmptySeq
  <2> QED
    BY <1>1, <2>1
<1>3. /\ board = Seeded(m) /\ where = Home /\ reg = NoReg
      /\ pc = [c \in Client |-> "idle"] /\ snap = [c \in Client |-> NoSnapshot]
      /\ view = [c \in Client |-> <<>>]
      /\ been = [r \in Region |-> {u \in Unit : Home[u] = r}]
  BY <1>1 DEF Init
<1>4. been \in [Region -> SUBSET Unit] /\ \A u \in Unit : u \in been[Home[u]]
  BY <1>3, HomeAssumption
<1>5. Laid(board, been)
  BY <1>2, <1>3, <1>4, SeededLaid
<1>6. \A c \in Client : Right(pc[c], snap[c], view[c], board, been)
  BY <1>3 DEF Right, Showing
<1> QED
  BY <1>3, <1>4, <1>5, <1>6, HomeAssumption DEF BoardInv, Stale

\* A step that keeps the slices sound disturbs nobody but the handlers it concerns.
LEMMA BoardStep ==
  ASSUME BoardInv, DOMAIN pc' = Client, DOMAIN snap' = Client, DOMAIN view' = Client,
         where' \in [Unit -> Region \cup {""}],
         been' \in [Region -> SUBSET Unit], Wider(been, been'),
         Laid(board', been'), Carries(board, board', been'), Stale(reg', board', been'),
         holder' = Nobody => reg' = NoReg,
         \A d \in Client : \/ pc'[d] = pc[d] /\ snap'[d] = snap[d] /\ view'[d] = view[d]
                           \/ Right(pc'[d], snap'[d], view'[d], board', been')
  PROVE  BoardInv'
<1>1. PICK b : b = board'
  OBVIOUS
<1>2. PICK more : more = been'
  OBVIOUS
<1>3. ASSUME NEW d \in Client, pc'[d] = pc[d] /\ snap'[d] = snap[d] /\ view'[d] = view[d]
      PROVE  Right(pc'[d], snap'[d], view'[d], b, more)
  <2>1. /\ Right(pc[d], snap[d], view[d], board, been)
        /\ Carries(board, b, more) /\ Wider(been, more)
    BY <1>1, <1>2 DEF BoardInv
  <2>2. Right(pc[d], snap[d], view[d], b, more)
    BY <2>1, RightKept
  <2> QED
    BY <1>3, <2>2, Zenon
<1>4. \A d \in Client : Right(pc'[d], snap'[d], view'[d], b, more)
  BY <1>1, <1>2, <1>3, Zenon
<1>5. \A u \in Unit : u \in more[Home[u]]
  BY <1>2, HomeAssumption DEF BoardInv, Wider
<1> QED
  BY <1>1, <1>2, <1>4, <1>5, Zenon DEF BoardInv

\* A step that leaves the lists alone.
LEMMA HandlerStep ==
  ASSUME BoardInv, DOMAIN pc' = Client, DOMAIN snap' = Client, DOMAIN view' = Client,
         UNCHANGED lists, holder' = Nobody => holder = Nobody \/ reg = NoReg,
         \A d \in Client : \/ pc'[d] = pc[d] /\ snap'[d] = snap[d] /\ view'[d] = view[d]
                           \/ Right(pc'[d], snap'[d], view'[d], board, been)
  PROVE  BoardInv'
<1>1. UNCHANGED <<where, board, reg, been>>
  BY DEF lists
<1>2. Carries(board, board, been) /\ Wider(been, been)
  BY CarriesItself DEF Wider
<1> QED
  BY <1>1, <1>2, BoardStep DEF BoardInv

LEMMA BusyInTurn == InTurn => holder' # Nobody
BY TimerAssumption DEF InTurn, Wants

\* What a fight or a move does first.
LEMMA LeftLaid ==
  ASSUME NEW ever, NEW b, Laid(b, ever), NEW u \in Unit, where[u] \in Region \cup {""}
  PROVE  Laid(Left(b, u), ever) /\ Carries(b, Left(b, u), ever) /\ SameArrays(b, Left(b, u))
<1>1. CASE where[u] = ""
  BY <1>1, CarriesItself DEF Left, SameArrays
<1>2. CASE where[u] # ""
  <2>1. PICK r \in Region : r = where[u]
    BY <1>2
  <2>2. PICK c : c = RemoveFrom(b, r, u)
    OBVIOUS
  <2>3. Laid(c, ever) /\ Carries(b, c, ever) /\ SameArrays(b, c)
    BY <2>2, RemoveFromLaid
  <2>4. Left(b, u) = c
    BY <1>2, <2>1, <2>2 DEF Left
  <2> QED
    BY <2>3, <2>4
<1> QED
  BY <1>1, <1>2

LEMMA MoveBoard ==
  ASSUME BoardInv, NEW u \in Unit, NEW r \in Region, Move(u, r)
  PROVE  BoardInv'
<1>1. /\ board' = AppendUnique(Left(board, u), r, u) /\ where' = [where EXCEPT ![u] = r]
      /\ been' = [been EXCEPT ![r] = @ \cup {u}] /\ reg = NoReg /\ UNCHANGED reg
      /\ UNCHANGED <<pc, snap, view>>
  BY DEF Move, InTurn, handlerVars
<1>2. PICK more : more = been'
  OBVIOUS
<1>3. /\ more \in [Region -> SUBSET Unit] /\ Wider(been, more) /\ u \in more[r]
      /\ where' \in [Unit -> Region \cup {""}] /\ where[u] \in Region \cup {""}
  BY <1>1, <1>2 DEF BoardInv, Wider
<1>4. Laid(board, more)
  BY <1>3, LaidGrows DEF BoardInv
<1>5. PICK b : b = Left(board, u)
  OBVIOUS
<1>6. Laid(b, more) /\ Carries(board, b, more)
  BY <1>3, <1>4, <1>5, LeftLaid
<1>7. PICK c : c = AppendUnique(b, r, u)
  OBVIOUS
<1>8. Laid(c, more) /\ Carries(b, c, more)
  BY <1>3, <1>6, <1>7, AppendUniqueLaid
<1>9. Carries(board, c, more) /\ c = board'
  BY <1>1, <1>5, <1>6, <1>7, <1>8, CarriesOn
<1>10. Stale(reg', board', been') /\ reg' = NoReg
  BY <1>1 DEF Stale
<1> QED
  BY <1>1, <1>2, <1>3, <1>8, <1>9, <1>10, BoardStep DEF BoardInv

LEMMA FallBoard ==
  ASSUME BoardInv, NEW u \in Unit, NEW r \in Region, Fall(u, r)
  PROVE  BoardInv'
<1>1. /\ board' = Left(board, u) /\ UNCHANGED <<been, pc, snap, view>>
      /\ \E place \in {where[u], ""} : where' = [where EXCEPT ![u] = place]
  BY DEF Fall, InTurn, handlerVars
<1>2. where' \in [Unit -> Region \cup {""}] /\ where[u] \in Region \cup {""}
  BY <1>1 DEF BoardInv
<1>3. /\ Laid(board', been) /\ Carries(board, board', been)
      /\ \A q \in Region : board'.slice[q].arr = board.slice[q].arr
  <2>1. Laid(board, been)
    BY DEF BoardInv
  <2>2. PICK b : b = board /\ Laid(b, been)
    BY <2>1
  <2>3. PICK c : c = Left(b, u)
    OBVIOUS
  <2>4. Laid(c, been) /\ Carries(b, c, been) /\ SameArrays(b, c)
    BY <1>2, <2>2, <2>3, LeftLaid
  <2>5. board' = c
    BY <1>1, <2>2, <2>3
  <2> QED
    BY <2>2, <2>4, <2>5 DEF SameArrays
<1>4. PICK g : g = reg'
  OBVIOUS
<1>5. /\ g.region \in Region /\ Sound(board, g.region, g.slice, been)
      /\ g.slice.arr = board.slice[g.region].arr
  <2>1. CASE reg' = [region |-> r, slice |-> board.slice[r], held |-> Held(board)[r]]
    BY <1>4, <2>1 DEF BoardInv, Laid
  <2>2. CASE reg.region = r /\ UNCHANGED reg
    <3>1. reg # NoReg
      <4>1. NoReg.region = ""
        BY DEF NoReg
      <4>2. r # ""
        BY OrderAssumption
      <4> QED
        BY <2>2, <4>1, <4>2
    <3> QED
      BY <1>4, <2>2, <3>1 DEF BoardInv, Stale
  <2> QED
    BY <2>1, <2>2 DEF Fall
<1>6. Stale(reg', board', been')
  <2>1. PICK z \in Slice : z = g.slice
    BY <1>5 DEF Sound
  <2>2. Sound(board', g.region, z, been)
    BY <1>3, <1>5, <2>1 DEF Carries
  <2> QED
    BY <1>1, <1>3, <1>4, <1>5, <2>1, <2>2 DEF Stale
<1>7. Wider(been, been') /\ holder' # Nobody
  BY <1>1, BusyInTurn DEF Wider, Fall
<1> QED
  BY <1>1, <1>2, <1>3, <1>6, <1>7, BoardStep DEF BoardInv

LEMMA ConquerBoard ==
  ASSUME BoardInv, Conquer
  PROVE  BoardInv'
<1>1. /\ board' = [board EXCEPT !.slice[reg.region] = reg.slice] /\ reg' = NoReg /\ reg # NoReg
      /\ UNCHANGED <<where, been, pc, snap, view>>
  BY DEF Conquer, InTurn, handlerVars
<1>2. PICK r \in Region : r = reg.region
  BY <1>1 DEF BoardInv, Stale
<1>3. PICK z \in Slice : z = reg.slice
  BY <1>1 DEF BoardInv, Stale, Sound
<1>4. Sound(board, r, z, been) /\ z.arr = board.slice[r].arr
  BY <1>1, <1>2, <1>3 DEF BoardInv, Stale
<1>5. PICK c : c = board'
  OBVIOUS
<1>6. /\ board \in [mem : Seq(Seq(Cell)), slice : [Region -> Slice]]
      /\ c = [board EXCEPT !.slice[r] = z]
  BY <1>1, <1>2, <1>3, <1>5 DEF BoardInv, Laid
<1>7. /\ c \in [mem : Seq(Seq(Cell)), slice : [Region -> Slice]]
      /\ c.mem = board.mem /\ c.slice[r] = z
      /\ \A q \in Region \ {r} : c.slice[q] = board.slice[q]
  BY <1>6
<1>8. \A q \in Region : c.slice[q].arr = board.slice[q].arr
  BY <1>4, <1>7
<1>9. Proper(board, c, been)
  <2>1. \A a \in DOMAIN board.mem : board.mem[a] \in Seq(Cell)
    BY <1>6, ElementOfSeq, LenProperties
  <2> QED
    BY <1>7, <1>8, <2>1 DEF Proper
<1>10. Carries(board, c, been)
  BY <1>9, ProperCarries DEF BoardInv, Laid
<1>11. ASSUME NEW q \in Region PROVE Sound(c, q, c.slice[q], been)
  <2>1. Sound(c, r, z, been)
    BY <1>4, <1>10 DEF Carries
  <2>2. board.slice[q] \in Slice /\ Sound(board, q, board.slice[q], been)
    BY <1>6 DEF BoardInv, Laid
  <2>3. Sound(c, q, board.slice[q], been)
    BY <1>10, <2>2 DEF Carries
  <2> QED
    BY <1>7, <2>1, <2>3
<1>12. Laid(c, been)
  BY <1>7, <1>11 DEF BoardInv, Laid
<1>13. Stale(reg', board', been') /\ Wider(been, been')
  BY <1>1 DEF Stale, Wider
<1> QED
  BY <1>1, <1>5, <1>10, <1>12, <1>13, BoardStep DEF BoardInv

LEMMA EntryBoard ==
  ASSUME BoardInv, NEW u \in Unit, EntryAlone(u)
  PROVE  BoardInv'
<1>1. /\ UNCHANGED <<board, reg, been, pc, snap, view>>
      /\ where' = [where EXCEPT ![u] = IF @ = "" THEN Home[u] ELSE ""]
  BY DEF EntryAlone, InTurn, handlerVars
<1>2. where' \in [Unit -> Region \cup {""}]
  BY <1>1, HomeAssumption DEF BoardInv
<1>3. Carries(board, board, been) /\ Wider(been, been) /\ holder' # Nobody
  BY BusyInTurn, CarriesItself DEF Wider, EntryAlone
<1> QED
  BY <1>1, <1>2, <1>3, BoardStep DEF BoardInv

LEMMA ResetBoard ==
  ASSUME BoardInv, NEW c \in Client, Reset(c)
  PROVE  BoardInv'
<1>1. /\ board' = Seeded(board.mem) /\ where' = Home /\ UNCHANGED <<reg, been, snap, view>>
      /\ pc[c] = "reset" /\ pc' = [pc EXCEPT ![c] = "snapshot"]
  BY DEF Reset
<1>2. PICK b : b = board /\ Laid(b, been)
  BY DEF BoardInv
<1>3. PICK m : m = b.mem
  OBVIOUS
<1>4. b \in [mem : Seq(Seq(Cell)), slice : [Region -> Slice]] /\ m \in Seq(Seq(Cell))
      /\ 1 \in DOMAIN m /\ m[1] = <<>>
  BY <1>2, <1>3 DEF Laid
<1>5. PICK d : d = Seeded(m)
  OBVIOUS
<1>6. PICK e : e = Bare(m)
  OBVIOUS
<1>7. Laid(d, been) /\ Carries(e, d, been)
  BY <1>4, <1>5, <1>6, SeededLaid DEF BoardInv
<1>8. Carries(b, e, been)
  <2>1. e.mem = m /\ \A q \in Region : e.slice[q].arr = 1
    BY <1>6 DEF Bare
  <2>2. \A a \in DOMAIN m : m[a] \in Seq(Cell)
    BY <1>4, ElementOfSeq, LenProperties
  <2>3. Proper(b, e, been)
    BY <1>3, <2>1, <2>2 DEF Proper
  <2> QED
    BY <1>3, <1>4, <2>3, ProperCarries
<1>9. Carries(b, d, been) /\ b = board /\ d = board'
  BY <1>1, <1>2, <1>3, <1>5, <1>7, <1>8, CarriesOn
<1>10. Right(pc'[c], snap'[c], view'[c], board', been')
  BY <1>1 DEF BoardInv, Right, Showing
\* Nobody is inside a fight: a reset waits for the mutex.
<1>11. Stale(reg', board', been') /\ reg' = NoReg
  BY <1>1 DEF Reset, BoardInv, Stale
<1>12. Wider(been, been')
  BY <1>1 DEF Wider
<1> QED
  BY <1>1, <1>7, <1>9, <1>10, <1>11, <1>12, HomeAssumption, BoardStep DEF BoardInv

LEMMA StepBoard == BoardInv /\ [Next]_vars => BoardInv'
<1> SUFFICES ASSUME BoardInv, [Next]_vars PROVE BoardInv'
  OBVIOUS
<1>1. /\ DOMAIN pc = Client /\ DOMAIN snap = Client /\ DOMAIN view = Client
      /\ Laid(board, been) /\ board.mem \in Seq(Seq(Cell))
      /\ holder = Nobody => reg = NoReg
  BY DEF BoardInv, Laid
\* Requests and answers about orders, waiting for the mutex.
<1>2. ASSUME NEW c \in Client, NEW step \in {"idle", "submit", "tick", "reset", "snapshot"},
             Asks(c, step), UNCHANGED engineVars
      PROVE  BoardInv'
  <2>1. UNCHANGED lists /\ UNCHANGED holder
    BY <1>2 DEF engineVars
  <2>2. /\ pc'[c] = step /\ view'[c] = <<>>
        /\ DOMAIN pc' = Client /\ DOMAIN snap' = Client /\ DOMAIN view' = Client
        /\ \A d \in Client \ {c} : pc'[d] = pc[d] /\ snap'[d] = snap[d] /\ view'[d] = view[d]
    BY <1>1, <1>2 DEF Asks
  <2>3. Right(pc'[c], snap'[c], view'[c], board, been)
    BY <2>2 DEF Right, Showing
  <2> QED
    BY <1>1, <2>1, <2>2, <2>3, HandlerStep
<1>3. ASSUME NEW c \in Client, Submit(c) \/ Record(c) PROVE BoardInv'
  <2>1. UNCHANGED lists /\ UNCHANGED <<holder, snap, view>>
    BY <1>3 DEF Submit, Record, engineVars
  <2>2. pc[c] \in {"submit", "record"} /\ \E to \in {"record", "idle"} : pc' = [pc EXCEPT ![c] = to]
    BY <1>3 DEF Submit, Record, Forget
  <2>3. Right(pc'[c], snap'[c], view'[c], board, been)
    BY <1>1, <2>1, <2>2 DEF BoardInv, Right, Showing
  <2> QED
    BY <1>1, <2>1, <2>2, <2>3, HandlerStep
\* A snapshot is taken while the lists are sound.
<1>4. ASSUME NEW h \in Client \cup {Timer}, Shows(h, Snapshot), UNCHANGED lists, UNCHANGED view,
             holder' = Nobody => holder = Nobody \/ reg = NoReg,
             h \in Client => pc[h] \in {"tick", "snapshot"}
      PROVE  BoardInv'
  <2>1. CASE h = Timer
    BY <1>1, <1>4, <2>1, HandlerStep DEF Shows
  <2>2. CASE h # Timer
    <3>1. PICK s : s = Snapshot
      OBVIOUS
    <3>2. h \in Client /\ pc' = [pc EXCEPT ![h] = "encode"] /\ snap' = [snap EXCEPT ![h] = s]
      BY <1>4, <2>2, <3>1 DEF Shows
    <3>3. view[h] = <<>>
      BY <1>4, <3>2 DEF BoardInv, Right, Showing
    <3>4. s.slice = board.slice /\ s.held = Held(board)
      BY <3>1 DEF Snapshot
    <3>5. Right("encode", s, <<>>, board, been)
      BY <1>1, <3>4, SnapshotRight
    <3>6. Right(pc'[h], snap'[h], view'[h], board, been)
      BY <1>1, <1>4, <3>2, <3>3, <3>5
    <3> QED
      BY <1>1, <1>4, <3>2, <3>6, HandlerStep
  <2> QED
    BY <2>1, <2>2
<1>5. ASSUME NEW c \in Client, TickAfterTheEnd(c) \/ TakeSnapshot(c) PROVE BoardInv'
  <2>1. /\ Shows(c, Snapshot) /\ UNCHANGED lists /\ UNCHANGED view /\ UNCHANGED holder
        /\ pc[c] \in {"tick", "snapshot"}
    BY <1>5 DEF TickAfterTheEnd, TakeSnapshot, engineVars
  <2> QED
    BY <1>4, <2>1
<1>6. CASE TurnEnds
  <2>1. /\ Shows(holder, Snapshot) /\ UNCHANGED lists /\ UNCHANGED view /\ reg = NoReg
        /\ holder \in Client \cup {Timer} /\ (holder \in Client => pc[holder] \in {"tick", "snapshot"})
    BY <1>6, TimerAssumption DEF TurnEnds, Wants
  <2> QED
    BY <1>4, <2>1
\* One more list of the answer is read, whatever its array holds by now.
<1>7. ASSUME NEW c \in Client, Encode(c) PROVE BoardInv'
  <2>1. UNCHANGED lists /\ UNCHANGED <<holder, snap>> /\ pc[c] = "encode"
    BY <1>7 DEF Encode, engineVars
  <2>2. PICK w : w = Append(view[c], Content(board.mem, snap[c].slice[RegionOrder[Len(view[c]) + 1]]))
    OBVIOUS
  <2>3. PICK p : p = IF Len(w) = Len(RegionOrder) THEN "answered" ELSE "encode"
    OBVIOUS
  <2>4. view' = [view EXCEPT ![c] = w] /\ pc' = [pc EXCEPT ![c] = p]
    BY <1>1, <1>7, <2>2, <2>3 DEF Encode
  <2>5. Right("encode", snap[c], view[c], board, been)
    BY <2>1 DEF BoardInv
  <2>6. Right(p, snap[c], w, board, been)
    BY <1>1, <2>2, <2>3, <2>5, EncodeRight
  <2>7. Right(pc'[c], snap'[c], view'[c], board, been)
    BY <1>1, <2>1, <2>4, <2>6
  <2> QED
    BY <1>1, <2>1, <2>4, <2>7, HandlerStep
<1>8. CASE (\E h \in Client \cup {Timer} : TurnBegins(h)) \/ UNCHANGED vars
  <2>1. UNCHANGED lists /\ UNCHANGED <<pc, snap, view>> /\ (holder' = Nobody => holder = Nobody)
    BY <1>8 DEF TurnBegins, handlerVars, vars, engineVars
  <2> QED
    BY <1>1, <2>1, HandlerStep
<1>9. ASSUME NEW c \in Client, Request(c) PROVE BoardInv'
  <2>1. /\ \E step \in {"idle", "submit", "tick", "reset", "snapshot"} : Asks(c, step)
        /\ UNCHANGED engineVars
    BY <1>9 DEF Request, BadJSON, OrderArrives, TickArrives, ResetArrives, StateArrives
  <2> QED
    BY <1>2, <2>1
<1> QED
  BY <1>3, <1>5, <1>6, <1>7, <1>8, <1>9, MoveBoard, FallBoard, ConquerBoard, EntryBoard, ResetBoard
     DEF Next, Handle

\* However the arrays are shifted, extended and shared while an answer is encoded,
\* each of its lists keeps its length and names only units its region's list has
\* held (engine.go, snapshotLocked, remove, append and line 468; server.go, writeJSON).
THEOREM ListsNameTheirOwn == Spec => []ListsNameVisitors
<1>1. BoardInv => ListsNameVisitors
  <2> SUFFICES ASSUME BoardInv, NEW c \in Client, pc[c] = "answered", NEW k \in DOMAIN RegionOrder
               PROVE  LET r == RegionOrder[k] IN
                        Len(view[c][k]) = Len(snap[c].held[r]) /\ Range(view[c][k]) \subseteq been[r]
    BY DEF ListsNameVisitors
  <2>1. DOMAIN RegionOrder = 1..Len(RegionOrder) /\ RegionOrder # <<>>
    <3>1. DOMAIN RegionOrder = 1..Len(RegionOrder)
      BY OrderAssumption, LenProperties
    <3>2. RegionOrder # <<>>
      BY EmptySeq
    <3> QED
      BY <3>1, <3>2
  <2>2. PICK r \in Region : r = RegionOrder[k]
    BY DEF Region, Range
  <2>3. Right("answered", snap[c], view[c], board, been)
    BY DEF BoardInv
  <2>4. /\ Len(view[c]) = Len(RegionOrder)
        /\ \A i \in 1..Len(view[c]) : /\ Len(view[c][i]) = snap[c].slice[RegionOrder[i]].len
                                      /\ Range(view[c][i]) \subseteq been[RegionOrder[i]]
        /\ Len(snap[c].held[r]) = snap[c].slice[r].len
    BY <2>1, <2>3 DEF Right, Showing
  <2> QED
    BY <2>1, <2>2, <2>4
<1> QED
  BY <1>1, InitBoard, StepBoard, PTL DEF Spec

=============================================================================
