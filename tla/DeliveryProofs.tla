--------------------------- MODULE DeliveryProofs ---------------------------
(***************************************************************************)
(* For any number of clients, any capacities and any number of records:    *)
(* the hub never sends on a closed channel; the Dark Side's clients are    *)
(* never on the way to be told the bearer's region; bus, hub and handlers  *)
(* implement Feed; a record is lost only where a full channel drops it or  *)
(* the bus is closed; and no channel is overfull.                          *)
(***************************************************************************)
EXTENDS DeliveryProps, SequenceTheorems, TLAPS

-----------------------------------------------------------------------------
(* Leaving *)

\* A channel is registered exactly while its handler reads, and closed only
\* after that: the two never meet.
Registration ==
  /\ handler \in [Client -> {"none", "reading", "closing", "gone"}]
  /\ light \cup dark = {c \in Client : handler[c] = "reading"}
  /\ \A c \in shut : c \in Client /\ handler[c] = "gone"
  /\ ~panicked

LEMMA StepRegistration == Registration /\ [Next]_vars => Registration'
<1> SUFFICES ASSUME Registration, [Next]_vars PROVE Registration'
  OBVIOUS
<1> USE DEF Registration
<1>1. CASE UNCHANGED <<light, dark, shut, handler, panicked>>
  BY <1>1
<1>2. CASE ToLight \/ ToDark
  <2>1. light \cap shut = {} /\ dark \cap shut = {}
    OBVIOUS
  <2>2. panicked' = FALSE /\ UNCHANGED <<light, dark, shut, handler>>
    BY <1>2, <2>1 DEF ToLight, ToDark, FanOut
  <2> QED
    BY <2>2
<1>3. ASSUME NEW c \in Client, Subscribe(c) PROVE Registration'
  BY <1>3 DEF Subscribe
<1>4. ASSUME NEW c \in Client, Unregister(c) PROVE Registration'
  BY <1>4 DEF Unregister
<1>5. ASSUME NEW c \in Client, CloseChannel(c) PROVE Registration'
  BY <1>5 DEF CloseChannel, hubVars
<1>6. ASSUME NEW c \in Client, Read(c) PROVE Registration'
  BY <1>1, <1>6 DEF Read, hubVars
<1>7. CASE (\E r \in Emitted : Produce(r)) \/ Close \/ HubReceive
  BY <1>1, <1>7 DEF Produce, Close, HubReceive, hubVars, clientVars
<1>8. CASE UNCHANGED vars
  BY <1>1, <1>8 DEF vars, hubVars, clientVars
<1> QED
  BY <1>2, <1>3, <1>4, <1>5, <1>6, <1>7, <1>8 DEF Next, Hub, Handle

\* The hub never sends on a closed channel, however clients come and go during
\* a fan-out (Hub.Subscribe's unsubscribe, toLight, toDark).
THEOREM HubNeverPanics == Spec => []NeverPanics
<1>1. Init => Registration
  BY DEF Init, Registration
<1>2. Registration /\ [Next]_vars => Registration'
  BY StepRegistration
<1>3. Registration => NeverPanics
  BY DEF Registration, NeverPanics
<1> QED
  BY <1>1, <1>2, <1>3, PTL DEF Spec

-----------------------------------------------------------------------------
(* Secrecy *)

\* The records the hub can receive: only three topics name the bearer's region.
Routable == {m \in Records : m.region # "" => m.topic \in {Position, Detection, Broadcast}}

\* The records a client of the Dark Side may be sent.
Shown == {m \in Records : m.region # "" => m.topic = Detection}

\* What the hub holds is routable, its position records go no further than the
\* Light Side, and the Dark Side's channels and streams show nothing else.
Hidden ==
  /\ inbox \in Seq(Routable) /\ msg \in Routable
  /\ phase = "dark" => msg.topic # Position
  /\ chan \in [Client -> Seq(Records)] /\ got \in [Client -> Seq(Records)]
  /\ \A c \in light : ~IsDark(c)
  /\ \A c \in Client : IsDark(c) => chan[c] \in Seq(Shown) /\ got[c] \in Seq(Shown)

LEMMA EmittedRoutable ==
  ASSUME NEW r \in Emitted, NEW n \in Nat
  PROVE  Numbered(r, n) \in Routable
<1>1. [id |-> n, topic |-> r.topic, type |-> r.type,
       region |-> r.region, track |-> r.track] \in Records
  BY DEF Emitted, Records, HubTopics, EventTopics, Position, Detection, Broadcast
<1>2. r.region # "" => r.topic \in {Position, Detection, Broadcast}
  BY DEF Emitted, Position, Detection, Broadcast
<1> DEFINE m == Numbered(r, n)
<1>3. /\ m = [id |-> n, topic |-> r.topic, type |-> r.type,
              region |-> r.region, track |-> r.track]
      /\ m.region = r.region /\ m.topic = r.topic
  BY DEF Numbered
<1>4. m \in Records
  BY <1>1, <1>3
<1> HIDE DEF m
<1>5. m \in Routable
  BY <1>2, <1>3, <1>4 DEF Routable
<1> QED
  BY <1>5 DEF m

LEMMA StripShown ==
  ASSUME NEW m \in Routable
  PROVE  /\ Strip(m) \in Shown
         /\ m.topic \notin {Position, Broadcast} => m \in Shown
<1>1. m \in Records
  BY DEF Routable
<1>2. Strip(m) \in Records /\ Strip(m).region = ""
  BY <1>1 DEF Strip, Records
<1>3. ASSUME m.topic \notin {Position, Broadcast} PROVE m \in Shown
  BY <1>1, <1>3 DEF Routable, Shown
<1> QED
  BY <1>2, <1>3 DEF Shown

LEMMA MembersOf == ASSUME NEW S, NEW s \in Seq(S) PROVE Range(s) \subseteq S
BY DEF Range

\* A fan-out of a record to channels of one side keeps the streams as they are.
LEMMA FanOutHidden ==
  ASSUME Hidden, NEW S \in SUBSET Client, NEW m \in Records, FanOut(S, m),
         m \in Shown \/ \A c \in S : ~IsDark(c)
  PROVE  /\ chan' \in [Client -> Seq(Records)]
         /\ \A c \in Client : IsDark(c) => chan'[c] \in Seq(Shown)
<1>1. ASSUME NEW c \in Client
      PROVE  chan'[c] \in Seq(Records) /\ (IsDark(c) => chan'[c] \in Seq(Shown))
  <2>1. /\ chan[c] \in Seq(Records)
        /\ chan'[c] = chan[c] \/ (c \in S /\ chan'[c] = Append(chan[c], m))
    BY DEF Hidden, FanOut
  <2>2. IsDark(c) => chan[c] \in Seq(Shown)
    BY DEF Hidden
  <2>3. CASE chan'[c] = chan[c]
    BY <2>1, <2>2, <2>3
  <2>4. CASE c \in S /\ chan'[c] = Append(chan[c], m)
    <3>1. chan'[c] \in Seq(Records)
      BY <2>1, <2>4
    <3>2. ASSUME IsDark(c) PROVE chan'[c] \in Seq(Shown)
      <4>1. m \in Shown /\ chan[c] \in Seq(Shown)
        BY <2>2, <2>4, <3>2
      <4> QED
        BY <2>4, <4>1
    <3> QED
      BY <3>1, <3>2
  <2> QED
    BY <2>1, <2>3, <2>4
<1>2. \E f : chan' = [c \in Client |-> f[c]]
  <2>1. chan' = [c \in Client |-> chan'[c]]
    BY DEF FanOut
  <2> QED
    BY <2>1
<1> QED
  BY <1>1, <1>2

LEMMA StepHidden == Registration /\ Hidden /\ [Next]_vars => Hidden'
<1> SUFFICES ASSUME Registration, Hidden, [Next]_vars PROVE Hidden'
  OBVIOUS
<1>1. CASE UNCHANGED <<inbox, msg, phase, chan, got, light>>
  BY <1>1 DEF Hidden
<1>2. ASSUME NEW r \in Emitted, Produce(r) PROVE Hidden'
  <2> DEFINE m == Numbered(r, Len(produced) + 1)
  <2>1. m \in Routable
    BY EmittedRoutable
  <2>2. inbox' = inbox \/ inbox' = Append(inbox, m)
    BY <1>2 DEF Produce, Enqueue
  <2> HIDE DEF m
  <2>3. inbox' \in Seq(Routable)
    BY <2>1, <2>2 DEF Hidden
  <2> QED
    BY <1>2, <2>3 DEF Produce, hubVars, clientVars, Hidden
<1>3. CASE HubReceive
  <2>1. /\ inbox \in Seq(Routable) /\ inbox # <<>>
        /\ msg' = Head(inbox) /\ inbox' = Tail(inbox)
    BY <1>3 DEF HubReceive, Hidden
  <2>2. msg' \in Routable /\ inbox' \in Seq(Routable)
    BY <2>1
  <2>3. phase' = "dark" => msg'.topic # Position
    BY <1>3 DEF HubReceive, Position, Detection
  <2> QED
    BY <1>3, <2>2, <2>3 DEF HubReceive, clientVars, Hidden
<1>4. CASE ToLight
  <2>1. msg \in Routable /\ msg \in Records /\ light \in SUBSET Client
    BY DEF Hidden, Routable, Registration
  <2>2. /\ chan' \in [Client -> Seq(Records)]
        /\ \A c \in Client : IsDark(c) => chan'[c] \in Seq(Shown)
    BY <1>4, <2>1, FanOutHidden DEF ToLight, Hidden
  <2>3. phase' = "dark" => msg.topic # Position
    BY <1>4 DEF ToLight, AfterLight
  <2> QED
    BY <1>4, <2>2, <2>3 DEF ToLight, busVars, Hidden
<1>5. CASE ToDark
  <2> DEFINE m == IF msg.topic = Broadcast THEN Strip(msg) ELSE msg
  <2>1. msg \in Routable /\ msg.topic # Position /\ dark \in SUBSET Client
    BY <1>5 DEF Hidden, ToDark, Registration
  <2>2. m \in Shown
    BY <2>1, StripShown
  <2>3. m \in Records
    BY <2>2 DEF Shown
  <2>4. FanOut(dark, m) /\ phase' = "receive"
    BY <1>5 DEF ToDark
  <2> HIDE DEF m
  <2>5. /\ chan' \in [Client -> Seq(Records)]
        /\ \A c \in Client : IsDark(c) => chan'[c] \in Seq(Shown)
    BY <2>1, <2>2, <2>3, <2>4, FanOutHidden
  <2> QED
    BY <1>5, <2>4, <2>5 DEF ToDark, busVars, Hidden
<1>6. ASSUME NEW c \in Client, Subscribe(c) PROVE Hidden'
  <2>1. light' = IF IsDark(c) THEN light ELSE light \cup {c}
    BY <1>6 DEF Subscribe, IsDark
  <2> QED
    BY <1>6, <2>1 DEF Subscribe, busVars, Hidden
<1>7. ASSUME NEW c \in Client, Read(c) PROVE Hidden'
  <2>1. /\ chan[c] \in Seq(Records) /\ got[c] \in Seq(Records) /\ chan[c] # <<>>
        /\ chan' = [chan EXCEPT ![c] = Tail(chan[c])]
        /\ got' = [got EXCEPT ![c] = Append(got[c], Head(chan[c]))]
        /\ chan \in [Client -> Seq(Records)] /\ got \in [Client -> Seq(Records)]
    BY <1>7 DEF Read, Hidden
  <2>2. Tail(chan[c]) \in Seq(Records) /\ Append(got[c], Head(chan[c])) \in Seq(Records)
    BY <2>1
  <2>3. ASSUME IsDark(c)
        PROVE  Tail(chan[c]) \in Seq(Shown) /\ Append(got[c], Head(chan[c])) \in Seq(Shown)
    <3>1. chan[c] \in Seq(Shown) /\ got[c] \in Seq(Shown)
      BY <2>3 DEF Hidden
    <3> QED
      BY <2>1, <3>1
  <2>4. chan' \in [Client -> Seq(Records)] /\ got' \in [Client -> Seq(Records)]
    BY <2>1, <2>2
  <2>5. ASSUME NEW d \in Client, IsDark(d)
        PROVE  chan'[d] \in Seq(Shown) /\ got'[d] \in Seq(Shown)
    BY <2>1, <2>3, <2>5 DEF Hidden
  <2> QED
    BY <1>7, <2>4, <2>5 DEF Read, busVars, hubVars, Hidden
<1>8. ASSUME NEW c \in Client, Unregister(c) PROVE Hidden'
  BY <1>8 DEF Unregister, busVars, Hidden
<1>9. CASE Close \/ (\E c \in Client : CloseChannel(c)) \/ UNCHANGED vars
  BY <1>1, <1>9 DEF Close, CloseChannel, vars, busVars, hubVars, clientVars
<1> QED
  BY <1>2, <1>3, <1>4, <1>5, <1>6, <1>7, <1>8, <1>9 DEF Next, Hub, Handle

\* At the start nobody is registered and nothing waits.
LEMMA InitHidden == Init => Registration /\ Hidden
<1>1. ASSUME Init PROVE Hidden
  <2>1. NoRecord \in Routable
    <3>1. NoRecord \in Records /\ NoRecord.region = ""
      BY DEF NoRecord, Records, HubTopics, EventTopics
    <3> QED
      BY <3>1 DEF Routable
  <2>2. \A S : <<>> \in Seq(S)
    OBVIOUS
  <2> QED
    BY <1>1, <2>1, <2>2 DEF Init, Hidden
<1> QED
  BY <1>1 DEF Init, Registration

\* Nothing on its way to a client of the Dark Side, nor anything it was sent, names
\* the bearer's region, except a detection (the switch of Hub.Run and
\* stripBroadcast), for any clients, capacities and interleavings.
THEOREM RegionOnlyByDetection == Spec => []Secrecy
<1>1. Init => Registration /\ Hidden
  BY InitHidden
<1>2. Registration /\ Hidden /\ [Next]_vars => Registration' /\ Hidden'
  BY StepRegistration, StepHidden
<1>3. Registration /\ Hidden => Secrecy
  <2> SUFFICES ASSUME Hidden, NEW c \in Client, IsDark(c),
                      NEW m \in Range(chan[c]) \cup Range(got[c]), m.region # ""
               PROVE  m.topic = Detection
    BY DEF Secrecy
  <2>1. chan[c] \in Seq(Shown) /\ got[c] \in Seq(Shown)
    BY DEF Hidden
  <2>2. Range(chan[c]) \subseteq Shown /\ Range(got[c]) \subseteq Shown
    BY <2>1, MembersOf
  <2>3. m \in Shown
    BY <2>2
  <2> QED
    BY <2>3 DEF Shown
<1> QED
  BY <1>1, <1>2, <1>3, PTL DEF Spec
-----------------------------------------------------------------------------
(* The stream of a player *)

\* Records in a channel are in the order of their production, each once.
Rising(s) == \A i, j \in DOMAIN s : i < j => s[i].id < s[j].id

\* A record's id is a number.
LEMMA IdIsNat == \A m \in Records : m.id \in Nat
BY DEF Records

\* Sequences over a set are sequences over any larger one.
LEMMA SeqOfMore ==
  ASSUME NEW S, NEW T, S \subseteq T, NEW s \in Seq(S)
  PROVE  s \in Seq(T)
<1>1. \E n \in Nat : s \in [1..n -> S]
  BY SeqDef
<1> QED
  BY <1>1, SeqDef

\* What the hub holds and what it waits for are records.
LEMMA HubRecords == Hidden => inbox \in Seq(Records) /\ msg \in Records
<1>1. Routable \subseteq Records
  BY DEF Routable
<1> QED
  BY <1>1, SeqOfMore DEF Hidden

\* Taking from a channel leaves it rising, and what is left comes later.
LEMMA TakeFirst ==
  ASSUME NEW s \in Seq(Records), s # <<>>, Rising(s)
  PROVE  /\ Head(s) \in Records /\ Tail(s) \in Seq(Records)
         /\ Head(s) \in Range(s) /\ Range(Tail(s)) \subseteq Range(s)
         /\ Rising(Tail(s))
         /\ \A m \in Range(Tail(s)) : Head(s).id < m.id
         /\ \A m \in Range(s) : m = Head(s) \/ m \in Range(Tail(s))
<1>1. /\ Head(s) \in Records /\ Tail(s) \in Seq(Records) /\ Len(Tail(s)) = Len(s) - 1
      /\ \A i \in 1..Len(Tail(s)) : Tail(s)[i] = s[i + 1]
  BY HeadTailProperties
<1>2. Len(s) \in Nat \ {0} /\ DOMAIN s = 1..Len(s) /\ DOMAIN Tail(s) = 1..(Len(s) - 1)
  BY <1>1, EmptySeq, LenProperties
<1>3. Head(s) = s[1]
  OBVIOUS
<1>4. \A i \in DOMAIN Tail(s) : i + 1 \in DOMAIN s /\ Tail(s)[i] = s[i + 1]
  BY <1>1, <1>2
<1>5. Head(s) \in Range(s)
  BY <1>2, <1>3 DEF Range
<1>6. Range(Tail(s)) \subseteq Range(s)
  BY <1>4 DEF Range
<1>7. Rising(Tail(s))
  <2> SUFFICES ASSUME NEW i \in DOMAIN Tail(s), NEW j \in DOMAIN Tail(s), i < j
               PROVE  Tail(s)[i].id < Tail(s)[j].id
    BY DEF Rising
  <2>1. i + 1 \in DOMAIN s /\ j + 1 \in DOMAIN s /\ i + 1 < j + 1
    BY <1>2, <1>4
  <2>2. s[i + 1].id < s[j + 1].id
    BY <2>1 DEF Rising
  <2> QED
    BY <1>4, <2>2
<1>8. \A m \in Range(Tail(s)) : Head(s).id < m.id
  <2> SUFFICES ASSUME NEW i \in DOMAIN Tail(s) PROVE Head(s).id < Tail(s)[i].id
    BY DEF Range
  <2>1. 1 \in DOMAIN s /\ i + 1 \in DOMAIN s /\ 1 < i + 1
    BY <1>2, <1>4
  <2>2. s[1].id < s[i + 1].id
    BY <2>1 DEF Rising
  <2> QED
    BY <1>3, <1>4, <2>2
<1>9. \A m \in Range(s) : m = Head(s) \/ m \in Range(Tail(s))
  <2> SUFFICES ASSUME NEW i \in DOMAIN s, i # 1 PROVE s[i] \in Range(Tail(s))
    BY <1>3 DEF Range
  <2>1. i - 1 \in DOMAIN Tail(s) /\ s[i] = Tail(s)[i - 1]
    BY <1>1, <1>2
  <2> QED
    BY <2>1 DEF Range
<1> QED
  BY <1>1, <1>5, <1>6, <1>7, <1>8, <1>9

\* Adding a record later than all others leaves a channel rising.
LEMMA AddLast ==
  ASSUME NEW s \in Seq(Records), NEW m \in Records
  PROVE  /\ Append(s, m) \in Seq(Records)
         /\ Range(Append(s, m)) = Range(s) \cup {m}
         /\ Rising(s) /\ (\A e \in Range(s) : e.id < m.id) => Rising(Append(s, m))
<1> DEFINE t == Append(s, m)
<1>1. /\ t \in Seq(Records) /\ DOMAIN t = 1..(Len(s) + 1) /\ DOMAIN s = 1..Len(s)
      /\ Len(s) \in Nat
      /\ \A i \in 1..Len(s) : t[i] = s[i]
      /\ t[Len(s) + 1] = m
  BY AppendProperties, LenProperties
<1> HIDE DEF t
<1>2. \A i \in DOMAIN t : i \in DOMAIN s \/ i = Len(s) + 1
  BY <1>1
<1>3. Range(t) = Range(s) \cup {m}
  BY <1>1, <1>2 DEF Range
<1>4. ASSUME Rising(s), \A e \in Range(s) : e.id < m.id PROVE Rising(t)
  <2> SUFFICES ASSUME NEW i \in DOMAIN t, NEW j \in DOMAIN t, i < j
               PROVE  t[i].id < t[j].id
    BY DEF Rising
  <2>1. i \in DOMAIN s
    BY <1>1
  <2>2. CASE j \in DOMAIN s
    <3>1. s[i].id < s[j].id
      BY <1>4, <2>1, <2>2 DEF Rising
    <3> QED
      BY <1>1, <2>1, <2>2, <3>1
  <2>3. CASE j = Len(s) + 1
    <3>1. s[i].id < m.id
      BY <1>4, <2>1 DEF Range
    <3> QED
      BY <1>1, <2>1, <2>3, <3>1
  <2> QED
    BY <1>2, <2>2, <2>3
<1> QED
  BY <1>1, <1>3, <1>4 DEF t

\* The hub has yet to decide whether it sends msg to client c.
Awaits(c) == phase = "light" \/ (phase = "dark" /\ IsDark(c))

\* What waits for the hub is later than what it holds, and genuine.
HubInOrder ==
  /\ produced \in Seq(Records) /\ msg.id \in 0..Len(produced)
  /\ phase \in {"receive", "light", "dark"}
  /\ phase # "receive" => Stream!Genuine(msg)
  /\ phase = "light" => msg.topic # Detection
  /\ \A c \in dark : IsDark(c)
  /\ Rising(inbox)
  /\ \A m \in Range(inbox) : msg.id < m.id /\ Stream!Genuine(m)

\* What waits for client c is later than what it was shown, no later than what
\* the hub holds, genuine, and meant for c.
ClientInOrder(c) ==
  /\ Rising(chan[c])
  /\ \A m \in Range(got[c]), n \in Range(chan[c]) : m.id < n.id
  /\ \A m \in Range(got[c]) \cup Range(chan[c]) :
       m.id <= msg.id /\ (Awaits(c) => m.id < msg.id)
  /\ \A m \in Range(chan[c]) : Stream!Genuine(m) /\ Stream!Permitted(c, m)

InOrder == HubInOrder /\ \A c \in Client : ClientInOrder(c)

\* A record stays genuine when others are produced.
LEMMA ProducedGrows ==
  ASSUME HubInOrder, NEW r \in Records, produced' = Append(produced, r),
         r.id = Len(produced) + 1
  PROVE  /\ produced' \in Seq(Records) /\ Len(produced') = Len(produced) + 1
         /\ produced'[Len(produced')] = r
         /\ Stream!Genuine(r)'
         /\ \A m : Stream!Genuine(m) => Stream!Genuine(m)'
         /\ \A m : Stream!Genuine(m) => m.id <= Len(produced)
<1>1. /\ produced \in Seq(Records) /\ Len(produced) \in Nat
      /\ produced' \in Seq(Records) /\ Len(produced') = Len(produced) + 1
      /\ \A i \in 1..Len(produced) : produced'[i] = produced[i]
      /\ produced'[Len(produced) + 1] = r
      /\ DOMAIN produced = 1..Len(produced) /\ DOMAIN produced' = 1..(Len(produced) + 1)
  BY AppendProperties, LenProperties DEF HubInOrder
<1>2. ASSUME NEW m, Stream!Genuine(m) PROVE Stream!Genuine(m)' /\ m.id <= Len(produced)
  <2>1. m.id \in 1..Len(produced)
    BY <1>1, <1>2 DEF Stream!Genuine
  <2>2. m.id \in DOMAIN produced' /\ produced'[m.id] = produced[m.id]
    BY <1>1, <2>1
  <2>3. Stream!Genuine(m)'
    BY <1>2, <2>2 DEF Stream!Genuine
  <2>4. m.id <= Len(produced)
    BY <2>1
  <2> QED
    BY <2>3, <2>4
<1>3. Stream!Genuine(r)'
  BY <1>1 DEF Stream!Genuine
<1> QED
  BY <1>1, <1>2, <1>3

\* Where the clients' channels and streams, the hub's position and its record
\* stay, and nothing is produced, what a client gets is as much in order as before.
LEMMA ClientsKeepOrder ==
  ASSUME NEW c \in Client, ClientInOrder(c),
         UNCHANGED <<produced, msg, phase>>,
         chan'[c] = chan[c], got'[c] = got[c]
  PROVE  ClientInOrder(c)'
BY DEF ClientInOrder, Awaits, Stream!Genuine, Stream!Permitted, IsDark

\* A record just produced is later than all others: a step of Feed.
LEMMA ProduceInOrder ==
  ASSUME Hidden, InOrder, NEW r \in Emitted, Produce(r)
  PROVE  InOrder' /\ Stream!Produce
<1>1. PICK m : /\ m = Numbered(r, Len(produced) + 1)
               /\ m \in Records /\ m.id = Len(produced) + 1
  <2>1. Len(produced) + 1 \in Nat
    BY LenProperties DEF InOrder, HubInOrder
  <2>2. Numbered(r, Len(produced) + 1) \in Records
    BY <2>1, EmittedRoutable DEF Routable
  <2>3. Numbered(r, Len(produced) + 1).id = Len(produced) + 1
    BY DEF Numbered
  <2> QED
    BY <2>2, <2>3
<1>2. /\ produced' = Append(produced, m)
      /\ inbox' = inbox \/ inbox' = Append(inbox, m)
      /\ UNCHANGED <<phase, msg, dark, chan, got>>
  BY <1>1 DEF Produce, Enqueue, hubVars, clientVars
<1>3. /\ produced' \in Seq(Records) /\ Len(produced') = Len(produced) + 1
      /\ produced'[Len(produced')] = m
      /\ Stream!Genuine(m)'
      /\ \A e : Stream!Genuine(e) => Stream!Genuine(e)'
      /\ \A e : Stream!Genuine(e) => e.id <= Len(produced)
  BY <1>1, <1>2, ProducedGrows DEF InOrder
<1>4. inbox \in Seq(Records)
  BY HubRecords
<1>5. Len(produced) \in Nat /\ msg.id \in 0..Len(produced)
  BY LenProperties DEF InOrder, HubInOrder
<1>6. \A e \in Range(inbox) : e.id < m.id /\ msg.id < e.id /\ Stream!Genuine(e)
  <2> SUFFICES ASSUME NEW e \in Range(inbox)
               PROVE  e.id < m.id /\ msg.id < e.id /\ Stream!Genuine(e)
    OBVIOUS
  <2>1. msg.id < e.id /\ Stream!Genuine(e) /\ e \in Records
    BY <1>4, MembersOf DEF InOrder, HubInOrder
  <2>2. e.id <= Len(produced) /\ e.id \in Nat
    BY <1>3, <2>1 DEF Records
  <2>3. e.id < m.id
    BY <1>1, <1>5, <2>2
  <2> QED
    BY <2>1, <2>3
<1>7. Rising(inbox') /\ \A e \in Range(inbox') : msg.id < e.id /\ Stream!Genuine(e)'
  <2>1. CASE inbox' = inbox
    <3>1. Rising(inbox')
      BY <2>1 DEF InOrder, HubInOrder
    <3> QED
      BY <1>3, <1>6, <2>1, <3>1
  <2>2. CASE inbox' = Append(inbox, m)
    <3>1. Rising(inbox')
      BY <1>1, <1>4, <1>6, <2>2, AddLast DEF InOrder, HubInOrder
    <3>2. Range(inbox') = Range(inbox) \cup {m}
      BY <1>1, <1>4, <2>2, AddLast
    <3>3. msg.id < m.id
      BY <1>1, <1>5
    <3> QED
      BY <1>3, <1>6, <3>1, <3>2, <3>3
  <2> QED
    BY <1>2, <2>1, <2>2
<1>8. HubInOrder'
  <2>1. msg'.id \in 0..Len(produced')
    BY <1>2, <1>3, <1>5
  <2>2. (phase # "receive" => Stream!Genuine(msg))'
    BY <1>2, <1>3 DEF InOrder, HubInOrder
  <2>3. (\A e \in Range(inbox) : msg.id < e.id /\ Stream!Genuine(e))'
    BY <1>2, <1>7
  <2>4. (\A c \in dark : IsDark(c))'
    BY <1>2 DEF InOrder, HubInOrder, IsDark
  <2> QED
    BY <1>2, <1>3, <1>7, <2>1, <2>2, <2>3, <2>4 DEF InOrder, HubInOrder, Rising
<1>9. ASSUME NEW c \in Client PROVE ClientInOrder(c)'
  <2>1. \A e \in Range(chan[c]) : Stream!Genuine(e)' /\ Stream!Permitted(c, e)'
    BY <1>3 DEF InOrder, ClientInOrder, Stream!Permitted, IsDark
  <2> QED
    BY <1>2, <2>1 DEF InOrder, ClientInOrder, Awaits, Rising, IsDark
<1>10. Stream!Produce
  BY <1>1, <1>2, <1>3 DEF Stream!Produce
<1> QED
  BY <1>8, <1>9, <1>10 DEF InOrder

\* The record the hub takes is later than all it has fanned out.
LEMMA ReceiveInOrder ==
  ASSUME Hidden, InOrder, HubReceive
  PROVE  InOrder'
<1>1. /\ inbox \in Seq(Records) /\ inbox # <<>> /\ Rising(inbox)
      /\ msg' = Head(inbox) /\ inbox' = Tail(inbox)
      /\ phase' = IF msg'.topic = Detection THEN "dark" ELSE "light"
      /\ UNCHANGED <<produced, dark, chan, got>>
  BY HubRecords DEF HubReceive, clientVars, InOrder, HubInOrder
<1>2. /\ msg' \in Records /\ msg' \in Range(inbox) /\ Range(inbox') \subseteq Range(inbox)
      /\ Rising(inbox') /\ \A e \in Range(inbox') : msg'.id < e.id
  BY <1>1, TakeFirst
<1>3. msg.id < msg'.id /\ Stream!Genuine(msg')
  BY <1>2 DEF InOrder, HubInOrder
<1>4. HubInOrder'
  <2>1. msg'.id \in 0..Len(produced)
    <3>1. msg'.id \in DOMAIN produced /\ msg'.id \in Nat /\ DOMAIN produced = 1..Len(produced)
      BY <1>2, <1>3, LenProperties DEF Stream!Genuine, Records, InOrder, HubInOrder
    <3> QED
      BY <3>1
  <2>2. Stream!Genuine(msg)' /\ \A e \in Range(inbox') : Stream!Genuine(e)'
    BY <1>1, <1>2, <1>3 DEF InOrder, HubInOrder, Stream!Genuine
  <2> QED
    BY <1>1, <1>2, <2>1, <2>2 DEF InOrder, HubInOrder, Rising, IsDark
<1>5. ASSUME NEW c \in Client PROVE ClientInOrder(c)'
  <2>1. \A e \in Range(got[c]) \cup Range(chan[c]) : e.id < msg'.id
    <3> SUFFICES ASSUME NEW e \in Range(got[c]) \cup Range(chan[c]) PROVE e.id < msg'.id
      OBVIOUS
    <3>1. e \in Records /\ e.id <= msg.id
      BY MembersOf DEF Hidden, InOrder, ClientInOrder
    <3>2. e.id \in Nat /\ msg.id \in Int /\ msg'.id \in Nat
      BY <1>2, <3>1, IdIsNat, LenProperties DEF InOrder, HubInOrder
    <3> QED
      BY <1>3, <3>1, <3>2
  <2>2. \A e \in Range(got[c]) \cup Range(chan[c]) : e.id \in Nat
    BY MembersOf, IdIsNat DEF Hidden
  <2>3. (\A e \in Range(got[c]) \cup Range(chan[c]) :
           e.id <= msg.id /\ (Awaits(c) => e.id < msg.id))'
    <3>1. msg'.id \in Nat
      BY <1>2, IdIsNat
    <3>2. \A e \in Range(got[c]) \cup Range(chan[c]) : e.id <= msg'.id /\ e.id < msg'.id
      BY <2>1, <2>2, <3>1
    <3> QED
      BY <1>1, <3>2
  <2>4. \A e \in Range(chan[c]) : Stream!Genuine(e)' /\ Stream!Permitted(c, e)'
    BY <1>1 DEF InOrder, ClientInOrder, Stream!Genuine, Stream!Permitted, IsDark
  <2> QED
    BY <1>1, <2>3, <2>4 DEF InOrder, ClientInOrder, Rising
<1> QED
  BY <1>4, <1>5 DEF InOrder

\* A fan-out of a record m that stands for msg, to channels S that still await
\* it, keeps the streams of all clients in order.
LEMMA FanOutInOrder ==
  ASSUME Hidden, InOrder, NEW S \in SUBSET Client, NEW m \in Records, FanOut(S, m),
         m.id = msg.id, Stream!Genuine(m),
         \A c \in S : Awaits(c) /\ Stream!Permitted(c, m),
         UNCHANGED <<produced, got, msg>>,
         \A c \in Client : Awaits(c)' => Awaits(c) /\ c \notin S
  PROVE  \A c \in Client : ClientInOrder(c)'
<1> SUFFICES ASSUME NEW c \in Client PROVE ClientInOrder(c)'
  OBVIOUS
<1>1. chan[c] \in Seq(Records) /\ ClientInOrder(c)
  BY DEF Hidden, InOrder
<1>2. CASE chan'[c] = chan[c]
  <2>1. \A e \in Range(chan[c]) : Stream!Genuine(e)' /\ Stream!Permitted(c, e)'
    BY <1>1 DEF ClientInOrder, Stream!Genuine, Stream!Permitted, IsDark
  <2>2. Rising(chan[c])'
    BY <1>1, <1>2 DEF ClientInOrder
  <2> QED
    BY <1>1, <1>2, <2>1, <2>2 DEF ClientInOrder
<1>3. CASE c \in S /\ chan'[c] = Append(chan[c], m)
  <2>1. /\ \A e \in Range(got[c]) \cup Range(chan[c]) : e.id < m.id
        /\ Rising(chan[c]) /\ ~(Awaits(c)')
    BY <1>1, <1>3 DEF ClientInOrder
  <2>2. Rising(chan'[c]) /\ Range(chan'[c]) = Range(chan[c]) \cup {m}
    BY <1>1, <1>3, <2>1, AddLast
  <2>3. \A e \in Range(chan'[c]) : Stream!Genuine(e)' /\ Stream!Permitted(c, e)'
    BY <1>1, <1>3, <2>2 DEF ClientInOrder, Stream!Genuine, Stream!Permitted, IsDark
  <2>4. \A e \in Range(got[c]), n \in Range(chan'[c]) : e.id < n.id
    BY <1>1, <2>1, <2>2 DEF ClientInOrder
  <2>5. \A e \in Range(got[c]) \cup Range(chan'[c]) : e.id <= msg.id
    <3>1. m.id <= msg.id
      BY IdIsNat
    <3> QED
      BY <1>1, <2>2, <3>1 DEF ClientInOrder
  <2> QED
    BY <2>1, <2>2, <2>3, <2>4, <2>5 DEF ClientInOrder
<1>4. chan'[c] = chan[c] \/ (c \in S /\ chan'[c] = Append(chan[c], m))
  BY DEF FanOut
<1> QED
  BY <1>2, <1>3, <1>4

\* toLight sends the Light Side nothing but records it may see.
LEMMA LightInOrder ==
  ASSUME Registration, Hidden, InOrder, ToLight
  PROVE  InOrder'
<1>1. /\ phase = "light" /\ phase' \in {"receive", "dark"} /\ FanOut(light, msg)
      /\ UNCHANGED <<inbox, produced, got, msg, dark>>
  BY DEF ToLight, AfterLight, busVars
<1>2. Stream!Genuine(msg) /\ msg.topic # Detection /\ msg \in Records
  BY <1>1, HubRecords DEF InOrder, HubInOrder
<1>3. \A c \in light : ~IsDark(c) /\ Awaits(c) /\ Stream!Permitted(c, msg)
  BY <1>1, <1>2 DEF Hidden, Awaits, Stream!Permitted, Detection
<1>4. \A c \in Client : Awaits(c)' => Awaits(c) /\ c \notin light
  BY <1>1, <1>3 DEF Awaits, IsDark
<1>5. \A c \in Client : ClientInOrder(c)'
  BY <1>1, <1>2, <1>3, <1>4, FanOutInOrder DEF Registration
<1>6. HubInOrder'
  <2>1. Stream!Genuine(msg)' /\ \A e \in Range(inbox) : msg.id < e.id /\ Stream!Genuine(e)'
    BY <1>1, <1>2 DEF InOrder, HubInOrder, Stream!Genuine
  <2>2. Rising(inbox)'
    BY <1>1 DEF InOrder, HubInOrder
  <2> QED
    BY <1>1, <2>1, <2>2 DEF InOrder, HubInOrder, IsDark
<1> QED
  BY <1>5, <1>6 DEF InOrder

\* toDark sends the Dark Side the record, blanked if it is a broadcast.
LEMMA DarkInOrder ==
  ASSUME Registration, Hidden, InOrder, ToDark
  PROVE  InOrder'
<1>1. PICK m : m = IF msg.topic = Broadcast THEN Strip(msg) ELSE msg
  OBVIOUS
<1>2. /\ phase = "dark" /\ phase' = "receive" /\ FanOut(dark, m)
      /\ UNCHANGED <<inbox, produced, got, msg, dark>>
  BY <1>1 DEF ToDark, busVars
<1>3. Stream!Genuine(msg) /\ msg \in Records /\ msg \in Routable /\ msg.topic # Position
  BY <1>2, HubRecords DEF Hidden, InOrder, HubInOrder
<1>4. m \in Shown /\ m \in Records
  BY <1>1, <1>3, StripShown DEF Shown
<1>5. /\ m.id = msg.id /\ m.topic = msg.topic /\ m.type = msg.type /\ m.track = msg.track
      /\ m.region \in {"", msg.region}
  BY <1>1, <1>3 DEF Strip, Records
<1>6. Stream!Genuine(m)
  BY <1>3, <1>5 DEF Stream!Genuine
<1>7. \A c \in dark : c \in Client /\ IsDark(c) /\ Awaits(c) /\ Stream!Permitted(c, m)
  BY <1>2, <1>4 DEF InOrder, HubInOrder, Registration, Awaits, Shown, Stream!Permitted, Detection
<1>8. \A c \in Client : ~(Awaits(c)')
  BY <1>2 DEF Awaits
<1>9. \A c \in Client : ClientInOrder(c)'
  BY <1>2, <1>4, <1>5, <1>6, <1>7, <1>8, FanOutInOrder
<1>10. HubInOrder'
  <2>1. \A e \in Range(inbox) : msg.id < e.id /\ Stream!Genuine(e)'
    BY <1>2 DEF InOrder, HubInOrder, Stream!Genuine
  <2>2. Rising(inbox)'
    BY <1>2 DEF InOrder, HubInOrder
  <2> QED
    BY <1>2, <2>1, <2>2 DEF InOrder, HubInOrder, IsDark
<1> QED
  BY <1>9, <1>10 DEF InOrder

\* A handler shows its client the next record: a step of Feed.
LEMMA ReadInOrder ==
  ASSUME Hidden, InOrder, NEW c \in Client, Read(c)
  PROVE  InOrder' /\ Stream!Show(c)
<1>1. /\ chan[c] \in Seq(Records) /\ chan[c] # <<>> /\ got[c] \in Seq(Records)
      /\ chan \in [Client -> Seq(Records)] /\ got \in [Client -> Seq(Records)]
      /\ ClientInOrder(c) /\ Rising(chan[c])
  BY DEF Read, Hidden, InOrder, ClientInOrder
<1>2. PICK m : m = Head(chan[c])
  OBVIOUS
<1>3. /\ m \in Records /\ Tail(chan[c]) \in Seq(Records) /\ m \in Range(chan[c])
      /\ Range(Tail(chan[c])) \subseteq Range(chan[c]) /\ Rising(Tail(chan[c]))
      /\ \A e \in Range(Tail(chan[c])) : m.id < e.id
  BY <1>1, <1>2, TakeFirst
<1>4. /\ got' = [got EXCEPT ![c] = Append(got[c], m)]
      /\ chan' = [chan EXCEPT ![c] = Tail(chan[c])]
      /\ UNCHANGED <<inbox, produced, msg, phase, dark>>
  BY <1>2 DEF Read, busVars, hubVars
<1>5. /\ Append(got[c], m) \in Seq(Records)
      /\ Range(Append(got[c], m)) = Range(got[c]) \cup {m}
  BY <1>1, <1>3, AddLast
<1>6. /\ got'[c] = Append(got[c], m) /\ chan'[c] = Tail(chan[c])
      /\ \A d \in Client \ {c} : got'[d] = got[d] /\ chan'[d] = chan[d]
  BY <1>1, <1>4
<1>7. ClientInOrder(c)'
  <2>1. \A e \in Range(got'[c]), n \in Range(chan'[c]) : e.id < n.id
    BY <1>1, <1>3, <1>5, <1>6 DEF ClientInOrder
  <2>2. \A e \in Range(got'[c]) \cup Range(chan'[c]) :
          e.id <= msg.id /\ (Awaits(c) => e.id < msg.id)
    BY <1>1, <1>3, <1>5, <1>6 DEF ClientInOrder
  <2>3. \A e \in Range(chan'[c]) : Stream!Genuine(e)' /\ Stream!Permitted(c, e)'
    BY <1>1, <1>3, <1>4, <1>6 DEF ClientInOrder, Stream!Genuine, Stream!Permitted, IsDark
  <2>4. Awaits(c)' <=> Awaits(c)
    BY <1>4 DEF Awaits, IsDark
  <2>5. Rising(chan'[c])
    BY <1>3, <1>6
  <2> QED
    BY <1>4, <2>1, <2>2, <2>3, <2>4, <2>5 DEF ClientInOrder
<1>8. \A d \in Client \ {c} : ClientInOrder(d)'
  BY <1>4, <1>6, ClientsKeepOrder DEF InOrder
<1>9. HubInOrder'
  BY <1>4 DEF InOrder, HubInOrder, Stream!Genuine, Rising, IsDark
<1>10. Stream!Show(c)
  <2>1. /\ Len(got[c]) \in Nat /\ Len(got'[c]) = Len(got[c]) + 1
        /\ got'[c][Len(got'[c])] = m
    BY <1>1, <1>3, <1>6, AppendProperties, LenProperties
  <2>2. Stream!Genuine(m) /\ Stream!Permitted(c, m)
    BY <1>1, <1>3 DEF ClientInOrder
  <2>3. \A k \in DOMAIN got[c] : got[c][k].id < m.id
    BY <1>1, <1>3 DEF ClientInOrder, Range
  <2> QED
    BY <1>4, <2>1, <2>2, <2>3 DEF Stream!Show
<1> QED
  BY <1>7, <1>8, <1>9, <1>10 DEF InOrder

\* The remaining steps of Delivery show nothing and produce nothing.
LEMMA QuietInOrder ==
  ASSUME Registration, InOrder,
         UNCHANGED <<inbox, produced, msg, phase, chan, got>>,
         \A c \in dark' : IsDark(c)
  PROVE  InOrder'
<1>1. \A c \in Client : ClientInOrder(c)'
  BY ClientsKeepOrder DEF InOrder
<1>2. HubInOrder'
  BY DEF InOrder, HubInOrder, Stream!Genuine, Rising, IsDark
<1> QED
  BY <1>1, <1>2 DEF InOrder

\* Every step keeps the order, and is a step of Feed or invisible to it.
LEMMA StepInOrder ==
  Registration /\ Hidden /\ InOrder /\ [Next]_vars =>
    InOrder' /\ [Stream!Next]_(Stream!vars)
<1> SUFFICES ASSUME Registration, Hidden, InOrder, [Next]_vars
             PROVE  InOrder' /\ [Stream!Next]_(Stream!vars)
  OBVIOUS
<1>1. ASSUME NEW r \in Emitted, Produce(r) PROVE InOrder' /\ Stream!Next
  BY <1>1, ProduceInOrder DEF Stream!Next
<1>2. ASSUME NEW c \in Client, Read(c) PROVE InOrder' /\ Stream!Next
  BY <1>2, ReadInOrder DEF Stream!Next
<1>3. CASE Hub
  BY <1>3, ReceiveInOrder, LightInOrder, DarkInOrder
     DEF Hub, HubReceive, ToLight, ToDark, busVars, clientVars, Stream!vars
<1>4. \A c \in dark : IsDark(c)
  BY DEF InOrder, HubInOrder
<1>5. ASSUME NEW c \in Client, Subscribe(c) PROVE InOrder' /\ UNCHANGED Stream!vars
  <2>1. \A d \in dark' : IsDark(d)
    BY <1>4, <1>5 DEF Subscribe, IsDark
  <2> QED
    BY <1>5, <2>1, QuietInOrder DEF Subscribe, busVars, Stream!vars
<1>6. ASSUME NEW c \in Client, Unregister(c) \/ CloseChannel(c)
      PROVE  InOrder' /\ UNCHANGED Stream!vars
  BY <1>4, <1>6, QuietInOrder
     DEF Unregister, CloseChannel, busVars, hubVars, Stream!vars
<1>7. CASE Close \/ UNCHANGED vars
  BY <1>4, <1>7, QuietInOrder DEF Close, vars, busVars, hubVars, clientVars, Stream!vars
<1> QED
  BY <1>1, <1>2, <1>3, <1>5, <1>6, <1>7 DEF Next, Handle

\* Nothing is produced, waits or has been shown at the start.
LEMMA InitInOrder == Init => InOrder /\ Stream!Init
<1> SUFFICES ASSUME Init PROVE InOrder /\ Stream!Init
  OBVIOUS
<1>1. Range(<<>>) = {} /\ Rising(<<>>) /\ <<>> \in Seq(Records) /\ Len(<<>>) = 0
  BY EmptySeq DEF Range, Rising
<1>2. HubInOrder
  <2>1. /\ produced = <<>> /\ inbox = <<>> /\ dark = {} /\ phase = "receive"
        /\ msg.id = 0
    BY DEF Init, NoRecord
  <2>2. 0 \in 0..Len(produced)
    BY <1>1, <2>1
  <2> QED
    BY <1>1, <2>1, <2>2 DEF HubInOrder
<1>3. \A c \in Client : ClientInOrder(c)
  BY <1>1 DEF Init, ClientInOrder
<1> QED
  BY <1>2, <1>3 DEF Init, InOrder, Stream!Init

\* Bus, hub and handlers implement Feed: whatever is dropped and however clients
\* come and go, each is shown genuine records of its own side, in the order of
\* their production, each once (Produce, Hub.Run, toLight, toDark, events).
THEOREM DeliveryImplementsFeed == Spec => FeedSpec
<1>1. Init => Registration /\ Hidden
  BY InitHidden
<1>2. Init => InOrder /\ Stream!Init
  BY InitInOrder
<1>3. Registration /\ Hidden /\ InOrder /\ [Next]_vars =>
        Registration' /\ Hidden' /\ InOrder' /\ [Stream!Next]_(Stream!vars)
  BY StepRegistration, StepHidden, StepInOrder
<1> QED
  BY <1>1, <1>2, <1>3, PTL DEF Spec, FeedSpec, Stream!Spec

-----------------------------------------------------------------------------
(* Losses *)

\* Record k has been sent to c, is on its way to c, or was dropped.
Kept(c, k) == Sent(c, k) \/ AtHub(c, k) \/ Queued(k) \/ Dropped(c, k)

\* The records that client c is owed.
Owed(c) == {k \in since[c] + 1 .. Len(produced) : For(c, produced[k])}

\* Every reader has, or may still get, what it is owed, but for the drops.
AllKept ==
  /\ since \in [Client -> Nat]
  /\ \A c \in Client : handler[c] = "reading" => \A k \in Owed(c) : Kept(c, k)

\* A handler that reads has its channel registered with its side, and open.
LEMMA ReadersAreRegistered ==
  ASSUME Registration, Hidden, InOrder, NEW c \in Client, handler[c] = "reading"
  PROVE  c \in (IF IsDark(c) THEN dark ELSE light) \ shut
BY DEF Registration, Hidden, InOrder, HubInOrder

\* What a fan-out owes a client is then in its channel, or dropped.
LEMMA FanOutKeeps ==
  ASSUME Hidden, NEW S \in SUBSET Client, NEW m \in Records, FanOut(S, m), got' = got,
         NEW c \in Client
  PROVE  /\ Range(chan[c]) \subseteq Range(chan'[c]) /\ lost \subseteq lost'
         /\ c \in S \ shut => Sent(c, m.id)' \/ Dropped(c, m.id)'
<1>1. /\ chan[c] \in Seq(Records) /\ lost \subseteq lost'
      /\ chan'[c] = IF c \in S \ shut /\ Len(chan[c]) < ClientCap
                      THEN Append(chan[c], m) ELSE chan[c]
      /\ c \in S /\ Len(chan[c]) >= ClientCap => <<m.id, c>> \in lost'
  BY DEF FanOut, Hidden
<1>2. Range(Append(chan[c], m)) = Range(chan[c]) \cup {m}
  BY <1>1, AddLast
<1>3. Len(chan[c]) < ClientCap \/ Len(chan[c]) >= ClientCap
  BY <1>1, LenProperties, CapacityAssumption
<1>4. ASSUME c \in S \ shut PROVE Sent(c, m.id)' \/ Dropped(c, m.id)'
  <2>1. CASE Len(chan[c]) < ClientCap
    <3>1. m \in Range(chan'[c])
      BY <1>1, <1>2, <1>4, <2>1
    <3> QED
      BY <3>1 DEF Sent
  <2>2. CASE Len(chan[c]) >= ClientCap
    BY <1>1, <1>4, <2>2 DEF Dropped
  <2> QED
    BY <1>3, <2>1, <2>2
<1> QED
  BY <1>1, <1>2, <1>4

\* A new record waits for the hub, or the bus has dropped it.
LEMMA ProduceKeeps ==
  ASSUME Registration, Hidden, InOrder, AllKept, NEW r \in Emitted, Produce(r)
  PROVE  AllKept'
<1>1. PICK m : /\ m = Numbered(r, Len(produced) + 1)
               /\ m \in Records /\ m.id = Len(produced) + 1
  <2>1. Len(produced) + 1 \in Nat
    BY LenProperties DEF InOrder, HubInOrder
  <2>2. Numbered(r, Len(produced) + 1) \in Records
    BY <2>1, EmittedRoutable DEF Routable
  <2>3. Numbered(r, Len(produced) + 1).id = Len(produced) + 1
    BY DEF Numbered
  <2> QED
    BY <2>2, <2>3
<1>2. /\ produced' = Append(produced, m) /\ lost \subseteq lost'
      /\ UNCHANGED <<phase, msg, chan, got, handler, since>>
      /\ m.topic \in HubTopics =>
           \/ inbox' = Append(inbox, m)
           \/ inbox' = inbox /\ <<m.id, "bus">> \in lost'
      /\ inbox' = inbox \/ inbox' = Append(inbox, m)
  <2>1. Len(inbox) < BusCap \/ Len(inbox) >= BusCap
    BY HubRecords, LenProperties, CapacityAssumption
  <2> QED
    BY <1>1, <2>1 DEF Produce, Enqueue, hubVars, clientVars
<1>3. /\ Len(produced) \in Nat /\ Len(produced') = Len(produced) + 1
      /\ \A k \in 1..Len(produced) : produced'[k] = produced[k]
      /\ produced'[Len(produced) + 1] = m
  BY <1>1, <1>2, AppendProperties, LenProperties DEF InOrder, HubInOrder
<1>4. Range(Append(inbox, m)) = Range(inbox) \cup {m}
  BY <1>1, HubRecords, AddLast
<1> SUFFICES ASSUME NEW c \in Client, handler[c] = "reading", NEW k \in Owed(c)'
             PROVE  Kept(c, k)'
  BY <1>2 DEF AllKept
<1>5. k \in since[c] + 1 .. Len(produced) + 1 /\ For(c, produced'[k])
  BY <1>2, <1>3 DEF Owed, For, IsDark
<1>6. CASE k = Len(produced) + 1
  <2>1. m.topic \in HubTopics /\ k = m.id
    BY <1>1, <1>3, <1>5, <1>6 DEF For
  <2>2. Queued(k)' \/ Dropped(c, k)'
    BY <1>2, <1>4, <2>1 DEF Queued, Dropped
  <2> QED
    BY <2>2 DEF Kept
<1>7. CASE k # Len(produced) + 1
  <2>1. k \in since[c] + 1 .. Len(produced)
    <3>1. since[c] \in Nat
      BY DEF AllKept
    <3> QED
      BY <1>3, <1>5, <1>7, <3>1
  <2>2. k \in Owed(c)
    <3>1. k \in 1..Len(produced)
      BY <1>3, <2>1 DEF AllKept
    <3> QED
      BY <1>3, <1>5, <2>1, <3>1 DEF Owed
  <2>3. Kept(c, k)
    BY <2>2 DEF AllKept
  <2>4. Range(inbox) \subseteq Range(inbox')
    BY <1>2, <1>4
  <2> QED
    BY <1>2, <2>3, <2>4 DEF Kept, Sent, AtHub, Queued, Dropped, IsDark
<1> QED
  BY <1>6, <1>7

\* Where nobody registers and nothing is produced it is enough that what each
\* reader is owed stays where it is or moves on.
LEMMA KeptSuffices ==
  ASSUME AllKept, UNCHANGED <<produced, since>>,
         \A c \in Client : handler'[c] = "reading" => handler[c] = "reading",
         \A c \in Client, k \in Nat :
           handler[c] = "reading" /\ handler'[c] = "reading" /\ k \in Owed(c) /\ Kept(c, k) =>
             Kept(c, k)'
  PROVE  AllKept'
<1>1. \A c \in Client : Owed(c)' = Owed(c) /\ Owed(c) \subseteq Nat
  <2> SUFFICES ASSUME NEW c \in Client PROVE Owed(c)' = Owed(c) /\ Owed(c) \subseteq Nat
    OBVIOUS
  <2>1. Owed(c)' = Owed(c)
    BY DEF Owed, For, IsDark
  <2>2. since[c] \in Nat
    BY DEF AllKept
  <2> QED
    BY <2>1, <2>2 DEF Owed
<1> QED
  BY <1>1 DEF AllKept

\* The record that leaves the queue is at the hub, for the right sides.
LEMMA ReceiveKeeps ==
  ASSUME Hidden, InOrder, AllKept, HubReceive
  PROVE  AllKept'
<1>1. /\ inbox \in Seq(Records) /\ inbox # <<>> /\ Rising(inbox)
      /\ msg' = Head(inbox) /\ inbox' = Tail(inbox) /\ phase = "receive"
      /\ phase' = IF msg'.topic = Detection THEN "dark" ELSE "light"
      /\ UNCHANGED <<produced, chan, got, handler, since, lost>>
  BY HubRecords DEF HubReceive, clientVars, InOrder, HubInOrder
<1>2. /\ msg' \in Range(inbox)
      /\ \A m \in Range(inbox) : m = msg' \/ m \in Range(inbox')
  BY <1>1, TakeFirst
<1>3. msg'.topic = produced[msg'.id].topic
  BY <1>2 DEF InOrder, HubInOrder, Stream!Genuine
<1> SUFFICES ASSUME NEW c \in Client, NEW k \in Nat, k \in Owed(c), Kept(c, k)
             PROVE  Kept(c, k)'
  BY <1>1, KeptSuffices
<1>4. CASE Sent(c, k) \/ Dropped(c, k)
  BY <1>1, <1>4 DEF Kept, Sent, Dropped
<1>5. CASE Queued(k)
  <2>1. PICK m \in Range(inbox) : m.id = k
    BY <1>5 DEF Queued
  <2>2. CASE m \in Range(inbox')
    BY <2>1, <2>2 DEF Kept, Queued
  <2>3. CASE m = msg'
    <3>1. msg'.topic = Detection => IsDark(c)
      BY <1>3, <2>1, <2>3 DEF Owed, For
    <3> QED
      BY <1>1, <2>1, <2>3, <3>1 DEF Kept, AtHub, IsDark
  <2> QED
    BY <1>2, <2>2, <2>3
<1>6. ~AtHub(c, k)
  BY <1>1 DEF AtHub
<1> QED
  BY <1>4, <1>5, <1>6 DEF Kept

\* After toLight the Light Side has the record, and the hub keeps it for the Dark.
LEMMA LightKeeps ==
  ASSUME Registration, Hidden, InOrder, AllKept, ToLight
  PROVE  AllKept'
<1>1. /\ phase = "light" /\ phase' = AfterLight(msg) /\ FanOut(light, msg)
      /\ UNCHANGED <<inbox, produced, msg, got, handler, since>>
  BY DEF ToLight, busVars
<1>2. msg \in Records /\ light \in SUBSET Client /\ msg.topic = produced[msg.id].topic
  BY <1>1, HubRecords DEF Registration, InOrder, HubInOrder, Stream!Genuine
<1> SUFFICES ASSUME NEW c \in Client, handler[c] = "reading",
                    NEW k \in Nat, k \in Owed(c), Kept(c, k)
             PROVE  Kept(c, k)'
  BY <1>1, KeptSuffices
<1>3. PICK m : m = msg
  OBVIOUS
<1>4. /\ Range(chan[c]) \subseteq Range(chan'[c]) /\ lost \subseteq lost'
      /\ c \in light \ shut => Sent(c, m.id)' \/ Dropped(c, m.id)'
  BY <1>1, <1>2, <1>3, FanOutKeeps
<1>5. CASE Sent(c, k) \/ Dropped(c, k) \/ Queued(k)
  BY <1>1, <1>4, <1>5 DEF Kept, Sent, Dropped, Queued
<1>6. CASE AtHub(c, k) /\ IsDark(c)
  <2>1. msg.id = k /\ msg.topic # Position
    BY <1>2, <1>6 DEF AtHub, Owed, For
  <2>2. phase' = "dark" /\ msg'.id = k
    BY <1>1, <2>1 DEF AfterLight
  <2> QED
    BY <1>6, <2>2 DEF Kept, AtHub, IsDark
<1>7. CASE AtHub(c, k) /\ ~IsDark(c)
  <2>1. c \in light \ shut /\ m.id = k
    BY <1>3, <1>7, ReadersAreRegistered DEF AtHub
  <2> QED
    BY <1>4, <2>1 DEF Kept
<1> QED
  BY <1>5, <1>6, <1>7 DEF Kept

\* After toDark the Dark Side has it.
LEMMA DarkKeeps ==
  ASSUME Registration, Hidden, InOrder, AllKept, ToDark
  PROVE  AllKept'
<1>1. PICK m : m = IF msg.topic = Broadcast THEN Strip(msg) ELSE msg
  OBVIOUS
<1>2. /\ phase = "dark" /\ FanOut(dark, m)
      /\ UNCHANGED <<inbox, produced, got, handler, since>>
  BY <1>1 DEF ToDark, busVars
<1>3. /\ msg \in Routable /\ msg \in Records /\ msg.topic # Position
      /\ dark \in SUBSET Client
  BY <1>2, HubRecords DEF Hidden, Registration
<1>4. m \in Records /\ m.id = msg.id
  BY <1>1, <1>3, StripShown DEF Shown, Strip, Records
<1> SUFFICES ASSUME NEW c \in Client, handler[c] = "reading",
                    NEW k \in Nat, k \in Owed(c), Kept(c, k)
             PROVE  Kept(c, k)'
  BY <1>2, KeptSuffices
<1>5. /\ Range(chan[c]) \subseteq Range(chan'[c]) /\ lost \subseteq lost'
      /\ c \in dark \ shut => Sent(c, m.id)' \/ Dropped(c, m.id)'
  BY <1>2, <1>3, <1>4, FanOutKeeps
<1>6. CASE Sent(c, k) \/ Dropped(c, k) \/ Queued(k)
  BY <1>2, <1>5, <1>6 DEF Kept, Sent, Dropped, Queued
<1>7. CASE AtHub(c, k)
  <2>1. IsDark(c) /\ m.id = k
    BY <1>2, <1>4, <1>7 DEF AtHub
  <2>2. c \in dark \ shut
    BY <2>1, ReadersAreRegistered
  <2> QED
    BY <1>5, <2>1, <2>2 DEF Kept
<1> QED
  BY <1>6, <1>7 DEF Kept

\* Reading moves a record from the channel to what was sent.
LEMMA ReadKeeps ==
  ASSUME Hidden, InOrder, AllKept, NEW d \in Client, Read(d)
  PROVE  AllKept'
<1>1. /\ chan[d] \in Seq(Records) /\ chan[d] # <<>> /\ got[d] \in Seq(Records)
      /\ chan \in [Client -> Seq(Records)] /\ got \in [Client -> Seq(Records)]
      /\ Rising(chan[d])
  BY DEF Read, Hidden, InOrder, ClientInOrder
<1>2. /\ got' = [got EXCEPT ![d] = Append(got[d], Head(chan[d]))]
      /\ chan' = [chan EXCEPT ![d] = Tail(chan[d])]
      /\ UNCHANGED <<inbox, produced, msg, phase, handler, since, lost>>
  BY DEF Read, busVars, hubVars
<1>3. /\ Head(chan[d]) \in Records
      /\ \A m \in Range(chan[d]) : m = Head(chan[d]) \/ m \in Range(Tail(chan[d]))
      /\ Range(Append(got[d], Head(chan[d]))) = Range(got[d]) \cup {Head(chan[d])}
  BY <1>1, TakeFirst, AddLast
<1>4. \A c \in Client :
        Range(chan[c]) \cup Range(got[c]) \subseteq Range(chan'[c]) \cup Range(got'[c])
  BY <1>1, <1>2, <1>3
<1> SUFFICES ASSUME NEW c \in Client, NEW k \in Nat, Kept(c, k) PROVE Kept(c, k)'
  BY <1>2, KeptSuffices
<1>5. Sent(c, k) => Sent(c, k)'
  BY <1>4 DEF Sent
<1> QED
  BY <1>2, <1>5 DEF Kept, AtHub, Queued, Dropped, IsDark

\* No step loses a record but a drop.
LEMMA StepKeeps ==
  Registration /\ Hidden /\ InOrder /\ AllKept /\ [Next]_vars => AllKept'
<1> SUFFICES ASSUME Registration, Hidden, InOrder, AllKept, [Next]_vars PROVE AllKept'
  OBVIOUS
<1>1. ASSUME UNCHANGED <<inbox, produced, msg, phase, chan, got, since, lost>>,
             \A c \in Client : handler'[c] = "reading" => handler[c] = "reading"
      PROVE  AllKept'
  BY <1>1, KeptSuffices DEF Kept, Sent, AtHub, Queued, Dropped, IsDark
<1>2. ASSUME NEW c \in Client, Subscribe(c) PROVE AllKept'
  <2>1. /\ since' = [since EXCEPT ![c] = Len(produced)] /\ Len(produced) \in Nat
        /\ since \in [Client -> Nat]
        /\ handler' = [handler EXCEPT ![c] = "reading"]
        /\ handler \in [Client -> {"none", "reading", "closing", "gone"}]
        /\ UNCHANGED <<inbox, produced, msg, phase, chan, got, lost>>
    BY <1>2, LenProperties
       DEF Subscribe, busVars, InOrder, HubInOrder, AllKept, Registration
  <2>2. Owed(c)' = {}
    BY <2>1 DEF Owed
  <2>3. ASSUME NEW d \in Client \ {c}, handler'[d] = "reading", NEW k \in Owed(d)'
        PROVE  Kept(d, k)'
    <3>1. handler[d] = "reading" /\ since'[d] = since[d]
      BY <2>1, <2>3
    <3>2. k \in Owed(d)
      BY <2>1, <2>3, <3>1 DEF Owed, For, IsDark
    <3>3. Kept(d, k)
      BY <3>1, <3>2 DEF AllKept
    <3> QED
      BY <2>1, <3>3 DEF Kept, Sent, AtHub, Queued, Dropped, IsDark
  <2>4. since' \in [Client -> Nat]
    BY <2>1
  <2> QED
    BY <2>2, <2>3, <2>4 DEF AllKept
<1>3. ASSUME NEW c \in Client, Unregister(c) \/ CloseChannel(c) PROVE AllKept'
  <2>1. \A d \in Client : handler'[d] = "reading" => handler[d] = "reading"
    BY <1>3 DEF Unregister, CloseChannel, Registration
  <2> QED
    BY <1>1, <1>3, <2>1 DEF Unregister, CloseChannel, busVars, hubVars
<1>4. CASE Close \/ UNCHANGED vars
  BY <1>1, <1>4 DEF Close, vars, busVars, hubVars, clientVars
<1> QED
  BY <1>2, <1>3, <1>4, ProduceKeeps, ReceiveKeeps, LightKeeps, DarkKeeps, ReadKeeps
     DEF Next, Hub, Handle

\* A record is lost to a reader only where the bus's or the client's channel was
\* full, or the bus closed (Produce, toLight, toDark), for any number of clients
\* and any capacities: also when clients come and go between the two fan-outs.
THEOREM NoRecordVanishes == Spec => []NothingVanishes
<1>1. Init => Registration /\ Hidden /\ InOrder
  BY InitHidden, InitInOrder
<1>2. Init => AllKept
  BY DEF Init, AllKept
<1>3. Registration /\ Hidden /\ InOrder /\ AllKept /\ [Next]_vars =>
        Registration' /\ Hidden' /\ InOrder' /\ AllKept'
  BY StepRegistration, StepHidden, StepInOrder, StepKeeps
<1>4. AllKept => NothingVanishes
  BY DEF AllKept, NothingVanishes, Owed, Kept
<1> QED
  BY <1>1, <1>2, <1>3, <1>4, PTL DEF Spec

-----------------------------------------------------------------------------
(* Types and capacities *)

\* What the types say beyond Registration and Hidden: no channel exceeds its
\* capacity, and no more is produced than the bound.
Bounded ==
  /\ Len(inbox) <= BusCap /\ \A c \in Client : Len(chan[c]) <= ClientCap
  /\ closed \in BOOLEAN /\ panicked \in BOOLEAN
  /\ phase \in {"receive", "light", "dark"}
  /\ produced \in Seq(Records) /\ Len(produced) <= MaxRecords
  /\ since \in [Client -> 0..MaxRecords]

\* Each non-blocking send looks for room first.
LEMMA FanOutBounded ==
  ASSUME Hidden, Bounded, NEW S, NEW m \in Records, FanOut(S, m)
  PROVE  panicked' \in BOOLEAN /\ \A c \in Client : Len(chan'[c]) <= ClientCap
<1>4. panicked' \in BOOLEAN
  BY DEF FanOut
<1> SUFFICES ASSUME NEW c \in Client PROVE Len(chan'[c]) <= ClientCap
  BY <1>4
<1>1. chan[c] \in Seq(Records) /\ Len(chan[c]) <= ClientCap
  BY DEF Hidden, Bounded
<1>2. \/ chan'[c] = chan[c]
      \/ Len(chan[c]) < ClientCap /\ chan'[c] = Append(chan[c], m)
  BY DEF FanOut
<1>3. Len(Append(chan[c], m)) = Len(chan[c]) + 1 /\ Len(chan[c]) \in Nat
  BY <1>1, AppendProperties, LenProperties
<1> QED
  BY <1>1, <1>2, <1>3, CapacityAssumption

LEMMA StepBounded == Registration /\ Hidden /\ Bounded /\ [Next]_vars => Bounded'
<1> SUFFICES ASSUME Registration, Hidden, Bounded, [Next]_vars PROVE Bounded'
  OBVIOUS
<1>1. ASSUME UNCHANGED <<inbox, chan, closed, panicked, phase, produced, since>>
      PROVE  Bounded'
  BY <1>1 DEF Bounded
<1>2. ASSUME NEW r \in Emitted, Produce(r) PROVE Bounded'
  <2>1. PICK m \in Routable : /\ produced' = Append(produced, m)
                              /\ inbox' = inbox \/ inbox' = Enqueue(inbox, m)
    <3>1. Len(produced) + 1 \in Nat
      BY LenProperties DEF Bounded
    <3> QED
      BY <1>2, <3>1, EmittedRoutable DEF Produce
  <2>2. m \in Records /\ inbox \in Seq(Records)
    BY HubRecords DEF Routable
  <2>3. /\ Len(Append(inbox, m)) = Len(inbox) + 1 /\ Len(inbox) \in Nat
        /\ Append(produced, m) \in Seq(Records)
        /\ Len(Append(produced, m)) = Len(produced) + 1 /\ Len(produced) \in Nat
    BY <2>2, AppendProperties, LenProperties DEF Bounded
  <2>4. Len(inbox') <= BusCap
    BY <2>1, <2>3, CapacityAssumption DEF Enqueue, Bounded
  <2>5. produced' \in Seq(Records) /\ Len(produced') <= MaxRecords
    BY <1>2, <2>1, <2>3, CapacityAssumption DEF Produce, Bounded
  <2> QED
    BY <1>2, <2>4, <2>5 DEF Produce, hubVars, clientVars, Bounded
<1>3. CASE HubReceive
  <2>1. inbox \in Seq(Records) /\ inbox # <<>> /\ inbox' = Tail(inbox)
    BY <1>3, HubRecords DEF HubReceive
  <2>2. Len(inbox') = Len(inbox) - 1 /\ Len(inbox) \in Nat
    BY <2>1, HeadTailProperties, LenProperties
  <2> QED
    BY <1>3, <2>2, CapacityAssumption DEF HubReceive, clientVars, Bounded
<1>4. CASE ToLight
  <2>1. msg \in Records /\ FanOut(light, msg)
    BY <1>4, HubRecords DEF ToLight
  <2>2. phase' \in {"receive", "light", "dark"}
    BY <1>4 DEF ToLight, AfterLight
  <2> QED
    BY <1>4, <2>1, <2>2, FanOutBounded DEF ToLight, busVars, Bounded
<1>5. CASE ToDark
  <2>1. PICK m \in Records : FanOut(dark, m)
    <3>1. Strip(msg) \in Records /\ msg \in Records
      BY StripShown, HubRecords DEF Hidden, Shown
    <3> QED
      BY <1>5, <3>1 DEF ToDark
  <2> QED
    BY <1>5, <2>1, FanOutBounded DEF ToDark, busVars, Bounded
<1>6. ASSUME NEW c \in Client, Subscribe(c) PROVE Bounded'
  <2>1. Len(produced) \in 0..MaxRecords
    BY LenProperties, CapacityAssumption DEF Bounded
  <2>2. since' \in [Client -> 0..MaxRecords]
    BY <1>6, <2>1 DEF Subscribe, Bounded
  <2> QED
    BY <1>6, <2>2 DEF Subscribe, busVars, Bounded
<1>7. ASSUME NEW c \in Client, Read(c) PROVE Bounded'
  <2>1. /\ chan \in [Client -> Seq(Records)] /\ chan[c] \in Seq(Records)
        /\ chan[c] # <<>> /\ chan' = [chan EXCEPT ![c] = Tail(chan[c])]
    BY <1>7 DEF Read, Hidden
  <2>2. Len(Tail(chan[c])) = Len(chan[c]) - 1 /\ Len(chan[c]) \in Nat
    BY <2>1, HeadTailProperties, LenProperties
  <2>3. Len(Tail(chan[c])) <= ClientCap
    BY <2>2, CapacityAssumption DEF Bounded
  <2>4. \A d \in Client : Len(chan'[d]) <= ClientCap
    BY <2>1, <2>3 DEF Bounded
  <2> QED
    BY <1>7, <2>4 DEF Read, busVars, hubVars, Bounded
<1>8. ASSUME NEW c \in Client, Unregister(c) \/ CloseChannel(c) PROVE Bounded'
  BY <1>1, <1>8 DEF Unregister, CloseChannel, busVars, hubVars
<1>9. CASE Close
  BY <1>9 DEF Close, hubVars, clientVars, Bounded
<1>10. CASE UNCHANGED vars
  BY <1>1, <1>10 DEF vars, busVars, hubVars, clientVars
<1> QED
  BY <1>2, <1>3, <1>4, <1>5, <1>6, <1>7, <1>8, <1>9, <1>10 DEF Next, Hub, Handle

\* Whatever the capacities of the hub's channel and of the clients' channels, no
\* channel ever holds more than it was made for (Produce, toLight, toDark), and
\* bus, hub and handlers keep their types.
THEOREM ChannelsAreBounded == Spec => []TypeOK
<1>1. Init => Registration /\ Hidden
  BY InitHidden
<1>2. Init => Bounded
  <2> SUFFICES ASSUME Init PROVE Bounded
    OBVIOUS
  <2>1. Len(<<>>) = 0 /\ <<>> \in Seq(Records)
    OBVIOUS
  <2>2. BusCap \in Nat /\ ClientCap \in Nat /\ MaxRecords \in Nat /\ 0 \in 0..MaxRecords
    BY CapacityAssumption
  <2>3. inbox = <<>> /\ produced = <<>> /\ \A c \in Client : chan[c] = <<>>
    BY DEF Init
  <2>4. Len(inbox) <= BusCap /\ Len(produced) <= MaxRecords /\ produced \in Seq(Records)
    BY <2>1, <2>2, <2>3
  <2>5. \A c \in Client : Len(chan[c]) <= ClientCap
    BY <2>1, <2>2, <2>3
  <2>6. /\ since \in [Client -> 0..MaxRecords] /\ phase = "receive"
        /\ closed \in BOOLEAN /\ panicked \in BOOLEAN
    BY <2>2 DEF Init
  <2> QED
    BY <2>4, <2>5, <2>6 DEF Bounded
<1>3. Registration /\ Hidden /\ Bounded /\ [Next]_vars =>
        Registration' /\ Hidden' /\ Bounded'
  BY StepRegistration, StepHidden, StepBounded
<1>4. Registration /\ Hidden /\ Bounded => TypeOK
  <2> SUFFICES ASSUME Registration, Hidden, Bounded PROVE TypeOK
    OBVIOUS
  <2>1. inbox \in Seq(Records) /\ msg \in Records
    BY HubRecords
  <2>2. /\ light \subseteq Client /\ dark \subseteq Client /\ shut \subseteq Client
        /\ handler \in [Client -> {"none", "reading", "closing", "gone"}]
    BY DEF Registration
  <2>3. chan \in [Client -> Seq(Records)] /\ got \in [Client -> Seq(Records)]
    BY DEF Hidden
  <2> QED
    BY <2>1, <2>2, <2>3 DEF Bounded, TypeOK
<1> QED
  BY <1>1, <1>2, <1>3, <1>4, PTL DEF Spec
=============================================================================
