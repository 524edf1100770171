---------------------------- MODULE ClusterProofs ----------------------------
(***************************************************************************)
(* For any number of instances, stops and turns, and any capacity of the   *)
(* consumer's channel: no record of the log is skipped; the clients of an  *)
(* instance get the records in order and once, and no two instances that   *)
(* are up have shown the same; and what the log holds of one life of an    *)
(* engine is in the order of its turns, with one end.                      *)
(***************************************************************************)
EXTENDS ClusterProps, SequenceTheorems, TLAPS

-----------------------------------------------------------------------------
(* Sequences in which each element stands to every later one in a relation *)

InOrder(s, R) == \A j, k \in DOMAIN s : j < k => <<s[j], s[k]>> \in R

LEMMA AddInOrder ==
  ASSUME NEW S, NEW R, NEW s \in Seq(S), NEW n \in S
  PROVE  /\ Append(s, n) \in Seq(S)
         /\ Range(Append(s, n)) = Range(s) \cup {n}
         /\ InOrder(s, R) /\ (\A m \in Range(s) : <<m, n>> \in R) => InOrder(Append(s, n), R)
<1> DEFINE t == Append(s, n)
<1>1. /\ t \in Seq(S) /\ DOMAIN t = 1..(Len(s) + 1) /\ DOMAIN s = 1..Len(s)
      /\ Len(s) \in Nat
      /\ \A i \in 1..Len(s) : t[i] = s[i]
      /\ t[Len(s) + 1] = n
  BY AppendProperties, LenProperties
<1> HIDE DEF t
<1>2. \A i \in DOMAIN t : i \in DOMAIN s \/ i = Len(s) + 1
  BY <1>1
<1>3. Range(t) = Range(s) \cup {n}
  BY <1>1, <1>2 DEF Range
<1>4. ASSUME InOrder(s, R), \A m \in Range(s) : <<m, n>> \in R PROVE InOrder(t, R)
  <2> SUFFICES ASSUME NEW i \in DOMAIN t, NEW j \in DOMAIN t, i < j PROVE <<t[i], t[j]>> \in R
    BY DEF InOrder
  <2>1. i \in DOMAIN s
    BY <1>1
  <2>2. CASE j \in DOMAIN s
    <3>1. <<s[i], s[j]>> \in R
      BY <1>4, <2>1, <2>2 DEF InOrder
    <3> QED
      BY <1>1, <2>1, <2>2, <3>1
  <2>3. CASE j = Len(s) + 1
    <3>1. <<s[i], n>> \in R
      BY <1>4, <2>1 DEF Range
    <3> QED
      BY <1>1, <2>1, <2>3, <3>1
  <2> QED
    BY <1>2, <2>2, <2>3
<1> QED
  BY <1>1, <1>3, <1>4 DEF t

LEMMA TakeInOrder ==
  ASSUME NEW S, NEW R, NEW s \in Seq(S), s # <<>>, InOrder(s, R)
  PROVE  /\ Head(s) \in S /\ Tail(s) \in Seq(S)
         /\ Range(s) = {Head(s)} \cup Range(Tail(s))
         /\ InOrder(Tail(s), R) /\ \A m \in Range(Tail(s)) : <<Head(s), m>> \in R
<1>1. /\ Head(s) \in S /\ Tail(s) \in Seq(S) /\ Len(Tail(s)) = Len(s) - 1
      /\ \A i \in 1..Len(Tail(s)) : Tail(s)[i] = s[i + 1]
  BY HeadTailProperties
<1>2. Len(s) \in Nat \ {0} /\ DOMAIN s = 1..Len(s) /\ DOMAIN Tail(s) = 1..(Len(s) - 1)
  BY <1>1, EmptySeq, LenProperties
<1>3. Head(s) = s[1]
  OBVIOUS
<1>4. \A i \in DOMAIN Tail(s) : i + 1 \in DOMAIN s /\ Tail(s)[i] = s[i + 1]
  BY <1>1, <1>2
<1>5. InOrder(Tail(s), R)
  <2> SUFFICES ASSUME NEW i \in DOMAIN Tail(s), NEW j \in DOMAIN Tail(s), i < j
               PROVE  <<Tail(s)[i], Tail(s)[j]>> \in R
    BY DEF InOrder
  <2>1. i + 1 \in DOMAIN s /\ j + 1 \in DOMAIN s /\ i + 1 < j + 1
    BY <1>2, <1>4
  <2>2. <<s[i + 1], s[j + 1]>> \in R
    BY <2>1 DEF InOrder
  <2> QED
    BY <1>4, <2>2
<1>6. \A m \in Range(Tail(s)) : <<Head(s), m>> \in R
  <2> SUFFICES ASSUME NEW i \in DOMAIN Tail(s) PROVE <<Head(s), Tail(s)[i]>> \in R
    BY DEF Range
  <2>1. 1 \in DOMAIN s /\ i + 1 \in DOMAIN s /\ 1 < i + 1
    BY <1>2, <1>4
  <2>2. <<s[1], s[i + 1]>> \in R
    BY <2>1 DEF InOrder
  <2> QED
    BY <1>3, <1>4, <2>2
<1>7. \A i \in DOMAIN s : i = 1 \/ (i - 1 \in DOMAIN Tail(s) /\ s[i] = Tail(s)[i - 1])
  BY <1>1, <1>2
<1>8. Range(s) = {Head(s)} \cup Range(Tail(s))
  <2>1. Range(s) \subseteq {Head(s)} \cup Range(Tail(s))
    BY <1>3, <1>7 DEF Range
  <2>2. Range(Tail(s)) \subseteq Range(s)
    BY <1>4 DEF Range
  <2>3. Head(s) \in Range(s)
    BY <1>2, <1>3 DEF Range
  <2> QED
    BY <2>1, <2>2, <2>3
<1> QED
  BY <1>1, <1>5, <1>6, <1>8

-----------------------------------------------------------------------------
(* Rising sequences of offsets *)

Offset == Nat \ {0}

Later == {p \in Offset \X Offset : p[1] < p[2]}

Rising(s) == \A j, k \in DOMAIN s : j < k => s[j] < s[k]

LEMMA RisingInOrder ==
  ASSUME NEW s \in Seq(Offset)
  PROVE  /\ Rising(s) <=> InOrder(s, Later)
         /\ \A i \in DOMAIN s : s[i] \in Offset
<1>1. \A i \in DOMAIN s : s[i] \in Offset
  BY ElementOfSeq, LenProperties
<1> QED
  BY <1>1 DEF Rising, InOrder, Later

\* Reading a record later than all before leaves a channel rising.
LEMMA AddLast ==
  ASSUME NEW s \in Seq(Offset), NEW n \in Offset
  PROVE  /\ Append(s, n) \in Seq(Offset)
         /\ Range(Append(s, n)) = Range(s) \cup {n}
         /\ Rising(s) /\ (\A m \in Range(s) : m < n) => Rising(Append(s, n))
<1>1. \A m \in Range(s) : m \in Offset
  BY RisingInOrder DEF Range
<1>2. (\A m \in Range(s) : m < n) => \A m \in Range(s) : <<m, n>> \in Later
  BY <1>1 DEF Later
<1>3. /\ Append(s, n) \in Seq(Offset)
      /\ Range(Append(s, n)) = Range(s) \cup {n}
      /\ InOrder(s, Later) /\ (\A m \in Range(s) : <<m, n>> \in Later)
           => InOrder(Append(s, n), Later)
  BY AddInOrder
<1>4. /\ Rising(s) <=> InOrder(s, Later)
      /\ Rising(Append(s, n)) <=> InOrder(Append(s, n), Later)
  BY <1>3, RisingInOrder
<1> QED
  BY <1>2, <1>3, <1>4

\* Taking from a channel leaves it rising, and what is left comes later.
LEMMA TakeFirst ==
  ASSUME NEW s \in Seq(Offset), s # <<>>, Rising(s)
  PROVE  /\ Head(s) \in Offset /\ Tail(s) \in Seq(Offset)
         /\ Range(s) = {Head(s)} \cup Range(Tail(s))
         /\ Rising(Tail(s)) /\ \A m \in Range(Tail(s)) : Head(s) < m
<1>1. InOrder(s, Later)
  BY RisingInOrder
<1>2. /\ Head(s) \in Offset /\ Tail(s) \in Seq(Offset)
      /\ Range(s) = {Head(s)} \cup Range(Tail(s))
      /\ InOrder(Tail(s), Later) /\ \A m \in Range(Tail(s)) : <<Head(s), m>> \in Later
  BY <1>1, TakeInOrder
<1>3. Rising(Tail(s))
  BY <1>2, RisingInOrder
<1>4. \A m \in Range(Tail(s)) : Head(s) < m
  BY <1>2 DEF Later
<1> QED
  BY <1>2, <1>3, <1>4

-----------------------------------------------------------------------------
(* The group and the consumers *)

Held(i) == Range(shown[i]) \cup Range(out[i])

GroupTypes ==
  /\ up \in [Instance -> BOOLEAN] /\ life \in [Instance -> Nat]
  /\ out \in [Instance -> Seq(Offset)] /\ shown \in [Instance -> Seq(Offset)]
  /\ members \subseteq Instance \X Nat
  /\ position \in Offset /\ committed \in Nat /\ committed <= position

\* What an instance was given it shows in order.
Orderly(i) ==
  /\ Rising(shown[i]) /\ Rising(out[i])
  /\ \A j \in Range(shown[i]), k \in Range(out[i]) : j < k

\* The group has read past what an instance holds, and an instance that does not
\* read the partition holds nothing from where the next owner may have to begin.
Behind(i) == \A k \in Held(i) : k < position /\ (~Owns(i) => k < StartOf(committed))

Apart == \A i, j \in Instance : i # j => Held(i) \cap Held(j) = {}

\* A life that is to come is no member yet, and an instance that is down holds
\* nothing.
LivesInOrder == \A m \in members : m[2] <= life[m[1]]
DownIsEmpty == \A i \in Instance : ~up[i] => out[i] = <<>> /\ shown[i] = <<>>

GroupInv ==
  /\ GroupTypes /\ LivesInOrder /\ DownIsEmpty /\ Apart
  /\ \A i \in Instance : Orderly(i) /\ Behind(i)

LEMMA EmptyHolds == Range(<<>>) = {} /\ Rising(<<>>) /\ <<>> \in Seq(Offset)
<1>1. DOMAIN <<>> = {}
  BY EmptySeq
<1> QED
  BY <1>1, EmptySeq DEF Range, Rising

LEMMA InitGroup == Init => GroupInv
<1> SUFFICES ASSUME Init PROVE GroupInv
  OBVIOUS
<1>1. \A i \in Instance : out[i] = <<>> /\ shown[i] = <<>>
  BY DEF Init
<1>2. \A i \in Instance : Held(i) = {} /\ Orderly(i)
  BY <1>1, EmptyHolds DEF Held, Orderly
<1>3. GroupTypes
  BY EmptyHolds DEF Init, GroupTypes, Offset
<1> QED
  BY <1>1, <1>2, <1>3 DEF Init, GroupInv, LivesInOrder, DownIsEmpty, Apart, Behind

\* The group's bookkeeping alone: who is a member, who owns, from where on.
LEMMA RebalanceGroup == GroupInv /\ Rebalance => GroupInv'
<1> SUFFICES ASSUME GroupInv, Rebalance PROVE GroupInv'
  OBVIOUS
<1> USE DEF GroupInv
<1>1. /\ members' = Live /\ committed' = Stored /\ position' = StartOf(committed')
      /\ UNCHANGED <<up, life, out, shown>>
  BY DEF Rebalance, hubVars
<1>2. members' \subseteq Instance \X Nat /\ LivesInOrder'
  BY <1>1 DEF Live, LivesInOrder, GroupTypes
<1>3. committed' \in Nat /\ committed' <= position /\ committed <= committed'
  BY <1>1 DEF Stored, GroupTypes, Offset
<1>4. position' \in Offset /\ committed' <= position'
  BY <1>1, <1>3 DEF StartOf, GroupTypes, Offset
<1>5. ASSUME NEW i \in Instance, NEW k \in Held(i) PROVE k < StartOf(committed')
  <2>1. k < position /\ k \in Nat
    BY <1>5 DEF Behind, Held, GroupTypes, Range, Offset
  <2>2. CASE Owns(i)
    <3>1. <<i, life[i]>> \in members \cap Live /\ owner = i
      BY <2>2 DEF Owns, Live
    <3>2. committed' = position
      BY <1>1, <3>1 DEF Stored
    <3> QED
      BY <2>1, <3>2 DEF StartOf, GroupTypes, Offset
  <2>3. CASE ~Owns(i)
    <3>1. k < StartOf(committed)
      BY <1>5, <2>3 DEF Behind
    <3> QED
      BY <2>1, <3>1, <1>3 DEF StartOf, GroupTypes
  <2> QED
    BY <2>2, <2>3
<1>6. \A i \in Instance : Held(i)' = Held(i)
  BY <1>1 DEF Held
<1>7. \A i \in Instance : Orderly(i)' /\ Behind(i)'
  BY <1>1, <1>5, <1>6 DEF Orderly, Behind
<1> QED
  BY <1>1, <1>2, <1>3, <1>4, <1>6, <1>7 DEF GroupTypes, DownIsEmpty, Apart

\* The owner reads the next record, which nobody holds.
LEMMA ReadGroup == ASSUME GroupInv, NEW i \in Instance, Read(i) PROVE GroupInv'
<1> USE DEF GroupInv
<1>1. /\ Owns(i) /\ position' = position + 1
      /\ out' = [out EXCEPT ![i] = Append(out[i], position)]
      /\ UNCHANGED <<up, life, members, owner, committed, shown>>
  BY DEF Read
<1>2. /\ out \in [Instance -> Seq(Offset)] /\ out[i] \in Seq(Offset)
      /\ shown[i] \in Seq(Offset) /\ position \in Offset
  BY DEF GroupTypes
<1>3. \A k \in Held(i) : k < position
  BY DEF Behind
<1>4. /\ out'[i] = Append(out[i], position) /\ out'[i] \in Seq(Offset)
      /\ Range(out'[i]) = Range(out[i]) \cup {position} /\ Rising(out'[i])
  BY <1>1, <1>2, <1>3, AddLast DEF Held, Orderly
<1>5. \A j \in Instance : j # i => Held(j)' = Held(j) /\ out'[j] = out[j]
  BY <1>1, <1>2 DEF Held
<1>6. Held(i)' = Held(i) \cup {position}
  BY <1>1, <1>4 DEF Held
<1>7. GroupTypes' /\ LivesInOrder' /\ DownIsEmpty'
  <2>1. out' \in [Instance -> Seq(Offset)]
    BY <1>1, <1>2, <1>4
  <2>2. position' \in Offset /\ committed <= position'
    BY <1>1 DEF GroupTypes, Offset
  <2>3. DownIsEmpty'
    BY <1>1, <1>5 DEF DownIsEmpty, Owns
  <2> QED
    BY <1>1, <2>1, <2>2, <2>3 DEF GroupTypes, LivesInOrder
<1>8. Apart'
  <2>1. \A j \in Instance : j # i => position \notin Held(j)
    BY <1>2 DEF Behind, Offset
  <2>2. ASSUME NEW j \in Instance, NEW l \in Instance, j # l PROVE (Held(j) \cap Held(l))' = {}
    <3>1. Held(j) \cap Held(l) = {}
      BY <2>2 DEF Apart
    <3> QED
      BY <1>5, <1>6, <2>1, <2>2, <3>1
  <2> QED
    BY <2>2 DEF Apart
<1>9. ASSUME NEW j \in Instance PROVE Orderly(j)' /\ Behind(j)'
  <2>1. \A l \in Instance : Owns(l)' <=> Owns(l)
    BY <1>1 DEF Owns
  <2>2. \A k \in Held(j) : k \in Nat /\ k < position /\ k < position'
    <3>1. shown[j] \in Seq(Offset) /\ out[j] \in Seq(Offset)
      BY DEF GroupTypes
    <3>2. Held(j) \subseteq Offset
      BY <3>1 DEF Held, Range
    <3>3. \A k \in Held(j) : k < position
      BY DEF Behind
    <3> QED
      BY <1>1, <1>2, <3>2, <3>3 DEF Offset
  <2>3. CASE j # i
    BY <1>1, <1>5, <2>1, <2>2, <2>3 DEF Orderly, Behind, StartOf
  <2>4. CASE j = i
    <3>1. Orderly(i)'
      BY <1>1, <1>3, <1>4 DEF Orderly, Held
    <3>2. position < position'
      BY <1>1, <1>2 DEF Offset
    <3> QED
      BY <1>1, <1>6, <2>1, <2>2, <2>4, <3>1, <3>2 DEF Behind
  <2> QED
    BY <2>3, <2>4
<1> QED
  BY <1>7, <1>8, <1>9

\* A record goes from the channel to the clients: the instance holds the same.
LEMMA ShowGroup == ASSUME GroupInv, NEW i \in Instance, Show(i) PROVE GroupInv'
<1> USE DEF GroupInv
<1>1. /\ out[i] # <<>> /\ shown' = [shown EXCEPT ![i] = Append(shown[i], Head(out[i]))]
      /\ out' = [out EXCEPT ![i] = Tail(out[i])]
      /\ UNCHANGED <<up, life, members, owner, position, committed>>
  BY DEF Show, groupVars
<1>2. /\ out \in [Instance -> Seq(Offset)] /\ out[i] \in Seq(Offset)
      /\ shown \in [Instance -> Seq(Offset)] /\ shown[i] \in Seq(Offset)
      /\ Rising(out[i]) /\ Rising(shown[i])
      /\ \A j \in Range(shown[i]), k \in Range(out[i]) : j < k
  BY DEF GroupTypes, Orderly
<1>3. /\ Head(out[i]) \in Offset /\ Tail(out[i]) \in Seq(Offset)
      /\ Range(out[i]) = {Head(out[i])} \cup Range(Tail(out[i]))
      /\ Rising(Tail(out[i])) /\ \A m \in Range(Tail(out[i])) : Head(out[i]) < m
  BY <1>1, <1>2, TakeFirst
<1>4. /\ shown'[i] = Append(shown[i], Head(out[i])) /\ shown'[i] \in Seq(Offset)
      /\ Range(shown'[i]) = Range(shown[i]) \cup {Head(out[i])} /\ Rising(shown'[i])
  <2>1. \A m \in Range(shown[i]) : m < Head(out[i])
    BY <1>2, <1>3
  <2> QED
    BY <1>1, <1>2, <1>3, <2>1, AddLast
<1>5. out'[i] = Tail(out[i])
  BY <1>1, <1>2
<1>6. \A j \in Instance : j # i => out'[j] = out[j] /\ shown'[j] = shown[j]
  BY <1>1, <1>2
<1>7. \A j \in Instance : Held(j)' = Held(j)
  BY <1>3, <1>4, <1>5, <1>6 DEF Held
<1>8. GroupTypes' /\ LivesInOrder'
  <2>1. out' \in [Instance -> Seq(Offset)] /\ shown' \in [Instance -> Seq(Offset)]
    BY <1>1, <1>2, <1>3, <1>4
  <2> QED
    BY <1>1, <2>1 DEF GroupTypes, LivesInOrder
<1>9. DownIsEmpty' /\ Apart'
  BY <1>1, <1>6, <1>7 DEF DownIsEmpty, Apart
<1>10. ASSUME NEW j \in Instance PROVE Orderly(j)' /\ Behind(j)'
  <2>1. Owns(j)' <=> Owns(j)
    BY <1>1 DEF Owns
  <2>2. Behind(j)'
    BY <1>1, <1>7, <2>1 DEF Behind, StartOf
  <2>3. Orderly(i)'
    BY <1>2, <1>3, <1>4, <1>5 DEF Orderly
  <2> QED
    BY <1>6, <2>2, <2>3 DEF Orderly
<1> QED
  BY <1>8, <1>9, <1>10

LEMMA CommitGroup == ASSUME GroupInv, NEW i \in Instance, AutoCommit(i) PROVE GroupInv'
<1> USE DEF GroupInv
<1>1. /\ Owns(i) /\ committed' = position
      /\ UNCHANGED <<up, life, members, owner, position, out, shown>>
  BY DEF AutoCommit, hubVars
<1>2. GroupTypes'
  BY <1>1 DEF GroupTypes, Offset
<1>3. ASSUME NEW j \in Instance PROVE Orderly(j)' /\ Behind(j)'
  BY <1>1 DEF Orderly, Behind, Held, StartOf, GroupTypes, Offset
<1> QED
  BY <1>1, <1>2, <1>3 DEF LivesInOrder, DownIsEmpty, Apart, Held

\* An instance that stops loses what it holds, and owns nothing any more.
LEMMA StopGroup == ASSUME GroupInv, NEW i \in Instance, Stop(i) PROVE GroupInv'
<1> USE DEF GroupInv
<1>1. /\ up' = [up EXCEPT ![i] = FALSE]
      /\ out' = [out EXCEPT ![i] = <<>>] /\ shown' = [shown EXCEPT ![i] = <<>>]
      /\ UNCHANGED <<life, members, owner, position, committed>>
  BY DEF Stop, groupVars
<1>2. /\ out \in [Instance -> Seq(Offset)] /\ shown \in [Instance -> Seq(Offset)]
      /\ up \in [Instance -> BOOLEAN]
  BY DEF GroupTypes
<1>3. out'[i] = <<>> /\ shown'[i] = <<>>
  BY <1>1, <1>2
<1>4. Held(i)' = {} /\ Orderly(i)'
  BY <1>3, EmptyHolds DEF Held, Orderly
<1>5. \A j \in Instance : j # i =>
        out'[j] = out[j] /\ shown'[j] = shown[j] /\ (up'[j] <=> up[j]) /\ Held(j)' = Held(j)
  BY <1>1, <1>2 DEF Held
<1>6. GroupTypes' /\ LivesInOrder'
  <2>1. out' \in [Instance -> Seq(Offset)] /\ shown' \in [Instance -> Seq(Offset)]
    BY <1>1, <1>2, EmptyHolds
  <2> QED
    BY <1>1, <2>1 DEF GroupTypes, LivesInOrder
<1>7. DownIsEmpty'
  BY <1>3, <1>5 DEF DownIsEmpty
<1>8. Apart'
  BY <1>4, <1>5 DEF Apart
<1>9. ASSUME NEW j \in Instance PROVE Orderly(j)' /\ Behind(j)'
  <2>1. CASE j = i
    BY <1>4, <2>1 DEF Behind
  <2>2. CASE j # i
    <3>1. Owns(j)' <=> Owns(j)
      BY <1>1, <1>5, <2>2 DEF Owns
    <3> QED
      BY <1>1, <1>5, <2>2, <3>1 DEF Orderly, Behind, StartOf
  <2> QED
    BY <2>1, <2>2
<1> QED
  BY <1>6, <1>7, <1>8, <1>9

\* An instance that starts is no member yet.
LEMMA StartGroup == ASSUME GroupInv, NEW i \in Instance, Start(i) PROVE GroupInv'
<1> USE DEF GroupInv
<1>1. /\ ~up[i] /\ up' = [up EXCEPT ![i] = TRUE] /\ life' = [life EXCEPT ![i] = life[i] + 1]
      /\ UNCHANGED <<out, shown, members, owner, position, committed>>
  BY DEF Start, groupVars, hubVars
<1>2. up \in [Instance -> BOOLEAN] /\ life \in [Instance -> Nat]
  BY DEF GroupTypes
<1>3. \A j \in Instance : life'[j] \in Nat /\ life[j] <= life'[j]
  BY <1>1, <1>2
<1>4. GroupTypes'
  BY <1>1, <1>2 DEF GroupTypes
<1>5. LivesInOrder'
  <2> SUFFICES ASSUME NEW m \in members PROVE m[2] <= life'[m[1]]
    BY <1>1 DEF LivesInOrder
  <2>1. m[1] \in Instance /\ m[2] \in Nat /\ m[2] <= life[m[1]]
    BY DEF LivesInOrder, GroupTypes
  <2> QED
    BY <1>2, <1>3, <2>1
<1>6. Held(i) = {} /\ \A j \in Instance : Held(j)' = Held(j)
  BY <1>1, EmptyHolds DEF Held, DownIsEmpty
<1>7. ASSUME NEW j \in Instance PROVE Orderly(j)' /\ Behind(j)'
  <2>1. CASE j = i
    BY <1>1, <1>6, <2>1 DEF Orderly, Behind
  <2>2. CASE j # i
    <3>1. Owns(j)' <=> Owns(j)
      BY <1>1, <1>2, <2>2 DEF Owns
    <3> QED
      BY <1>1, <1>6, <2>2, <3>1 DEF Orderly, Behind, StartOf
  <2> QED
    BY <2>1, <2>2
<1>8. DownIsEmpty' /\ Apart'
  BY <1>1, <1>2, <1>6 DEF DownIsEmpty, Apart
<1> QED
  BY <1>4, <1>5, <1>7, <1>8

\* Engines and producers are none of the group's business.
LEMMA StepGroup == GroupInv /\ [Next]_vars => GroupInv'
<1> SUFFICES ASSUME GroupInv, [Next]_vars PROVE GroupInv'
  OBVIOUS
<1>1. CASE UNCHANGED <<up, life, groupVars, hubVars>>
  <2>1. \A i \in Instance : /\ Held(i)' = Held(i) /\ (Owns(i)' <=> Owns(i))
                            /\ (Orderly(i)' <=> Orderly(i))
    BY <1>1 DEF groupVars, hubVars, Held, Owns, Orderly
  <2> QED
    BY <1>1, <2>1 DEF groupVars, hubVars, GroupInv, GroupTypes, LivesInOrder, DownIsEmpty,
                      Apart, Behind, StartOf
<1>2. CASE \E i \in Instance : ProcessTurn(i) \/ Deliver(i)
  BY <1>1, <1>2 DEF ProcessTurn, Deliver
<1>3. CASE UNCHANGED vars
  BY <1>1, <1>3 DEF vars
<1> QED
  BY <1>2, <1>3, RebalanceGroup, ReadGroup, ShowGroup, CommitGroup, StopGroup, StartGroup DEF Next

\* The clients of an instance get the records in their order and once each (the
\* reading goroutine of KafkaBus.Subscribe), however often the partition goes to
\* other instances and comes back.
THEOREM ClientsSeeOrder == Spec => []ShownInOrder
<1>1. GroupInv => ShownInOrder
  BY DEF GroupInv, Orderly, Rising, ShownInOrder
<1> QED
  BY <1>1, InitGroup, StepGroup, PTL DEF Spec

\* Two instances that are up have never shown the same record: the partition is
\* given up at a committed position, or by an instance that has stopped.
THEOREM NoneShownTwice == Spec => []RepeatedOnlyAfterStop
<1>1. GroupInv => RepeatedOnlyAfterStop
  BY DEF GroupInv, Apart, Held, RepeatedOnlyAfterStop
<1> QED
  BY <1>1, InitGroup, StepGroup, PTL DEF Spec

-----------------------------------------------------------------------------
(* Nothing is skipped *)

\* Where record k is, or was when an instance stopped.
Located(k) == Seen(k) \/ k \in lost \/ \E i \in Instance : k \in Range(out[i])

AllLocated == \A k \in 1..position - 1 : Located(k)

\* A record that has been shown, or lost, stays so, and one in a channel is shown
\* or lost when it leaves it.
LEMMA LocatedStays ==
  ASSUME GroupInv, [Next]_vars, NEW k, Located(k)
  PROVE  Located(k)'
<1> USE DEF GroupInv
<1>1. CASE UNCHANGED <<out, shown, past, lost>>
  BY <1>1 DEF Located, Seen
<1>2. ASSUME NEW i \in Instance, Read(i) PROVE Located(k)'
  <2>1. /\ out' = [out EXCEPT ![i] = Append(out[i], position)]
        /\ UNCHANGED <<shown, past, lost>>
    BY <1>2 DEF Read
  <2>2. out \in [Instance -> Seq(Offset)] /\ out[i] \in Seq(Offset) /\ position \in Offset
    BY DEF GroupTypes
  <2>3. Range(out'[i]) = Range(out[i]) \cup {position}
    BY <2>1, <2>2, AddLast
  <2>4. \A j \in Instance : Range(out[j]) \subseteq Range(out'[j])
    BY <2>1, <2>2, <2>3
  <2> QED
    BY <2>1, <2>4 DEF Located, Seen
<1>3. ASSUME NEW i \in Instance, Show(i) PROVE Located(k)'
  <2>1. /\ out[i] # <<>> /\ shown' = [shown EXCEPT ![i] = Append(shown[i], Head(out[i]))]
        /\ out' = [out EXCEPT ![i] = Tail(out[i])]
        /\ UNCHANGED <<past, lost>>
    BY <1>3 DEF Show
  <2>2. /\ out \in [Instance -> Seq(Offset)] /\ out[i] \in Seq(Offset)
        /\ shown \in [Instance -> Seq(Offset)] /\ shown[i] \in Seq(Offset) /\ Rising(out[i])
    BY DEF GroupTypes, Orderly
  <2>3. /\ Head(out[i]) \in Offset
        /\ Range(out[i]) = {Head(out[i])} \cup Range(Tail(out[i]))
    BY <2>1, <2>2, TakeFirst
  <2>4. Range(shown'[i]) = Range(shown[i]) \cup {Head(out[i])}
    BY <2>1, <2>2, <2>3, AddLast
  <2>5. \A j \in Instance : Range(shown[j]) \subseteq Range(shown'[j])
    BY <2>1, <2>2, <2>4
  <2>6. \A j \in Instance : Range(out[j]) \subseteq Range(out'[j]) \cup Range(shown'[j])
    BY <2>1, <2>2, <2>3, <2>4
  <2> QED
    BY <2>1, <2>5, <2>6 DEF Located, Seen
<1>4. ASSUME NEW i \in Instance, Stop(i) PROVE Located(k)'
  <2>1. /\ out' = [out EXCEPT ![i] = <<>>] /\ lost' = lost \cup Range(out[i])
        /\ shown' = [shown EXCEPT ![i] = <<>>] /\ past' = past \cup Range(shown[i])
    BY <1>4 DEF Stop
  <2>2. out \in [Instance -> Seq(Offset)] /\ shown \in [Instance -> Seq(Offset)]
    BY DEF GroupTypes
  <2>3. \A j \in Instance : j # i => out'[j] = out[j] /\ shown'[j] = shown[j]
    BY <2>1, <2>2
  <2> QED
    BY <2>1, <2>3 DEF Located, Seen
<1>5. CASE Rebalance \/ UNCHANGED vars
  BY <1>1, <1>5 DEF Rebalance, vars, hubVars
<1>6. CASE \E i \in Instance : ProcessTurn(i) \/ Deliver(i) \/ AutoCommit(i) \/ Start(i)
  BY <1>1, <1>6 DEF ProcessTurn, Deliver, AutoCommit, Start, hubVars
<1> QED
  BY <1>2, <1>3, <1>4, <1>5, <1>6 DEF Next

\* The position moves past a record only when it is read, into a channel.
LEMMA StepLocated == GroupInv /\ AllLocated /\ [Next]_vars => AllLocated'
<1> SUFFICES ASSUME GroupInv, AllLocated, [Next]_vars, NEW k, k \in 1..(position' - 1)
             PROVE  Located(k)'
  BY DEF AllLocated
<1>1. position \in Offset /\ committed \in Nat /\ committed <= position
  BY DEF GroupInv, GroupTypes
<1>2. CASE position' \in Offset /\ position' <= position
  <2>1. k \in 1..position - 1
    <3>1. PICK p \in Offset : p = position'
      BY <1>2
    <3>2. p \in Int /\ position \in Int /\ p <= position
      BY <1>1, <1>2, <3>1 DEF Offset
    <3>3. k \in 1..(p - 1)
      BY <3>1, Zenon
    <3> QED
      BY <3>2, <3>3
  <2> QED
    BY <2>1, LocatedStays DEF AllLocated
<1>3. ASSUME NEW i \in Instance, Read(i) PROVE Located(k)'
  <2>1. position' = position + 1 /\ out' = [out EXCEPT ![i] = Append(out[i], position)]
    BY <1>3 DEF Read
  <2>2. CASE k \in 1..position - 1
    BY <2>2, LocatedStays DEF AllLocated
  <2>3. CASE k = position
    <3>1. out \in [Instance -> Seq(Offset)] /\ out[i] \in Seq(Offset)
      BY DEF GroupInv, GroupTypes
    <3>2. position \in Range(out'[i])
      BY <1>1, <2>1, <3>1, AddLast
    <3> QED
      BY <2>3, <3>2 DEF Located
  <2> QED
    BY <1>1, <2>1, <2>2, <2>3 DEF Offset
<1>4. CASE Rebalance
  <2>1. position' = StartOf(committed') /\ committed' = Stored
    BY <1>4 DEF Rebalance
  <2> QED
    BY <1>1, <1>2, <2>1 DEF StartOf, Stored, Offset
<1>5. CASE position' = position
  BY <1>1, <1>2, <1>5 DEF Offset
<1>6. CASE \E i \in Instance :
             ProcessTurn(i) \/ Deliver(i) \/ AutoCommit(i) \/ Show(i) \/ Stop(i) \/ Start(i)
  BY <1>5, <1>6 DEF ProcessTurn, Deliver, AutoCommit, Show, Stop, Start, groupVars
<1>7. CASE UNCHANGED vars
  BY <1>5, <1>7 DEF vars, groupVars
<1> QED
  BY <1>3, <1>4, <1>6, <1>7 DEF Next

\* No record the group has read past is forgotten, whoever stops and however the
\* partition is dealt: it was shown, is on its way to a hub, or was on its way when
\* the instance stopped (what KafkaBus.Subscribe commits is what it has read).
THEOREM NoRecordIsSkipped == Spec => []NothingSkipped
<1>1. Init => AllLocated
  BY DEF Init, AllLocated
<1>2. AllLocated => NothingSkipped
  BY DEF AllLocated, NothingSkipped, Located
<1> QED
  BY <1>1, <1>2, InitGroup, StepGroup, StepLocated, PTL DEF Spec

-----------------------------------------------------------------------------
(* What an engine emits in one life, from the engine to the log *)

Record == [type : {"GameOver", "WorldStateSnapshot"}, by : Instance, life : Nat, turn : Nat]

\* What an engine of one life emits first, and after.
Follows(r, s) ==
  r.by = s.by /\ r.life = s.life =>
    /\ r # s /\ r.turn <= s.turn
    /\ r.type = "GameOver" => s.turn = r.turn

Succession == {p \in Record \X Record : Follows(p[1], p[2])}

EmissionTypes ==
  /\ up \in [Instance -> BOOLEAN] /\ over \in [Instance -> BOOLEAN]
  /\ life \in [Instance -> Nat] /\ turn \in [Instance -> Nat]
  /\ log \in Seq(Record) /\ sending \in [Instance -> Seq(Record)]

\* The queue of a producer holds records of the life it is in, which follow what that
\* life has in the log.
QueueOf(i) ==
  /\ InOrder(sending[i], Succession) /\ (~up[i] => sending[i] = <<>>)
  /\ \A s \in Range(sending[i]) : s.by = i /\ s.life = life[i]
  /\ \A r \in Range(log), s \in Range(sending[i]) : <<r, s>> \in Succession

\* An engine that plays on is in a later turn than all it has emitted, none of which
\* announced an end.
Ahead(i) ==
  up[i] /\ ~over[i] =>
    \A r \in Range(log) \cup Range(sending[i]) :
      r.by = i /\ r.life = life[i] => r.turn < turn[i] /\ r.type # "GameOver"

EmissionInv ==
  /\ EmissionTypes /\ InOrder(log, Succession)
  /\ \A r \in Range(log) : r.life <= life[r.by]
  /\ \A i \in Instance : QueueOf(i) /\ Ahead(i)

LEMMA InRecord ==
  ASSUME NEW s \in Seq(Record)
  PROVE  \A r \in Range(s) : r \in Record
<1>1. \A i \in DOMAIN s : s[i] \in Record
  BY ElementOfSeq, LenProperties
<1> QED
  BY <1>1 DEF Range

LEMMA NoneInOrder ==
  Range(<<>>) = {} /\ InOrder(<<>>, Succession) /\ <<>> \in Seq(Record)
<1>1. DOMAIN <<>> = {}
  BY EmptySeq
<1> QED
  BY <1>1, EmptySeq DEF Range, InOrder

LEMMA InitEmission == Init => EmissionInv
<1> SUFFICES ASSUME Init PROVE EmissionInv
  OBVIOUS
<1>1. log = <<>> /\ \A i \in Instance : sending[i] = <<>>
  BY DEF Init
<1>2. EmissionTypes
  BY NoneInOrder DEF Init, EmissionTypes
<1>3. \A i \in Instance : QueueOf(i) /\ Ahead(i)
  BY <1>1, NoneInOrder DEF QueueOf, Ahead
<1> QED
  BY <1>1, <1>2, <1>3, NoneInOrder DEF EmissionInv

\* A turn's records follow all the engine has emitted in this life.
LEMMA TurnEmission ==
  ASSUME EmissionInv, NEW i \in Instance, ProcessTurn(i)
  PROVE  EmissionInv'
<1> USE DEF EmissionInv
<1>1. PICK won \in BOOLEAN :
        /\ up[i] /\ ~over[i]
        /\ over' = [over EXCEPT ![i] = won]
        /\ sending' = [sending EXCEPT ![i] = sending[i] \o Emitted(i, won)]
        /\ turn' = [turn EXCEPT ![i] = IF won THEN turn[i] ELSE turn[i] + 1]
        /\ UNCHANGED <<up, life, log>>
  BY DEF ProcessTurn
<1> DEFINE q == sending[i]
           end == [type |-> "GameOver", by |-> i, life |-> life[i], turn |-> turn[i]]
           snap == [type |-> "WorldStateSnapshot", by |-> i, life |-> life[i], turn |-> turn[i]]
           before == Range(log) \cup Range(q)
<1>2. q \in Seq(Record) /\ log \in Seq(Record) /\ end \in Record /\ snap \in Record
  BY DEF EmissionTypes, Record
<1>3. ASSUME NEW r \in before
      PROVE  r \in Record /\ <<r, end>> \in Succession /\ <<r, snap>> \in Succession
  <2>1. r \in Record
    BY <1>2, <1>3, InRecord
  <2>2. r.by = i /\ r.life = life[i] => r.turn < turn[i] /\ r.type # "GameOver"
    BY <1>1 DEF Ahead
  <2>3. r.turn \in Nat /\ turn[i] \in Nat
    BY <2>1 DEF Record, EmissionTypes
  <2>4. Follows(r, end) /\ Follows(r, snap)
    BY <2>2, <2>3 DEF Follows
  <2> QED
    BY <1>2, <2>1, <2>4 DEF Succession
<1>4. <<end, snap>> \in Succession
  <2>1. end # snap /\ end.turn = snap.turn /\ end.turn \in Nat
    BY <1>2 DEF EmissionTypes
  <2> QED
    BY <1>2, <2>1 DEF Succession, Follows
<1> HIDE DEF end, snap
<1>5. /\ InOrder(q, Succession)
      /\ \A s \in Range(q) : s.by = i /\ s.life = life[i]
  BY DEF QueueOf
<1>6. PICK p \in Seq(Record) :
        /\ p = sending'[i] /\ InOrder(p, Succession)
        /\ Range(p) = Range(q) \cup (IF won THEN {end, snap} ELSE {snap})
  <2>1. CASE won
    <3>1. sending'[i] = q \o (<<end>> \o <<snap>>)
      BY <1>1, <2>1 DEF Emitted, EmissionTypes, end, snap
    <3>2. q \o (<<end>> \o <<snap>>) = Append(Append(q, end), snap)
      BY <1>2
    <3>3. /\ Append(q, end) \in Seq(Record) /\ Range(Append(q, end)) = Range(q) \cup {end}
          /\ InOrder(Append(q, end), Succession)
      <4>1. \A m \in Range(q) : <<m, end>> \in Succession
        BY <1>3
      <4> HIDE DEF q
      <4> QED
        BY <1>2, <1>5, <4>1, AddInOrder
    <3>4. /\ Append(Append(q, end), snap) \in Seq(Record)
          /\ Range(Append(Append(q, end), snap)) = Range(Append(q, end)) \cup {snap}
          /\ InOrder(Append(Append(q, end), snap), Succession)
      <4> DEFINE u == Append(q, end)
      <4>1. \A m \in Range(u) : <<m, snap>> \in Succession
        BY <1>3, <1>4, <3>3
      <4>2. u \in Seq(Record) /\ InOrder(u, Succession)
        BY <3>3
      <4> HIDE DEF u
      <4>3. /\ Append(u, snap) \in Seq(Record) /\ Range(Append(u, snap)) = Range(u) \cup {snap}
            /\ InOrder(Append(u, snap), Succession)
        BY <1>2, <4>1, <4>2, AddInOrder
      <4> QED
        BY <4>3 DEF u
    <3> QED
      BY <2>1, <3>1, <3>2, <3>3, <3>4
  <2>2. CASE ~won
    <3>1. sending'[i] = q \o (<<>> \o <<snap>>)
      BY <1>1, <2>2 DEF Emitted, EmissionTypes, snap
    <3>2. q \o (<<>> \o <<snap>>) = Append(q, snap)
      BY <1>2
    <3>3. /\ Append(q, snap) \in Seq(Record) /\ Range(Append(q, snap)) = Range(q) \cup {snap}
          /\ InOrder(Append(q, snap), Succession)
      <4>1. \A m \in Range(q) : <<m, snap>> \in Succession
        BY <1>3
      <4> HIDE DEF q
      <4> QED
        BY <1>2, <1>5, <4>1, AddInOrder
    <3> QED
      BY <2>2, <3>1, <3>2, <3>3
  <2> QED
    BY <2>1, <2>2
<1>7. /\ end.by = i /\ end.life = life[i] /\ end.turn = turn[i] /\ end.type = "GameOver"
      /\ snap.by = i /\ snap.life = life[i] /\ snap.turn = turn[i]
      /\ snap.type = "WorldStateSnapshot"
  BY DEF end, snap
<1> HIDE DEF q
<1>8. EmissionTypes'
  <2>1. sending' \in [Instance -> Seq(Record)]
    BY <1>1, <1>6 DEF EmissionTypes
  <2> QED
    BY <1>1, <2>1 DEF EmissionTypes
<1>9. QueueOf(i)'
  <2>1. \A r \in Range(log), s \in Range(p) : <<r, s>> \in Succession
    BY <1>3, <1>6 DEF QueueOf, q
  <2>2. \A s \in Range(p) : s.by = i /\ s.life = life[i]
    BY <1>5, <1>6, <1>7
  <2> QED
    BY <1>1, <1>6, <2>1, <2>2 DEF QueueOf
<1>10. Ahead(i)'
  <2> SUFFICES ASSUME ~over'[i], NEW r \in Range(log) \cup Range(p), r.by = i, r.life = life[i]
               PROVE  r.turn < turn'[i] /\ r.type # "GameOver"
    BY <1>1, <1>6 DEF Ahead
  <2>1. ~won /\ turn'[i] = turn[i] + 1 /\ turn[i] \in Nat
    BY <1>1 DEF EmissionTypes
  <2>2. CASE r = snap
    BY <1>7, <2>1, <2>2
  <2>3. CASE r \in before
    <3>1. r.turn < turn[i] /\ r.type # "GameOver"
      BY <1>1, <2>3 DEF Ahead, q
    <3>2. r.turn \in Nat
      BY <1>3, <2>3 DEF Record
    <3> QED
      BY <2>1, <3>1, <3>2
  <2> QED
    BY <1>6, <2>1, <2>2, <2>3
<1>11. ASSUME NEW j \in Instance, j # i PROVE QueueOf(j)' /\ Ahead(j)'
  <2>1. sending'[j] = sending[j] /\ turn'[j] = turn[j] /\ over'[j] = over[j]
    BY <1>1, <1>11 DEF EmissionTypes
  <2> QED
    BY <1>1, <2>1 DEF QueueOf, Ahead
<1> QED
  BY <1>1, <1>8, <1>9, <1>10, <1>11

\* The producer's oldest record goes to the end of the log.
LEMMA DeliverEmission ==
  ASSUME EmissionInv, NEW i \in Instance, Deliver(i)
  PROVE  EmissionInv'
<1> USE DEF EmissionInv
<1> DEFINE q == sending[i]
           r == Head(q)
<1>1. /\ q # <<>> /\ log' = Append(log, r)
      /\ sending' = [sending EXCEPT ![i] = Tail(q)]
      /\ UNCHANGED <<up, life, turn, over>>
  BY DEF Deliver, Appended
<1>2. q \in Seq(Record) /\ log \in Seq(Record) /\ InOrder(q, Succession)
  BY DEF EmissionTypes, QueueOf
<1>3. /\ r \in Record /\ Tail(q) \in Seq(Record)
      /\ Range(q) = {r} \cup Range(Tail(q))
      /\ InOrder(Tail(q), Succession)
      /\ \A s \in Range(Tail(q)) : <<r, s>> \in Succession
  BY <1>1, <1>2, TakeInOrder
<1>4. /\ r \in Range(q) /\ r.by = i /\ r.life = life[i] /\ up[i]
      /\ \A s \in Range(log) : <<s, r>> \in Succession
  BY <1>1, <1>3 DEF QueueOf
<1> HIDE DEF r
<1>5. /\ log' \in Seq(Record) /\ Range(log') = Range(log) \cup {r}
      /\ InOrder(log', Succession)
  BY <1>1, <1>2, <1>3, <1>4, AddInOrder
<1>6. sending'[i] = Tail(q) /\ \A j \in Instance : j # i => sending'[j] = sending[j]
  BY <1>1 DEF EmissionTypes
<1> HIDE DEF q
<1>7. EmissionTypes'
  <2>1. sending' \in [Instance -> Seq(Record)]
    BY <1>1, <1>3 DEF EmissionTypes
  <2> QED
    BY <1>1, <1>5, <2>1 DEF EmissionTypes
<1>8. \A s \in Range(log') : s.life <= life'[s.by]
  BY <1>1, <1>4, <1>5 DEF EmissionTypes
<1>9. QueueOf(i)'
  <2>1. \A s \in Range(Tail(q)) : s.by = i /\ s.life = life[i]
    BY <1>3 DEF QueueOf, q
  <2>2. \A t \in Range(log'), s \in Range(Tail(q)) : <<t, s>> \in Succession
    BY <1>3, <1>5 DEF QueueOf, q
  <2> QED
    BY <1>1, <1>3, <1>4, <1>6, <2>1, <2>2 DEF QueueOf
<1>10. Ahead(i)'
  BY <1>1, <1>3, <1>5, <1>6 DEF Ahead, q
<1>11. ASSUME NEW j \in Instance, j # i PROVE QueueOf(j)' /\ Ahead(j)'
  <2>1. sending'[j] = sending[j] /\ sending[j] \in Seq(Record)
    BY <1>6, <1>11 DEF EmissionTypes
  <2>2. ASSUME NEW s \in Range(sending[j]) PROVE <<r, s>> \in Succession
    <3>1. s \in Record /\ s.by = j
      BY <2>1, InRecord DEF QueueOf
    <3> QED
      BY <1>3, <1>4, <1>11, <3>1 DEF Succession, Follows
  <2>3. QueueOf(j)'
    BY <1>1, <1>5, <2>1, <2>2 DEF QueueOf
  <2>4. Ahead(j)'
    BY <1>1, <1>4, <1>5, <1>11, <2>1 DEF Ahead
  <2> QED
    BY <2>3, <2>4
<1> QED
  BY <1>5, <1>7, <1>8, <1>9, <1>10, <1>11

\* An engine that is gone has no queue.
LEMMA StopEmission == ASSUME EmissionInv, NEW i \in Instance, Stop(i) PROVE EmissionInv'
<1> USE DEF EmissionInv
<1>1. /\ up' = [up EXCEPT ![i] = FALSE]
      /\ turn' = [turn EXCEPT ![i] = 1] /\ over' = [over EXCEPT ![i] = FALSE]
      /\ sending' = [sending EXCEPT ![i] = <<>>]
      /\ UNCHANGED <<life, log>>
  BY DEF Stop
<1>2. ~up'[i] /\ sending'[i] = <<>>
  BY <1>1 DEF EmissionTypes
<1>3. EmissionTypes'
  BY <1>1, NoneInOrder DEF EmissionTypes
<1>4. QueueOf(i)' /\ Ahead(i)'
  BY <1>2, NoneInOrder DEF QueueOf, Ahead
<1>5. ASSUME NEW j \in Instance, j # i PROVE QueueOf(j)' /\ Ahead(j)'
  <2>1. /\ sending'[j] = sending[j] /\ turn'[j] = turn[j] /\ over'[j] = over[j]
        /\ up'[j] = up[j]
    BY <1>1, <1>5 DEF EmissionTypes
  <2> QED
    BY <1>1, <2>1 DEF QueueOf, Ahead
<1> QED
  BY <1>1, <1>3, <1>4, <1>5

\* The log holds nothing yet of a life that begins.
LEMMA StartEmission == ASSUME EmissionInv, NEW i \in Instance, Start(i) PROVE EmissionInv'
<1> USE DEF EmissionInv
<1>1. /\ ~up[i] /\ up' = [up EXCEPT ![i] = TRUE] /\ life' = [life EXCEPT ![i] = life[i] + 1]
      /\ UNCHANGED <<turn, over, sending, log>>
  BY DEF Start, engineVars
<1>2. life'[i] = life[i] + 1 /\ life[i] \in Nat /\ sending[i] = <<>>
  BY <1>1 DEF EmissionTypes, QueueOf
<1>3. EmissionTypes'
  BY <1>1 DEF EmissionTypes
<1>4. ASSUME NEW r \in Range(log) PROVE r.life <= life'[r.by] /\ (r.by = i => r.life # life'[i])
  <2>1. r \in Record /\ r.life <= life[r.by]
    BY InRecord DEF EmissionTypes
  <2>2. r.life \in Nat /\ r.by \in Instance /\ life[r.by] \in Nat
    BY <2>1 DEF Record, EmissionTypes
  <2>3. CASE r.by = i
    BY <1>2, <2>1, <2>2, <2>3
  <2>4. CASE r.by # i
    BY <1>1, <2>1, <2>2, <2>4 DEF EmissionTypes
  <2> QED
    BY <2>3, <2>4
<1>5. QueueOf(i)' /\ Ahead(i)'
  BY <1>1, <1>2, <1>4, NoneInOrder DEF QueueOf, Ahead
<1>6. ASSUME NEW j \in Instance, j # i PROVE QueueOf(j)' /\ Ahead(j)'
  <2>1. up'[j] = up[j] /\ life'[j] = life[j]
    BY <1>1, <1>6 DEF EmissionTypes
  <2>2. turn'[j] = turn[j] /\ over'[j] = over[j] /\ sending'[j] = sending[j] /\ log' = log
    BY <1>1
  <2>3. QueueOf(j)'
    BY <2>1, <2>2 DEF QueueOf
  <2>4. Ahead(j)'
    BY <2>1, <2>2 DEF Ahead
  <2> QED
    BY <2>3, <2>4
<1> QED
  BY <1>1, <1>3, <1>4, <1>5, <1>6

LEMMA StepEmission == EmissionInv /\ [Next]_vars => EmissionInv'
<1> SUFFICES ASSUME EmissionInv, [Next]_vars PROVE EmissionInv'
  OBVIOUS
<1>1. CASE UNCHANGED <<up, life, turn, over, sending, log>>
  BY <1>1 DEF EmissionInv, EmissionTypes, QueueOf, Ahead
<1>2. CASE \E i \in Instance : Read(i) \/ AutoCommit(i) \/ Show(i)
  BY <1>1, <1>2 DEF Read, AutoCommit, Show, engineVars
<1>3. CASE Rebalance \/ UNCHANGED vars
  BY <1>1, <1>3 DEF Rebalance, vars, engineVars
<1> QED
  BY <1>2, <1>3, TurnEmission, DeliverEmission, StopEmission, StartEmission DEF Next

\* Whatever stops and starts: of each life of an engine the log holds the records in
\* the order of its turns, none twice, and nothing of a later turn after the end it
\* announces (Engine.ProcessTurn emits, KafkaBus.Produce appends).
THEOREM EachLifeIsOrdered == Spec => []EachLifeInOrder
<1>1. EmissionInv => EachLifeInOrder
  <2> SUFFICES ASSUME EmissionInv, NEW j \in DOMAIN log, NEW k \in DOMAIN log, j < k,
                      log[j].by = log[k].by, log[j].life = log[k].life
               PROVE  /\ log[j] # log[k] /\ log[j].turn <= log[k].turn
                      /\ log[j].type = "GameOver" => log[k].turn = log[j].turn
    BY DEF EachLifeInOrder
  <2>1. <<log[j], log[k]>> \in Succession
    BY DEF EmissionInv, InOrder
  <2> QED
    BY <2>1 DEF Succession, Follows
<1> QED
  BY <1>1, InitEmission, StepEmission, PTL DEF Spec
=============================================================================
