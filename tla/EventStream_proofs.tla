-------------------------- MODULE EventStream_proofs --------------------------
(* Theorems about EventStream, for any streams and any number of events. *)
EXTENDS EventStream, FiniteSetTheorems, SequenceTheorems, TLAPS

-----------------------------------------------------------------------------
(* The inductive invariant *)

\* How many events emit() has been through with.
Published == IF publishing THEN emitted - 1 ELSE emitted

\* The table holds events emit() has begun with.
Stored ==
    /\ publishing => 0 < emitted
    /\ table \subseteq 1 .. emitted

\* What a stream has follows from where its generator is.
HasByStage(s) ==
    /\ stage[s] = "new" => delivered[s] = <<>> /\ since[s] = 0 /\ readAt[s] = 0
    /\ stage[s] \in {"new", "listening"} => replay[s] = <<>>
    /\ stage[s] \in {"new", "replaying"} =>
          channel[s] = <<>> /\ handover[s] = 0 /\ subscribedAt[s] = 0

\* What came from the table and what came from the channel is ordered, and the
\* event being published at the subscription lies between the two.
InTwoParts(s) ==
    /\ handover[s] <= Len(delivered[s])
    /\ \A i, j \in DOMAIN delivered[s] :
         i < j /\ (j <= handover[s] \/ handover[s] < i) => delivered[s][i] < delivered[s][j]
    /\ \A i \in DOMAIN delivered[s] :
         IF i <= handover[s] THEN delivered[s][i] <= subscribedAt[s]
                             ELSE subscribedAt[s] <= delivered[s][i]

\* What came from the table is later than the client's Last-Event-ID, and what came from
\* the channel no earlier.
Resumed(s) ==
    \A i \in DOMAIN delivered[s] :
        since[s] < delivered[s][i] \/ (handover[s] < i /\ since[s] <= subscribedAt[s])

\* The rows still to be passed on are ordered and later than what was; a client
\* has no more events than the newest of them counts.
RowsAhead(s) ==
    stage[s] = "replaying" =>
        /\ \A i \in DOMAIN delivered[s] :
             i <= delivered[s][i] /\ delivered[s][i] <= readAt[s] /\ since[s] < delivered[s][i]
        /\ \A k \in DOMAIN replay[s] : replay[s][k] <= readAt[s] /\ since[s] < replay[s][k]
        /\ \A i \in DOMAIN delivered[s], k \in DOMAIN replay[s] : delivered[s][i] < replay[s][k]
        /\ \A k, l \in DOMAIN replay[s] : k < l => replay[s][k] < replay[s][l]

\* So are the messages in the channel, all of them published.
MessagesAhead(s) ==
    stage[s] = "listening" =>
        /\ since[s] <= subscribedAt[s]
        /\ \A k \in DOMAIN channel[s] : subscribedAt[s] <= channel[s][k] /\ channel[s][k] <= Published
        /\ \A i \in DOMAIN delivered[s] : handover[s] < i => delivered[s][i] <= Published
        /\ \A i \in DOMAIN delivered[s], k \in DOMAIN channel[s] :
             handover[s] < i => delivered[s][i] < channel[s][k]
        /\ \A k, l \in DOMAIN channel[s] : k < l => channel[s][k] < channel[s][l]

\* The table's events up to the reading and the channel's from the subscription on: they
\* have been passed on or will be, and a stream that closed has had all before its end.
NothingLost(s) ==
    /\ stage[s] = "replaying" =>
         \A e \in table : since[s] < e /\ e <= readAt[s] =>
             e \in ToSet(delivered[s]) \cup ToSet(replay[s])
    /\ stage[s] = "listening" =>
         /\ \A e \in table : since[s] < e /\ e <= readAt[s] => e \in ToSet(delivered[s])
         /\ \A e \in Event \ unpublished : subscribedAt[s] < e /\ e <= Published =>
             e \in ToSet(delivered[s]) \cup ToSet(channel[s])
    /\ stage[s] = "closed" =>
         \A e \in Event : since[s] < e /\ e < Completion =>
             \/ e \in ToSet(delivered[s])
             \/ e <= readAt[s] /\ e \notin table
             \/ readAt[s] < e /\ e <= subscribedAt[s]
             \/ subscribedAt[s] < e /\ e \in unpublished

\* plan_completed is the last a client was sent, on a stream it has closed.
Ends(s) ==
    /\ stage[s] = "closed" => delivered[s] # <<>> /\ IsCompletion(Last(delivered[s]))
    /\ \A i \in DOMAIN delivered[s] :
         IsCompletion(delivered[s][i]) => i = Len(delivered[s]) /\ stage[s] = "closed"

StreamInvariant(s) ==
    /\ since[s] <= emitted /\ readAt[s] <= emitted /\ subscribedAt[s] <= emitted
    /\ HasByStage(s) /\ InTwoParts(s) /\ Resumed(s) /\ RowsAhead(s) /\ MessagesAhead(s)
    /\ NothingLost(s) /\ Ends(s)

Invariant == TypeOK /\ Stored /\ \A s \in Stream : StreamInvariant(s)

-----------------------------------------------------------------------------
(* Sequences *)

\* A sequence of events is one of numbers.
LEMMA EventsAreNumbers ==
    ASSUME NEW q \in Seq(Event)
    PROVE  /\ Len(q) \in Nat /\ DOMAIN q = 1 .. Len(q)
           /\ \A i \in DOMAIN q : q[i] \in Event /\ q[i] \in Nat \ {0}
<1>1. Len(q) \in Nat /\ DOMAIN q = 1 .. Len(q) /\ q \in [1 .. Len(q) -> Event]
  BY LenProperties
<1>2. Event \subseteq Nat \ {0}
  BY LengthAssumption DEF Event
<1> QED  BY <1>1, <1>2

\* What append adds at the end of a sequence.
LEMMA AppendAdds ==
    ASSUME NEW S, NEW q \in Seq(S), NEW e \in S
    PROVE  /\ Append(q, e) \in Seq(S)
           /\ Len(Append(q, e)) = Len(q) + 1
           /\ DOMAIN Append(q, e) = DOMAIN q \cup {Len(q) + 1}
           /\ DOMAIN q = 1 .. Len(q)
           /\ \A i \in DOMAIN q : Append(q, e)[i] = q[i]
           /\ Append(q, e)[Len(q) + 1] = e
           /\ ToSet(Append(q, e)) = ToSet(q) \cup {e}
<1>1. /\ Append(q, e) \in Seq(S)
      /\ Len(Append(q, e)) = Len(q) + 1
      /\ \A i \in 1 .. Len(q) : Append(q, e)[i] = q[i]
      /\ Append(q, e)[Len(q) + 1] = e
  BY AppendProperties
<1>2. Len(q) \in Nat /\ DOMAIN q = 1 .. Len(q) /\ DOMAIN Append(q, e) = 1 .. Len(q) + 1
  BY <1>1, LenProperties
<1>3. DOMAIN Append(q, e) = DOMAIN q \cup {Len(q) + 1}
  BY <1>2
<1>4. ToSet(Append(q, e)) = ToSet(q) \cup {e}
  BY <1>1, <1>2, <1>3 DEF ToSet
<1> QED  BY <1>1, <1>2, <1>3, <1>4

\* What taking the first element leaves of a sequence.
LEMMA HeadAndTail ==
    ASSUME NEW S, NEW q \in Seq(S), q # <<>>
    PROVE  /\ Head(q) \in S /\ Tail(q) \in Seq(S)
           /\ 1 \in DOMAIN q /\ Head(q) = q[1]
           /\ DOMAIN q \subseteq Nat
           /\ \A k \in DOMAIN Tail(q) : k + 1 \in DOMAIN q /\ Tail(q)[k] = q[k + 1]
           /\ ToSet(q) = {Head(q)} \cup ToSet(Tail(q))
<1>1. /\ Head(q) \in S /\ Tail(q) \in Seq(S)
      /\ Len(Tail(q)) = Len(q) - 1
      /\ \A i \in 1 .. Len(Tail(q)) : Tail(q)[i] = q[i + 1]
  BY HeadTailProperties
<1>2. Len(q) \in Nat \ {0} /\ DOMAIN q = 1 .. Len(q) /\ DOMAIN Tail(q) = 1 .. Len(q) - 1
  BY <1>1, LenProperties, EmptySeq
<1>3. Head(q) = q[1]
  OBVIOUS
<1>4. \A k \in DOMAIN Tail(q) : k + 1 \in DOMAIN q /\ Tail(q)[k] = q[k + 1]
  BY <1>1, <1>2
<1>5. ASSUME NEW i \in DOMAIN q, i # 1 PROVE q[i] \in ToSet(Tail(q))
  <2>1. i - 1 \in DOMAIN Tail(q) /\ (i - 1) + 1 = i
    BY <1>2, <1>5
  <2>2. Tail(q)[i - 1] = q[i]
    BY <1>4, <2>1
  <2> QED  BY <2>1, <2>2 DEF ToSet
<1>6. ToSet(q) \subseteq {Head(q)} \cup ToSet(Tail(q))
  BY <1>3, <1>5 DEF ToSet
<1>7. 1 \in DOMAIN q /\ {Head(q)} \cup ToSet(Tail(q)) \subseteq ToSet(q)
  BY <1>2, <1>3, <1>4 DEF ToSet
<1> QED  BY <1>1, <1>2, <1>3, <1>4, <1>6, <1>7

\* The rows a query answers are those of the table after the client's last event,
\* each of them once and in the order of the run.
LEMMA RowsAreOrdered ==
    ASSUME NEW n \in Nat, table \subseteq 1 .. n, NEW last, NEW rows \in Rows(last)
    PROVE  /\ rows \in Seq({e \in table : e > last})
           /\ \A i, j \in DOMAIN rows : i < j => rows[i] < rows[j]
           /\ ToSet(rows) = {e \in table : e > last}
<1> DEFINE S == {e \in table : e > last}
           D == 1 .. Cardinality(S)
<1>1. IsFiniteSet(S)
  <2>1. IsFiniteSet(1 .. n)
    BY 1 \in Int, n \in Int, FS_Interval
  <2>2. S \subseteq 1 .. n
    OBVIOUS
  <2> QED  BY <2>1, <2>2, FS_Subset
<1>2. Cardinality(S) \in Nat
  BY <1>1, FS_CardinalityType
<1>3. /\ rows \in [D -> S]
      /\ \A i, j \in D : i # j => rows[i] # rows[j]
      /\ \A i, j \in DOMAIN rows : i < j => rows[i] < rows[j]
  BY DEF Rows, Answered, SetToSeqs
<1>4. rows \in Injection(D, S)
  BY <1>3 DEF Injection, IsInjective
<1>5. Cardinality(D) = Cardinality(S)
  BY <1>2, FS_Interval, 0 \in Int
<1>6. rows \in Surjection(D, S)
  <2> HIDE DEF D, S
  <2> QED  BY <1>1, <1>4, <1>5, FS_Injection
<1>7. ToSet(rows) = S
  BY <1>3, <1>6 DEF ToSet, Surjection
<1>8. rows \in Seq(S)
  BY <1>2, <1>3, SeqDef
<1> QED  BY <1>3, <1>7, <1>8

-----------------------------------------------------------------------------
(* What a step preserves, for a stream *)

\* The emitter's first step.
LEMMA PersistKeeps ==
    ASSUME Invariant, Persist, NEW t \in Stream
    PROVE  StreamInvariant(t)'
<1> USE LengthAssumption
<1>1. /\ emitted \in Nat /\ emitted' = emitted + 1 /\ ~publishing /\ publishing'
      /\ readAt[t] \in Nat /\ subscribedAt[t] \in Nat /\ since[t] \in Nat
      /\ table \subseteq Event
  BY DEF Invariant, TypeOK, Persist
<1>2. Published = emitted /\ Published' = emitted
  BY <1>1 DEF Published
<1>3. /\ UNCHANGED <<completes, unpublished, stage, since, replay, channel, delivered,
                     readAt, handover, subscribedAt>>
      /\ table' \in {table, table \cup {emitted + 1}}
  BY <1>1 DEF Persist
<1>4. StreamInvariant(t)
  BY DEF Invariant
<1>5. readAt[t] <= emitted
  BY <1>4 DEF StreamInvariant
<1>6. since'[t] <= emitted' /\ readAt'[t] <= emitted' /\ subscribedAt'[t] <= emitted'
  BY <1>1, <1>3, <1>4 DEF StreamInvariant
<1>7. HasByStage(t)' /\ InTwoParts(t)' /\ Resumed(t)' /\ RowsAhead(t)'
  BY <1>3, <1>4 DEF StreamInvariant, HasByStage, InTwoParts, Resumed, RowsAhead
<1>8. MessagesAhead(t)'
  BY <1>2, <1>3, <1>4 DEF StreamInvariant, MessagesAhead
<1>9. NothingLost(t)'
  <2>1. \A e \in table' : e <= readAt[t] => e \in table
    BY <1>1, <1>3, <1>5
  <2>2. \A e \in Event : e <= readAt[t] /\ e \notin table => e \notin table'
    BY <2>1
  <2> QED  BY <1>2, <1>3, <1>4, <2>1, <2>2 DEF StreamInvariant, NothingLost, Event, Completion
<1>10. Ends(t)'
  BY <1>3, <1>4 DEF StreamInvariant, Ends, IsCompletion
<1> QED  BY <1>6, <1>7, <1>8, <1>9, <1>10 DEF StreamInvariant

\* Its second: the message is later than what is in the channel.
LEMMA PublishKeeps ==
    ASSUME Invariant, Publish, NEW t \in Stream
    PROVE  StreamInvariant(t)'
<1> USE LengthAssumption
<1>1. /\ emitted \in Nat /\ emitted \in Event /\ publishing /\ ~publishing' /\ emitted' = emitted
      /\ readAt[t] \in Nat /\ subscribedAt[t] \in Nat /\ handover[t] \in Nat /\ since[t] \in Nat
  BY DEF Invariant, TypeOK, Publish, Stored, Event
<1>7. channel[t] \in Seq(Event) /\ delivered[t] \in Seq(Event)
  BY DEF Invariant, TypeOK
<1>8. /\ \A k \in DOMAIN channel[t] : channel[t][k] \in Nat
      /\ \A i \in DOMAIN delivered[t] : delivered[t][i] \in Nat
  BY <1>7, EventsAreNumbers
<1>2. Published = emitted - 1 /\ Published' = emitted
  BY <1>1 DEF Published
<1>3. UNCHANGED <<completes, table, stage, since, replay, delivered, readAt, handover, subscribedAt>>
  BY DEF Publish
<1>4. /\ since[t] <= emitted /\ readAt[t] <= emitted /\ subscribedAt[t] <= emitted
      /\ HasByStage(t) /\ InTwoParts(t) /\ Resumed(t) /\ RowsAhead(t) /\ MessagesAhead(t)
      /\ NothingLost(t) /\ Ends(t)
  BY DEF Invariant, StreamInvariant
<1>5. CASE /\ channel'[t] = channel[t] /\ unpublished \subseteq unpublished'
           /\ stage[t] = "listening" => emitted \in unpublished'
  <2>1. HasByStage(t)' /\ InTwoParts(t)' /\ Resumed(t)' /\ RowsAhead(t)'
    BY <1>3, <1>4, <1>5 DEF HasByStage, InTwoParts, Resumed, RowsAhead
  <2>2. MessagesAhead(t)'
    <3>1. Published \in Int /\ Published <= Published'
      BY <1>1, <1>2
    <3>2. channel'[t] = channel[t] /\ delivered'[t] = delivered[t]
      BY <1>3, <1>5
    <3>3. ASSUME stage[t] = "listening"
          PROVE /\ \A k \in DOMAIN channel[t] : channel[t][k] <= Published'
                /\ \A i \in DOMAIN delivered[t] : handover[t] < i => delivered[t][i] <= Published'
      <4> HIDE DEF Published
      <4>1. /\ \A k \in DOMAIN channel[t] : channel[t][k] <= Published
            /\ \A i \in DOMAIN delivered[t] : handover[t] < i => delivered[t][i] <= Published
        BY <1>4, <3>3 DEF MessagesAhead
      <4> QED  BY <1>1, <1>2, <1>8, <4>1
    <3> QED  BY <1>3, <1>4, <3>2, <3>3 DEF MessagesAhead
  <2>3. NothingLost(t)'
    <3>1. \A e \in Event \ unpublished' : e <= Published' /\ stage[t] = "listening" => e <= Published
      BY <1>1, <1>2, <1>5 DEF Event
    <3> QED  BY <1>3, <1>4, <1>5, <3>1 DEF NothingLost, Event, Completion
  <2>4. Ends(t)'
    BY <1>3, <1>4 DEF Ends, IsCompletion
  <2> QED  BY <1>1, <1>3, <1>4, <2>1, <2>2, <2>3, <2>4 DEF StreamInvariant
<1>6. CASE /\ stage[t] = "listening" /\ channel'[t] = Append(channel[t], emitted)
           /\ UNCHANGED unpublished
  <2> DEFINE q == channel[t]
  <2>1. /\ DOMAIN Append(q, emitted) = DOMAIN q \cup {Len(q) + 1}
        /\ DOMAIN q = 1 .. Len(q) /\ Len(q) \in Nat
        /\ \A k \in DOMAIN q : Append(q, emitted)[k] = q[k] /\ q[k] \in Nat
        /\ Append(q, emitted)[Len(q) + 1] = emitted
        /\ ToSet(Append(q, emitted)) = ToSet(q) \cup {emitted}
        /\ \A i \in DOMAIN delivered[t] : delivered[t][i] \in Nat
    <3>1. q \in Seq(Event) /\ emitted \in Event
      BY <1>1, <1>7
    <3> HIDE DEF q
    <3>2. /\ DOMAIN Append(q, emitted) = DOMAIN q \cup {Len(q) + 1}
          /\ \A k \in DOMAIN q : Append(q, emitted)[k] = q[k]
          /\ Append(q, emitted)[Len(q) + 1] = emitted
          /\ ToSet(Append(q, emitted)) = ToSet(q) \cup {emitted}
      BY <3>1, AppendAdds
    <3>3. DOMAIN q = 1 .. Len(q) /\ Len(q) \in Nat /\ \A k \in DOMAIN q : q[k] \in Nat
      BY <3>1, EventsAreNumbers
    <3> QED  BY <1>8, <3>2, <3>3
  <2> HIDE DEF q
  <2>2. channel'[t] = Append(q, emitted)
    BY <1>6 DEF q
  <2>3. HasByStage(t)' /\ InTwoParts(t)' /\ Resumed(t)' /\ RowsAhead(t)'
    BY <1>3, <1>4, <1>6 DEF HasByStage, InTwoParts, Resumed, RowsAhead
  <2>4. MessagesAhead(t)'
    <3>1. /\ \A k \in DOMAIN q : subscribedAt[t] <= q[k] /\ q[k] < emitted
          /\ \A i \in DOMAIN delivered[t] : handover[t] < i => delivered[t][i] < emitted
      BY <1>1, <1>2, <1>4, <1>6, <2>1 DEF MessagesAhead, q
    <3>2. \A k \in DOMAIN channel'[t] : subscribedAt[t] <= channel'[t][k] /\ channel'[t][k] <= emitted
      BY <1>1, <1>4, <2>1, <2>2, <3>1
    <3>3. \A i \in DOMAIN delivered[t], k \in DOMAIN channel'[t] :
            handover[t] < i => delivered[t][i] < channel'[t][k]
      BY <1>4, <1>6, <2>1, <2>2, <3>1 DEF MessagesAhead, q
    <3>4. \A k, l \in DOMAIN channel'[t] : k < l => channel'[t][k] < channel'[t][l]
      BY <1>4, <1>6, <2>1, <2>2, <3>1 DEF MessagesAhead, q
    <3>5. \A i \in DOMAIN delivered[t] : handover[t] < i => delivered[t][i] <= emitted
      BY <1>1, <2>1, <3>1
    <3>6. since[t] <= subscribedAt[t]
      BY <1>4, <1>6 DEF MessagesAhead
    <3> QED  BY <1>2, <1>3, <3>2, <3>3, <3>4, <3>5, <3>6 DEF MessagesAhead
  <2>5. NothingLost(t)'
    <3>1. /\ stage'[t] = "listening" /\ delivered'[t] = delivered[t] /\ since'[t] = since[t]
          /\ readAt'[t] = readAt[t] /\ subscribedAt'[t] = subscribedAt[t] /\ UNCHANGED <<table, unpublished>>
      BY <1>3, <1>6
    <3>2. ToSet(channel'[t]) = ToSet(channel[t]) \cup {emitted}
      BY <2>1, <2>2 DEF q
    <3>3. \A e \in Event : e <= emitted => e = emitted \/ e <= Published
      BY <1>1, <1>2 DEF Event
    <3> QED  BY <1>2, <1>4, <1>6, <3>1, <3>2, <3>3 DEF NothingLost
  <2>6. Ends(t)'
    BY <1>3, <1>4 DEF Ends, IsCompletion
  <2> QED  BY <1>1, <1>3, <1>4, <2>3, <2>4, <2>5, <2>6 DEF StreamInvariant
<1> QED
  <2>1. channel \in [Stream -> Seq(Event)]
    BY DEF Invariant, TypeOK
  <2>2. CASE Broadcast(emitted) /\ UNCHANGED unpublished
    <3>1. CASE stage[t] = "listening"
      BY <1>6, <2>1, <2>2, <3>1 DEF Broadcast
    <3>2. CASE stage[t] # "listening"
      BY <1>5, <2>1, <2>2, <3>2 DEF Broadcast
    <3> QED  BY <3>1, <3>2
  <2>3. CASE unpublished' = unpublished \cup {emitted} /\ UNCHANGED channel
    BY <1>5, <2>3
  <2> QED  BY <2>2, <2>3 DEF Publish

\* What a stream has is no matter of the others.
LEMMA OthersKeep ==
    ASSUME NEW t \in Stream, StreamInvariant(t),
           UNCHANGED <<completes, emitted, publishing, table, unpublished>>,
           stage'[t] = stage[t], since'[t] = since[t], replay'[t] = replay[t],
           channel'[t] = channel[t], delivered'[t] = delivered[t], readAt'[t] = readAt[t],
           handover'[t] = handover[t], subscribedAt'[t] = subscribedAt[t]
    PROVE  StreamInvariant(t)'
<1>1. HasByStage(t)' /\ InTwoParts(t)' /\ Resumed(t)' /\ RowsAhead(t)'
  BY DEF StreamInvariant, HasByStage, InTwoParts, Resumed, RowsAhead
<1>2. MessagesAhead(t)'
  BY DEF StreamInvariant, MessagesAhead, Published
<1>3. NothingLost(t)'
  BY DEF StreamInvariant, NothingLost, Published, Event, Completion
<1>4. Ends(t)'
  BY DEF StreamInvariant, Ends, IsCompletion
<1> QED  BY <1>1, <1>2, <1>3, <1>4 DEF StreamInvariant

\* What the table has of the run up to now is what the stream will be sent.
LEMMA ConnectKeeps ==
    ASSUME Invariant, NEW s \in Stream, NEW last \in 0 .. emitted, Connect(s, last), NEW t \in Stream
    PROVE  StreamInvariant(t)' /\ replay'[t] \in Seq(Event)
<1> USE LengthAssumption
<1>1. /\ StreamInvariant(t) /\ emitted \in Nat /\ emitted <= Length
      /\ DOMAIN stage = Stream /\ DOMAIN since = Stream /\ DOMAIN replay = Stream
      /\ DOMAIN readAt = Stream /\ replay[t] \in Seq(Event)
      /\ table \subseteq 1 .. emitted
  BY DEF Invariant, TypeOK, Stored
<1>2. /\ stage[s] = "new" /\ stage' = [stage EXCEPT ![s] = "replaying"]
      /\ since' = [since EXCEPT ![s] = last]
      /\ \E rows \in Rows(last) : replay' = [replay EXCEPT ![s] = rows]
      /\ readAt' = [readAt EXCEPT ![s] = emitted]
      /\ UNCHANGED <<completes, emitted, publishing, table, unpublished, channel, delivered,
                     handover, subscribedAt>>
  BY DEF Connect, emitter
<1>3. CASE t # s
  <2>1. replay'[t] = replay[t]
    BY <1>1, <1>2, <1>3
  <2> QED  BY <1>1, <1>2, <1>3, <2>1, OthersKeep
<1>4. CASE t = s
  <2>1. /\ delivered[s] = <<>> /\ channel[s] = <<>> /\ replay[s] = <<>>
        /\ handover[s] = 0 /\ subscribedAt[s] = 0
    BY <1>1, <1>2, <1>4 DEF StreamInvariant, HasByStage
  <2>2. /\ stage'[s] = "replaying" /\ since'[s] = last /\ readAt'[s] = emitted
        /\ delivered'[s] = <<>> /\ channel'[s] = <<>>
        /\ handover'[s] = 0 /\ subscribedAt'[s] = 0
    BY <1>1, <1>2, <2>1
  <2>3. /\ replay'[s] \in Seq(Event)
        /\ \A k \in DOMAIN replay'[s] : replay'[s][k] <= emitted /\ last < replay'[s][k]
        /\ \A k, l \in DOMAIN replay'[s] : k < l => replay'[s][k] < replay'[s][l]
        /\ ToSet(replay'[s]) = {e \in table : e > last}
    <3> DEFINE T == {e \in table : e > last}
    <3>1. PICK rows \in Rows(last) : replay' = [replay EXCEPT ![s] = rows]
      BY <1>2
    <3>2. replay'[s] = rows
      BY <1>1, <3>1
    <3>3. /\ rows \in Seq(T)
          /\ \A i, j \in DOMAIN rows : i < j => rows[i] < rows[j]
          /\ ToSet(rows) = T
      BY <1>1, RowsAreOrdered
    <3>4. T \subseteq 1 .. emitted /\ \A e \in T : e <= emitted /\ last < e
      <4>1. \A e \in table : e \in 1 .. emitted
        BY <1>1
      <4>2. \A e \in T : e \in 1 .. emitted /\ e > last
        BY <4>1
      <4>3. last \in Int /\ \A e \in 1 .. emitted : e \in Int /\ e <= emitted
        BY <1>1
      <4> HIDE DEF T
      <4> QED  BY <4>2, <4>3
    <3> HIDE DEF T
    <3>5. T \subseteq Event
      BY <1>1, <3>4 DEF Event
    <3>6. rows \in Seq(Event)
      BY <3>3, <3>5, SeqMonotonic
    <3>7. \A k \in DOMAIN rows : rows[k] \in T
      BY <3>3 DEF ToSet
    <3>8. \A k \in DOMAIN rows : rows[k] <= emitted /\ last < rows[k]
      BY <3>4, <3>7
    <3>9. ToSet(rows) = {e \in table : e > last}
      BY <3>3 DEF T
    <3> QED  BY <3>2, <3>3, <3>6, <3>8, <3>9
  <2>4. since'[s] <= emitted' /\ readAt'[s] <= emitted' /\ subscribedAt'[s] <= emitted'
    BY <1>1, <1>2, <2>2
  <2>5. HasByStage(s)' /\ InTwoParts(s)' /\ Resumed(s)' /\ Ends(s)' /\ MessagesAhead(s)'
    BY <2>2, Len(<<>>) = 0, DOMAIN <<>> = {}
    DEF HasByStage, InTwoParts, Resumed, Ends, MessagesAhead
  <2>6. RowsAhead(s)'
    BY <2>2, <2>3, DOMAIN <<>> = {} DEF RowsAhead
  <2>7. NothingLost(s)'
    <3>1. \A e \in table : last < e => e \in {f \in table : f > last}
      BY <1>1
    <3> QED  BY <1>2, <2>2, <2>3, <3>1 DEF NothingLost
  <2> QED  BY <1>4, <2>3, <2>4, <2>5, <2>6, <2>7 DEF StreamInvariant
<1> QED  BY <1>3, <1>4

\* A stream that could not read the table is owed nothing of it.
LEMMA ConnectUnreadKeeps ==
    ASSUME Invariant, NEW s \in Stream, ConnectUnread(s), NEW t \in Stream
    PROVE  StreamInvariant(t)'
<1>1. StreamInvariant(t) /\ DOMAIN stage = Stream /\ table \subseteq Event
  BY DEF Invariant, TypeOK
<1>2. /\ stage[s] = "new" /\ stage' = [stage EXCEPT ![s] = "replaying"]
      /\ UNCHANGED <<completes, emitted, publishing, table, unpublished, since, replay, channel,
                     delivered, readAt, handover, subscribedAt>>
  BY DEF ConnectUnread, emitter
<1>3. CASE t # s
  BY <1>1, <1>2, <1>3, OthersKeep
<1>4. CASE t = s
  <2>1. /\ stage'[s] = "replaying" /\ delivered[s] = <<>> /\ replay[s] = <<>>
        /\ channel[s] = <<>> /\ since[s] = 0 /\ readAt[s] = 0
    BY <1>1, <1>2, <1>4 DEF StreamInvariant, HasByStage
  <2>2. HasByStage(s)' /\ InTwoParts(s)' /\ Resumed(s)' /\ MessagesAhead(s)' /\ Ends(s)'
    BY <1>1, <1>2, <1>4, <2>1, DOMAIN <<>> = {}
    DEF StreamInvariant, HasByStage, InTwoParts, Resumed, MessagesAhead, Ends
  <2>3. RowsAhead(s)'
    BY <1>2, <2>1, DOMAIN <<>> = {} DEF RowsAhead
  <2>4. NothingLost(s)'
    <3>1. \A e \in table : ~(0 < e /\ e <= 0)
      BY <1>1, LengthAssumption DEF Event
    <3> QED  BY <1>2, <2>1, <3>1 DEF NothingLost
  <2> QED  BY <1>1, <1>2, <1>4, <2>2, <2>3, <2>4 DEF StreamInvariant
<1> QED  BY <1>3, <1>4

\* The hand-over: what was sent is the first part from now on.
LEMMA SubscribeKeeps ==
    ASSUME Invariant, NEW s \in Stream, Subscribe(s), NEW t \in Stream
    PROVE  StreamInvariant(t)' /\ handover'[t] \in 0 .. Length
<1> USE LengthAssumption
<1>1. /\ StreamInvariant(t) /\ StreamInvariant(s) /\ emitted \in Nat /\ emitted <= Length
      /\ DOMAIN stage = Stream /\ DOMAIN handover = Stream /\ DOMAIN subscribedAt = Stream
      /\ readAt[s] \in Nat /\ handover[t] \in 0 .. Length /\ delivered[s] \in Seq(Event)
  BY DEF Invariant, TypeOK
<1>0. since[s] \in Nat /\ since[s] <= emitted
  BY DEF Invariant, TypeOK, StreamInvariant
<1>2. /\ stage[s] = "replaying" /\ replay[s] = <<>>
      /\ stage' = [stage EXCEPT ![s] = "listening"]
      /\ handover' = [handover EXCEPT ![s] = Len(delivered[s])]
      /\ subscribedAt' = [subscribedAt EXCEPT ![s] = emitted]
      /\ UNCHANGED <<completes, emitted, publishing, table, unpublished, since, replay, channel,
                     delivered, readAt>>
  BY DEF Subscribe, emitter
<1>3. CASE t # s
  BY <1>1, <1>2, <1>3, OthersKeep
<1>4. CASE t = s
  <2> DEFINE d == delivered[s]
  <2>1. /\ Len(d) \in Nat /\ DOMAIN d = 1 .. Len(d)
        /\ \A i \in DOMAIN d : d[i] \in Event /\ d[i] \in Nat \ {0}
    BY <1>1, EventsAreNumbers
  <2>2. /\ stage'[s] = "listening" /\ handover'[s] = Len(d) /\ subscribedAt'[s] = emitted
        /\ channel[s] = <<>> /\ handover[s] = 0
    BY <1>1, <1>2 DEF StreamInvariant, HasByStage
  <2> HIDE DEF d
  <2>3. /\ \A i \in DOMAIN d : i <= d[i] /\ d[i] <= readAt[s] /\ since[s] < d[i]
        /\ readAt[s] <= emitted
    BY <1>1, <1>2 DEF d, StreamInvariant, RowsAhead
  <2>4. \A i, j \in DOMAIN d : i < j => d[i] < d[j]
    BY <1>1, <2>1, <2>2 DEF d, StreamInvariant, InTwoParts
  <2>5. \A i \in DOMAIN d : d[i] <= emitted /\ ~(Len(d) < i)
    BY <1>1, <2>1, <2>3
  <2>6. handover'[s] \in 0 .. Length
    <3>1. Len(d) <= Length
      <4>1. CASE Len(d) = 0
        BY <4>1
      <4>2. CASE Len(d) # 0
        <5>1. Len(d) \in DOMAIN d
          BY <2>1, <4>2
        <5> QED  BY <1>1, <2>1, <2>3, <2>5, <5>1
      <4> QED  BY <4>1, <4>2
    <3> QED  BY <2>1, <2>2, <3>1
  <2>7. HasByStage(s)'
    BY <1>2, <2>2 DEF HasByStage
  <2>8. InTwoParts(s)' /\ Resumed(s)' /\ RowsAhead(s)'
    <3>1. delivered'[s] = d /\ since'[s] = since[s]
      BY <1>2 DEF d
    <3> QED  BY <2>1, <2>2, <2>3, <2>4, <2>5, <3>1 DEF InTwoParts, Resumed, RowsAhead
  <2>9. MessagesAhead(s)'
    <3>1. delivered'[s] = d /\ channel'[s] = <<>>
      BY <1>2, <2>2 DEF d
    <3> QED  BY <1>0, <1>2, <2>2, <2>5, <3>1, DOMAIN <<>> = {} DEF MessagesAhead
  <2>10. NothingLost(s)'
    <3>1. \A e \in Event : ~(emitted < e /\ e <= Published)
      BY <1>1 DEF Event, Published
    <3>2. \A e \in table : since[s] < e /\ e <= readAt[s] => e \in ToSet(d)
      BY <1>1, <1>2, DOMAIN <<>> = {} DEF StreamInvariant, NothingLost, ToSet, d
    <3>3. Published' = Published /\ delivered'[s] = d
      BY <1>2 DEF Published, d
    <3> QED  BY <1>2, <2>2, <3>1, <3>2, <3>3 DEF NothingLost
  <2>11. Ends(s)'
    BY <1>1, <1>2 DEF StreamInvariant, Ends, IsCompletion
  <2>12. since'[s] <= emitted' /\ readAt'[s] <= emitted' /\ subscribedAt'[s] <= emitted'
    BY <1>0, <1>1, <1>2, <2>2, <2>3
  <2> QED  BY <1>4, <2>6, <2>7, <2>8, <2>9, <2>10, <2>11, <2>12 DEF StreamInvariant
<1> QED  BY <1>3, <1>4

\* A stream that breaks off keeps what it was sent.
LEMMA DropKeeps ==
    ASSUME Invariant, NEW s \in Stream, Drop(s), NEW t \in Stream
    PROVE  StreamInvariant(t)'
<1>1. StreamInvariant(t) /\ DOMAIN stage = Stream
  BY DEF Invariant, TypeOK
<1>2. /\ stage[s] \in {"replaying", "listening"} /\ stage' = [stage EXCEPT ![s] = "dropped"]
      /\ UNCHANGED <<completes, emitted, publishing, table, unpublished, since, replay, channel,
                     delivered, readAt, handover, subscribedAt>>
  BY DEF Drop, emitter
<1>3. CASE t # s
  BY <1>1, <1>2, <1>3, OthersKeep
<1>4. CASE t = s
  <2>1. stage'[s] = "dropped"
    BY <1>1, <1>2
  <2> QED
    BY <1>1, <1>2, <1>4, <2>1 DEF StreamInvariant, HasByStage, InTwoParts, Resumed, RowsAhead,
       MessagesAhead, NothingLost, Ends, IsCompletion
<1> QED  BY <1>3, <1>4

\* What the streams share with passing on an event, from the table or the channel:
\* an event that is later than those of its part, on a stream that is open.
LEMMA DeliverKeeps ==
    ASSUME NEW s \in Stream, NEW e \in Event, Deliver(s, e),
           stage[s] \in {"replaying", "listening"}, DOMAIN stage = Stream, DOMAIN delivered = Stream,
           delivered[s] \in Seq(Event), handover[s] \in Nat, subscribedAt[s] \in Nat,
           UNCHANGED <<completes, since, handover, subscribedAt>>,
           StreamInvariant(s), subscribedAt[s] <= e,
           since[s] < e \/ since[s] <= subscribedAt[s],
           \A i \in DOMAIN delivered[s] : handover[s] < i => delivered[s][i] < e
    PROVE  /\ delivered'[s] \in Seq(Event)
           /\ DOMAIN delivered'[s] = DOMAIN delivered[s] \cup {Len(delivered[s]) + 1}
           /\ \A i \in DOMAIN delivered[s] : delivered'[s][i] = delivered[s][i]
           /\ delivered'[s][Len(delivered[s]) + 1] = e
           /\ ToSet(delivered'[s]) = ToSet(delivered[s]) \cup {e}
           /\ stage'[s] = IF IsCompletion(e) THEN "closed" ELSE stage[s]
           /\ InTwoParts(s)' /\ Resumed(s)' /\ Ends(s)'
<1> DEFINE d == delivered[s]
           n == Len(delivered[s]) + 1
<1>1. delivered'[s] = Append(d, e)
  BY DEF Deliver
<1>2. /\ Append(d, e) \in Seq(Event)
      /\ Len(Append(d, e)) = n
      /\ DOMAIN Append(d, e) = DOMAIN d \cup {n}
      /\ \A i \in DOMAIN d : Append(d, e)[i] = d[i]
      /\ Append(d, e)[n] = e
      /\ ToSet(Append(d, e)) = ToSet(d) \cup {e}
  BY AppendAdds
<1>3. Len(d) \in Nat /\ n = Len(d) + 1 /\ DOMAIN d = 1 .. Len(d)
  BY EventsAreNumbers
<1>4. stage'[s] = IF IsCompletion(e) THEN "closed" ELSE stage[s]
  BY DEF Deliver
<1> HIDE DEF d, n
<1>5. InTwoParts(s)'
  <2>1. /\ handover[s] <= Len(d)
        /\ \A i, j \in DOMAIN d : i < j /\ (j <= handover[s] \/ handover[s] < i) => d[i] < d[j]
        /\ \A i \in DOMAIN d : IF i <= handover[s] THEN d[i] <= subscribedAt[s]
                                                   ELSE subscribedAt[s] <= d[i]
        /\ \A i \in DOMAIN d : handover[s] < i => d[i] < e
    BY DEF StreamInvariant, InTwoParts, d
  <2> DEFINE q == delivered'[s]
  <2>2. /\ DOMAIN q = DOMAIN d \cup {n} /\ Len(q) = n /\ q[n] = e
        /\ \A i \in DOMAIN d : q[i] = d[i]
    BY <1>1, <1>2
  <2> HIDE DEF q
  <2>3. handover[s] <= Len(q) /\ ~(n <= handover[s])
    BY <1>3, <2>1, <2>2
  <2>4. \A i, j \in DOMAIN q : i < j /\ (j <= handover[s] \/ handover[s] < i) => q[i] < q[j]
    BY <1>3, <2>1, <2>2, <2>3
  <2>5. \A i \in DOMAIN q : IF i <= handover[s] THEN q[i] <= subscribedAt[s]
                                                ELSE subscribedAt[s] <= q[i]
    BY <1>3, <2>1, <2>2, <2>3
  <2> QED  BY <2>3, <2>4, <2>5 DEF InTwoParts, q
<1>6. Ends(s)'
  <2>1. \A i \in DOMAIN d : ~IsCompletion(d[i])
    BY DEF StreamInvariant, Ends, d
  <2>2. \A f : IsCompletion(f)' <=> IsCompletion(f)
    BY DEF IsCompletion
  <2>3. Append(d, e) # <<>> /\ Last(Append(d, e)) = e
    BY <1>2, <1>3, EmptySeq DEF Last
  <2> QED  BY <1>1, <1>2, <1>4, <2>1, <2>2, <2>3 DEF Ends
<1>7. Resumed(s)'
  <2>1. /\ handover[s] <= Len(d)
        /\ \A i \in DOMAIN d : since[s] < d[i] \/ (handover[s] < i /\ since[s] <= subscribedAt[s])
    BY DEF StreamInvariant, InTwoParts, Resumed, d
  <2>2. handover[s] < n
    BY <1>3, <2>1
  <2> QED  BY <1>1, <1>2, <2>1, <2>2 DEF Resumed
<1> QED  BY <1>1, <1>2, <1>4, <1>5, <1>6, <1>7 DEF d, n

\* A row passed on.
LEMMA ReplayKeeps ==
    ASSUME Invariant, NEW s \in Stream, Replay(s), NEW t \in Stream
    PROVE  StreamInvariant(t)' /\ delivered'[t] \in Seq(Event) /\ replay'[t] \in Seq(Event)
<1> USE LengthAssumption
<1> DEFINE q == replay[s]
           e == Head(replay[s])
           d == delivered[s]
           n == Len(delivered[s]) + 1
<1>1. /\ StreamInvariant(t) /\ StreamInvariant(s) /\ emitted \in Nat
      /\ DOMAIN stage = Stream /\ DOMAIN delivered = Stream /\ DOMAIN replay = Stream
      /\ readAt[s] \in Nat
  BY DEF Invariant, TypeOK
<1>2. delivered[t] \in Seq(Event) /\ replay[t] \in Seq(Event) /\ d \in Seq(Event) /\ q \in Seq(Event)
  BY DEF Invariant, TypeOK
<1>3. /\ stage[s] = "replaying" /\ q # <<>> /\ Deliver(s, e)
      /\ replay' = [replay EXCEPT ![s] = Tail(q)]
      /\ UNCHANGED <<completes, emitted, publishing, table, unpublished, since, channel, readAt,
                     handover, subscribedAt>>
  BY DEF Replay, emitter
<1>4. CASE t # s
  <2>1. stage'[t] = stage[t] /\ delivered'[t] = delivered[t] /\ replay'[t] = replay[t]
    BY <1>1, <1>3, <1>4 DEF Deliver
  <2> QED  BY <1>1, <1>2, <1>3, <2>1, OthersKeep
<1>5. CASE t = s
  <2>1. /\ e \in Event /\ Tail(q) \in Seq(Event)
        /\ 1 \in DOMAIN q /\ e = q[1]
        /\ \A k \in DOMAIN Tail(q) : k + 1 \in DOMAIN q /\ Tail(q)[k] = q[k + 1]
        /\ ToSet(q) = {e} \cup ToSet(Tail(q))
    BY <1>2, <1>3, HeadAndTail
  <2>2. handover[s] = 0 /\ subscribedAt[s] = 0 /\ channel[s] = <<>> /\ replay'[s] = Tail(q)
    BY <1>1, <1>3 DEF StreamInvariant, HasByStage
  <2>3. /\ Len(d) \in Nat /\ DOMAIN d = 1 .. Len(d) /\ n = Len(d) + 1
        /\ \A i \in DOMAIN d : d[i] \in Nat
        /\ \A k \in DOMAIN q : q[k] \in Nat
        /\ DOMAIN q \subseteq Nat /\ DOMAIN Tail(q) \subseteq Nat \ {0} /\ e \in Nat \ {0}
    <3>1. d \in Seq(Event) /\ q \in Seq(Event) /\ Tail(q) \in Seq(Event)
      BY <1>2, <2>1
    <3>2. Len(d) \in Nat /\ DOMAIN d = 1 .. Len(d) /\ \A i \in DOMAIN d : d[i] \in Nat
      BY <3>1, EventsAreNumbers
    <3>3. Len(q) \in Nat /\ DOMAIN q = 1 .. Len(q) /\ \A k \in DOMAIN q : q[k] \in Nat \ {0}
      BY <3>1, EventsAreNumbers
    <3>4. Len(Tail(q)) \in Nat /\ DOMAIN Tail(q) = 1 .. Len(Tail(q))
      BY <3>1, EventsAreNumbers
    <3>5. e \in Nat \ {0}
      BY <2>1, <3>3
    <3>6. n = Len(d) + 1
      OBVIOUS
    <3> HIDE DEF d, n, q, e
    <3> QED  BY <3>2, <3>3, <3>4, <3>5, <3>6
  <2> HIDE DEF q, e, d, n
  <2>4. /\ \A i \in DOMAIN d : i <= d[i] /\ d[i] <= readAt[s] /\ since[s] < d[i]
        /\ \A k \in DOMAIN q : q[k] <= readAt[s] /\ since[s] < q[k]
        /\ \A i \in DOMAIN d, k \in DOMAIN q : d[i] < q[k]
        /\ \A k, l \in DOMAIN q : k < l => q[k] < q[l]
    BY <1>1, <1>3 DEF StreamInvariant, RowsAhead, q, d
  <2>5. /\ delivered'[s] \in Seq(Event)
        /\ DOMAIN delivered'[s] = DOMAIN d \cup {n}
        /\ \A i \in DOMAIN d : delivered'[s][i] = d[i]
        /\ delivered'[s][n] = e
        /\ ToSet(delivered'[s]) = ToSet(d) \cup {e}
        /\ stage'[s] = IF IsCompletion(e) THEN "closed" ELSE stage[s]
        /\ InTwoParts(s)' /\ Resumed(s)' /\ Ends(s)'
    <3>1. subscribedAt[s] <= e /\ since[s] < e /\ \A i \in DOMAIN d : handover[s] < i => d[i] < e
      BY <2>1, <2>2, <2>3, <2>4
    <3>2. handover[s] \in Nat /\ subscribedAt[s] \in Nat
      BY <2>2
    <3> QED  BY <1>1, <1>2, <1>3, <2>1, <3>1, <3>2, DeliverKeeps DEF d, n
  <2>6. HasByStage(s)'
    BY <1>3, <2>2, <2>5 DEF HasByStage
  <2>7. RowsAhead(s)'
    <3> DEFINE dd == delivered'[s]
               qq == replay'[s]
    <3>1. /\ DOMAIN dd = DOMAIN d \cup {n} /\ dd[n] = e /\ \A i \in DOMAIN d : dd[i] = d[i]
          /\ \A k \in DOMAIN qq : k + 1 \in DOMAIN q /\ qq[k] = q[k + 1] /\ k \in Nat \ {0}
          /\ readAt'[s] = readAt[s]
      BY <1>3, <2>1, <2>2, <2>3, <2>5
    <3>2. n <= e
      <4>1. CASE Len(d) = 0
        BY <2>3, <4>1
      <4>2. CASE Len(d) # 0
        <5>1. Len(d) \in DOMAIN d
          BY <2>3, <4>2
        <5>2. Len(d) <= d[Len(d)] /\ d[Len(d)] < e /\ d[Len(d)] \in Nat
          BY <2>1, <2>3, <2>4, <5>1
        <5> QED  BY <2>3, <5>2
      <4> QED  BY <4>1, <4>2
    <3> HIDE DEF dd, qq
    <3>3. \A i \in DOMAIN dd : i <= dd[i] /\ dd[i] <= readAt[s] /\ since[s] < dd[i]
      BY <2>1, <2>4, <3>1, <3>2
    <3>4. \A k \in DOMAIN qq : qq[k] <= readAt[s] /\ since[s] < qq[k] /\ e < qq[k]
      BY <2>1, <2>3, <2>4, <3>1
    <3>5. \A i \in DOMAIN dd, k \in DOMAIN qq : dd[i] < qq[k]
      BY <2>4, <3>1, <3>4
    <3>6. \A k, l \in DOMAIN qq : k < l => qq[k] < qq[l]
      BY <2>4, <3>1
    <3> QED  BY <1>3, <3>1, <3>3, <3>4, <3>5, <3>6 DEF RowsAhead, dd, qq
  <2>8. MessagesAhead(s)'
    BY <1>3, <2>5 DEF MessagesAhead
  <2>9. NothingLost(s)'
    <3>1. /\ ToSet(delivered'[s]) \cup ToSet(replay'[s]) = ToSet(d) \cup ToSet(q)
          /\ ToSet(d) \subseteq ToSet(delivered'[s])
      BY <2>1, <2>2, <2>5
    <3>2. \A f \in table : since[s] < f /\ f <= readAt[s] => f \in ToSet(d) \cup ToSet(q)
      BY <1>1, <1>3 DEF StreamInvariant, NothingLost, d, q
    <3>3. CASE ~IsCompletion(e)
      <4>1. stage'[s] = "replaying"
        BY <1>3, <2>5, <3>3
      <4> QED  BY <1>3, <3>1, <3>2, <4>1 DEF NothingLost
    <3>4. CASE IsCompletion(e)
      <4>1. stage'[s] = "closed" /\ e = Completion
        BY <2>5, <3>4 DEF IsCompletion
      <4>2. e <= readAt[s]
        BY <2>1, <2>4
      <4>3. ASSUME NEW f \in Event, since[s] < f, f < Completion, f \notin ToSet(d)
            PROVE  f <= readAt[s] /\ f \notin table
        <5>1. f \in Nat
          BY DEF Event
        <5>2. f <= readAt[s]
          BY <1>1, <2>3, <4>1, <4>2, <4>3, <5>1
        <5>3. \A k \in DOMAIN q : q[k] = e \/ e < q[k]
          BY <2>1, <2>3, <2>4
        <5>4. f \notin ToSet(q)
          BY <2>3, <4>1, <4>3, <5>1, <5>3 DEF ToSet
        <5> QED  BY <3>2, <4>3, <5>2, <5>4
      <4> QED  BY <1>3, <3>1, <4>1, <4>3 DEF NothingLost, Event, Completion
    <3> QED  BY <3>3, <3>4
  <2> QED
    BY <1>1, <1>3, <1>5, <2>1, <2>2, <2>5, <2>6, <2>7, <2>8, <2>9 DEF StreamInvariant
<1> QED  BY <1>4, <1>5

\* A message passed on.
LEMMA ListenKeeps ==
    ASSUME Invariant, NEW s \in Stream, Listen(s), NEW t \in Stream
    PROVE  StreamInvariant(t)' /\ delivered'[t] \in Seq(Event) /\ channel'[t] \in Seq(Event)
<1> USE LengthAssumption
<1> DEFINE q == channel[s]
           e == Head(channel[s])
           d == delivered[s]
           n == Len(delivered[s]) + 1
<1>1. /\ StreamInvariant(t) /\ StreamInvariant(s) /\ emitted \in Nat
      /\ DOMAIN stage = Stream /\ DOMAIN delivered = Stream /\ DOMAIN channel = Stream
      /\ handover[s] \in Nat /\ subscribedAt[s] \in Nat /\ readAt[s] \in Nat
      /\ table \subseteq Event
  BY DEF Invariant, TypeOK
<1>2. delivered[t] \in Seq(Event) /\ channel[t] \in Seq(Event) /\ d \in Seq(Event) /\ q \in Seq(Event)
  BY DEF Invariant, TypeOK
<1>3. /\ stage[s] = "listening" /\ q # <<>> /\ Deliver(s, e)
      /\ channel' = [channel EXCEPT ![s] = Tail(q)]
      /\ UNCHANGED <<completes, emitted, publishing, table, unpublished, since, replay, readAt,
                     handover, subscribedAt>>
  BY DEF Listen, emitter
<1>4. CASE t # s
  <2>1. stage'[t] = stage[t] /\ delivered'[t] = delivered[t] /\ channel'[t] = channel[t]
    BY <1>1, <1>3, <1>4 DEF Deliver
  <2> QED  BY <1>1, <1>2, <1>3, <2>1, OthersKeep
<1>5. CASE t = s
  <2>1. /\ e \in Event /\ Tail(q) \in Seq(Event)
        /\ 1 \in DOMAIN q /\ e = q[1]
        /\ \A k \in DOMAIN Tail(q) : k + 1 \in DOMAIN q /\ Tail(q)[k] = q[k + 1]
        /\ ToSet(q) = {e} \cup ToSet(Tail(q))
    BY <1>2, <1>3, HeadAndTail
  <2>2. replay[s] = <<>> /\ channel'[s] = Tail(q)
    BY <1>1, <1>3 DEF StreamInvariant, HasByStage
  <2>3. /\ \A k \in DOMAIN q : q[k] \in Nat
        /\ DOMAIN Tail(q) \subseteq Nat \ {0}
    BY <1>2, <2>1, EventsAreNumbers
  <2> HIDE DEF q, e, d, n
  <2>4. /\ since[s] <= subscribedAt[s]
        /\ \A k \in DOMAIN q : subscribedAt[s] <= q[k] /\ q[k] <= Published
        /\ \A i \in DOMAIN d : handover[s] < i => d[i] <= Published
        /\ \A i \in DOMAIN d, k \in DOMAIN q : handover[s] < i => d[i] < q[k]
        /\ \A k, l \in DOMAIN q : k < l => q[k] < q[l]
    BY <1>1, <1>3 DEF StreamInvariant, MessagesAhead, q, d
  <2>5. /\ delivered'[s] \in Seq(Event)
        /\ DOMAIN delivered'[s] = DOMAIN d \cup {n}
        /\ \A i \in DOMAIN d : delivered'[s][i] = d[i]
        /\ delivered'[s][n] = e
        /\ ToSet(delivered'[s]) = ToSet(d) \cup {e}
        /\ stage'[s] = IF IsCompletion(e) THEN "closed" ELSE stage[s]
        /\ InTwoParts(s)' /\ Resumed(s)' /\ Ends(s)'
    <3>1. subscribedAt[s] <= e /\ \A i \in DOMAIN d : handover[s] < i => d[i] < e
      BY <2>1, <2>4
    <3> QED  BY <1>1, <1>2, <1>3, <2>1, <2>4, <3>1, DeliverKeeps DEF d, n
  <2>6. HasByStage(s)' /\ RowsAhead(s)'
    BY <1>3, <2>2, <2>5 DEF HasByStage, RowsAhead
  <2>7. MessagesAhead(s)'
    <3> DEFINE dd == delivered'[s]
               qq == channel'[s]
    <3>1. /\ DOMAIN dd = DOMAIN d \cup {n} /\ dd[n] = e /\ \A i \in DOMAIN d : dd[i] = d[i]
          /\ \A k \in DOMAIN qq : k + 1 \in DOMAIN q /\ qq[k] = q[k + 1] /\ k \in Nat \ {0}
          /\ since'[s] = since[s] /\ Published' = Published /\ subscribedAt'[s] = subscribedAt[s] /\ handover'[s] = handover[s]
      BY <1>3, <2>1, <2>2, <2>3, <2>5 DEF Published
    <3> HIDE DEF dd, qq
    <3>2. \A k \in DOMAIN qq : subscribedAt[s] <= qq[k] /\ qq[k] <= Published /\ e < qq[k]
      BY <2>1, <2>3, <2>4, <3>1
    <3>3. \A i \in DOMAIN dd : handover[s] < i => dd[i] <= Published
      BY <2>1, <2>4, <3>1
    <3>4. \A i \in DOMAIN dd, k \in DOMAIN qq : handover[s] < i => dd[i] < qq[k]
      BY <2>4, <3>1, <3>2
    <3>5. \A k, l \in DOMAIN qq : k < l => qq[k] < qq[l]
      BY <2>4, <3>1
    <3> QED  BY <2>4, <3>1, <3>2, <3>3, <3>4, <3>5 DEF MessagesAhead, dd, qq
  <2>8. NothingLost(s)'
    <3>1. /\ ToSet(delivered'[s]) \cup ToSet(channel'[s]) = ToSet(d) \cup ToSet(q)
          /\ ToSet(d) \subseteq ToSet(delivered'[s])
      BY <2>1, <2>2, <2>5
    <3>2. /\ \A f \in table : since[s] < f /\ f <= readAt[s] => f \in ToSet(d)
          /\ \A f \in Event \ unpublished : subscribedAt[s] < f /\ f <= Published =>
               f \in ToSet(d) \cup ToSet(q)
      BY <1>1, <1>3 DEF StreamInvariant, NothingLost, d, q
    <3>3. Published' = Published
      BY <1>3 DEF Published
    <3>4. CASE ~IsCompletion(e)
      <4>1. stage'[s] = "listening"
        BY <1>3, <2>5, <3>4
      <4> QED  BY <1>3, <3>1, <3>2, <3>3, <4>1 DEF NothingLost, Event
    <3>5. CASE IsCompletion(e)
      <4>1. stage'[s] = "closed" /\ e = Completion
        BY <2>5, <3>5 DEF IsCompletion
      <4>2. e <= Published /\ e \in Nat /\ Published \in Int
        BY <1>1, <2>1, <2>3, <2>4 DEF Published
      <4>3. ASSUME NEW f \in Event, since[s] < f, f < Completion, f \notin ToSet(d)
            PROVE  \/ f <= readAt[s] /\ f \notin table
                   \/ readAt[s] < f /\ f <= subscribedAt[s]
                   \/ subscribedAt[s] < f /\ f \in unpublished
        <5> HIDE DEF Published
        <5>1. f \in Nat /\ f <= Published
          BY <4>1, <4>2, <4>3 DEF Event
        <5>2. \A k \in DOMAIN q : q[k] = e \/ e < q[k]
          BY <2>1, <2>3, <2>4
        <5>3. f \notin ToSet(q)
          BY <2>3, <4>1, <4>2, <4>3, <5>1, <5>2 DEF ToSet
        <5> QED  BY <1>1, <3>2, <4>3, <5>1, <5>3
      <4> QED  BY <1>3, <3>1, <4>1, <4>3 DEF NothingLost, Event, Completion
    <3> QED  BY <3>4, <3>5
  <2> QED
    BY <1>1, <1>3, <1>5, <2>1, <2>2, <2>5, <2>6, <2>7, <2>8 DEF StreamInvariant
<1> QED  BY <1>4, <1>5

-----------------------------------------------------------------------------
(* The theorems *)

LEMMA InvariantInitially == Init => Invariant
<1> SUFFICES ASSUME Init PROVE Invariant
  OBVIOUS
<1> USE LengthAssumption
<1>1. emitted = 0 /\ publishing = FALSE /\ table = {}
  BY DEF Init
<1>2. ASSUME NEW s \in Stream
      PROVE  /\ stage[s] = "new" /\ replay[s] = <<>> /\ channel[s] = <<>> /\ delivered[s] = <<>>
             /\ since[s] = 0 /\ readAt[s] = 0 /\ handover[s] = 0 /\ subscribedAt[s] = 0
  BY DEF Init
<1>3. <<>> \in Seq(Event) /\ Len(<<>>) = 0 /\ DOMAIN <<>> = {}
  OBVIOUS
<1>4. TypeOK
  <2>1. /\ replay \in [Stream -> Seq(Event)] /\ channel \in [Stream -> Seq(Event)]
        /\ delivered \in [Stream -> Seq(Event)]
    BY <1>3 DEF Init
  <2>2. 0 \in 0 .. Length
    OBVIOUS
  <2> QED  BY <2>1, <2>2 DEF Init, TypeOK
<1>5. Stored
  BY <1>1 DEF Stored
<1>6. ASSUME NEW s \in Stream PROVE StreamInvariant(s)
  <2>1. /\ HasByStage(s) /\ InTwoParts(s) /\ Resumed(s) /\ RowsAhead(s) /\ MessagesAhead(s)
        /\ NothingLost(s) /\ Ends(s)
    BY <1>2, <1>3 DEF HasByStage, InTwoParts, Resumed, RowsAhead, MessagesAhead, NothingLost, Ends
  <2> QED  BY <1>1, <1>2, <2>1 DEF StreamInvariant
<1> QED  BY <1>4, <1>5, <1>6 DEF Invariant

LEMMA InvariantKept == Invariant /\ [Next]_vars => Invariant'
<1> SUFFICES ASSUME Invariant, [Next]_vars PROVE Invariant'
  OBVIOUS
<1> USE LengthAssumption
<1>1. TypeOK /\ Stored /\ emitted \in 0 .. Length
  BY DEF Invariant, TypeOK
<1>2. CASE Persist
  <2> DEFINE n == emitted + 1
  <2>1. /\ emitted' = n /\ ~publishing /\ publishing' = TRUE /\ emitted < Length
        /\ table' \in {table, table \cup {n}}
        /\ UNCHANGED <<completes, unpublished, stage, since, replay, channel, delivered,
                       readAt, handover, subscribedAt>>
    BY <1>2 DEF Persist
  <2>2. n \in 0 .. Length /\ n \in Event /\ n > 0 /\ 1 .. n = (1 .. emitted) \cup {n}
    BY <1>1, <2>1 DEF Event
  <2> HIDE DEF n
  <2>3. TypeOK'
    <3>1. table' \subseteq Event
      BY <1>1, <2>1, <2>2 DEF TypeOK
    <3> QED  BY <1>1, <2>1, <2>2, <3>1 DEF TypeOK, Event
  <2>4. Stored'
    <3>1. table' \subseteq 1 .. n
      BY <1>1, <2>1, <2>2 DEF Stored
    <3> QED  BY <2>1, <2>2, <3>1 DEF Stored
  <2> QED  BY <1>2, <2>3, <2>4, PersistKeeps DEF Invariant
<1>3. CASE Publish
  <2>1. /\ UNCHANGED <<completes, emitted, table, stage, since, replay, delivered,
                       readAt, handover, subscribedAt>>
        /\ publishing' = FALSE /\ unpublished' \in {unpublished, unpublished \cup {emitted}}
    BY <1>3 DEF Publish
  <2>2. emitted \in Event
    BY <1>1, <1>3 DEF Publish, Stored, Event
  <2>3. channel' \in [Stream -> Seq(Event)]
    <3>1. ASSUME NEW s \in Stream PROVE channel[s] \in Seq(Event) /\ Append(channel[s], emitted) \in Seq(Event)
      BY <1>1, <2>2, AppendAdds DEF TypeOK
    <3> QED  BY <1>1, <1>3, <3>1 DEF Publish, Broadcast, TypeOK
  <2>4. TypeOK'
    BY <1>1, <2>1, <2>2, <2>3 DEF TypeOK, Event
  <2>5. Stored'
    BY <1>1, <2>1 DEF Stored
  <2> QED  BY <1>3, <2>4, <2>5, PublishKeeps DEF Invariant
<1>4. ASSUME NEW s \in Stream, NEW last \in 0 .. emitted, Connect(s, last) PROVE Invariant'
  <2>1. \A t \in Stream : StreamInvariant(t)' /\ replay'[t] \in Seq(Event)
    BY <1>4, ConnectKeeps
  <2>2. DOMAIN replay' = Stream /\ replay' = [t \in DOMAIN replay' |-> replay'[t]]
    BY <1>1, <1>4 DEF Connect, TypeOK
  <2>3. replay' \in [Stream -> Seq(Event)]
    BY <2>1, <2>2
  <2>4. TypeOK'
    BY <1>1, <1>4, <2>3 DEF TypeOK, Connect, Event, emitter
  <2>5. Stored'
    BY <1>1, <1>4 DEF Stored, Connect, emitter
  <2> QED  BY <2>1, <2>4, <2>5 DEF Invariant
<1>5. ASSUME NEW s \in Stream, Replay(s) PROVE Invariant'
  <2>1. \A t \in Stream : StreamInvariant(t)' /\ delivered'[t] \in Seq(Event) /\ replay'[t] \in Seq(Event)
    BY <1>5, ReplayKeeps
  <2>2. /\ DOMAIN replay' = Stream /\ replay' = [t \in DOMAIN replay' |-> replay'[t]]
        /\ DOMAIN delivered' = Stream /\ delivered' = [t \in DOMAIN delivered' |-> delivered'[t]]
    BY <1>1, <1>5 DEF Replay, Deliver, TypeOK
  <2>3. replay' \in [Stream -> Seq(Event)] /\ delivered' \in [Stream -> Seq(Event)]
    BY <2>1, <2>2
  <2>4. TypeOK'
    BY <1>1, <1>5, <2>3 DEF TypeOK, Replay, Deliver, Event, emitter
  <2>5. Stored'
    BY <1>1, <1>5 DEF Stored, Replay, emitter
  <2> QED  BY <2>1, <2>4, <2>5 DEF Invariant
<1>6. ASSUME NEW s \in Stream, Subscribe(s) PROVE Invariant'
  <2>1. \A t \in Stream : StreamInvariant(t)' /\ handover'[t] \in 0 .. Length
    BY <1>6, SubscribeKeeps
  <2>2. DOMAIN handover' = Stream /\ handover' = [t \in DOMAIN handover' |-> handover'[t]]
    BY <1>1, <1>6 DEF Subscribe, TypeOK
  <2>3. handover' \in [Stream -> 0 .. Length]
    BY <2>1, <2>2
  <2>4. TypeOK'
    BY <1>1, <1>6, <2>3 DEF TypeOK, Subscribe, Event, emitter
  <2>5. Stored'
    BY <1>1, <1>6 DEF Stored, Subscribe, emitter
  <2> QED  BY <2>1, <2>4, <2>5 DEF Invariant
<1>7. ASSUME NEW s \in Stream, Listen(s) PROVE Invariant'
  <2>1. \A t \in Stream : StreamInvariant(t)' /\ delivered'[t] \in Seq(Event) /\ channel'[t] \in Seq(Event)
    BY <1>7, ListenKeeps
  <2>2. /\ DOMAIN channel' = Stream /\ channel' = [t \in DOMAIN channel' |-> channel'[t]]
        /\ DOMAIN delivered' = Stream /\ delivered' = [t \in DOMAIN delivered' |-> delivered'[t]]
    BY <1>1, <1>7 DEF Listen, Deliver, TypeOK
  <2>3. channel' \in [Stream -> Seq(Event)] /\ delivered' \in [Stream -> Seq(Event)]
    BY <2>1, <2>2
  <2>4. TypeOK'
    BY <1>1, <1>7, <2>3 DEF TypeOK, Listen, Deliver, Event, emitter
  <2>5. Stored'
    BY <1>1, <1>7 DEF Stored, Listen, emitter
  <2> QED  BY <2>1, <2>4, <2>5 DEF Invariant
<1>8. ASSUME NEW s \in Stream, Drop(s) PROVE Invariant'
  <2>1. \A t \in Stream : StreamInvariant(t)'
    BY <1>8, DropKeeps
  <2>2. TypeOK'
    BY <1>1, <1>8 DEF TypeOK, Drop, Event, emitter
  <2>3. Stored'
    BY <1>1, <1>8 DEF Stored, Drop, emitter
  <2> QED  BY <2>1, <2>2, <2>3 DEF Invariant
<1>10. ASSUME NEW s \in Stream, ConnectUnread(s) PROVE Invariant'
  <2>1. \A t \in Stream : StreamInvariant(t)'
    BY <1>10, ConnectUnreadKeeps
  <2>2. TypeOK'
    BY <1>1, <1>10 DEF TypeOK, ConnectUnread, Event, emitter
  <2>3. Stored'
    BY <1>1, <1>10 DEF Stored, ConnectUnread, emitter
  <2> QED  BY <2>1, <2>2, <2>3 DEF Invariant
<1>9. CASE UNCHANGED vars
  <2>1. UNCHANGED <<completes, emitted, publishing, table, unpublished, stage, since, replay,
                    channel, delivered, readAt, handover, subscribedAt>>
    BY <1>9 DEF vars, emitter
  <2>2. TypeOK' /\ Stored'
    BY <1>1, <2>1 DEF TypeOK, Stored, Event
  <2>3. ASSUME NEW t \in Stream PROVE StreamInvariant(t)'
    BY <2>1, OthersKeep DEF Invariant
  <2> QED  BY <2>2, <2>3 DEF Invariant
<1> QED
  BY <1>2, <1>3, <1>4, <1>5, <1>6, <1>7, <1>8, <1>9, <1>10 DEF Next, Generate

\* The inductive invariant.
THEOREM InvariantHolds == Spec => []Invariant
<1>1. Init => Invariant
  BY InvariantInitially
<1>2. Invariant /\ [Next]_vars => Invariant'
  BY InvariantKept
<1> QED  BY <1>1, <1>2, PTL DEF Spec

\* Every variable holds a value of its kind, whatever the run emits.
THEOREM TypeCorrect == Spec => []TypeOK
<1>1. Invariant => TypeOK
  BY DEF Invariant
<1> QED  BY <1>1, InvariantHolds, PTL

\* A client is sent the events of a run of any length in their order, each of them once
\* and none from before its Last-Event-ID, but for the one being published at the
\* hand-over of its stream: the generator's replay, subscription and listening
\* (api/v1/session.py), with a table and a channel that may lose any event.
THEOREM OrderedStreamHolds == Spec => []OrderedStream
<1>1. Invariant => OrderedStream
  <2> SUFFICES ASSUME Invariant, NEW s \in Stream, NEW j \in DOMAIN delivered[s]
               PROVE  LET again == j = handover[s] + 1 /\ delivered[s][j] = subscribedAt[s]
                      IN /\ since[s] < delivered[s][j] \/ (again /\ delivered[s][j] = since[s])
                         /\ \A i \in DOMAIN delivered[s] :
                              i < j => \/ delivered[s][i] < delivered[s][j]
                                       \/ again /\ i = handover[s] /\ delivered[s][i] = delivered[s][j]
    BY DEF OrderedStream
  <2> DEFINE d == delivered[s]
             h == handover[s]
             x == subscribedAt[s]
             y == since[s]
             again == j = h + 1 /\ d[j] = x
  <2>1. Len(d) \in Nat /\ DOMAIN d = 1 .. Len(d) /\ \A k \in DOMAIN d : d[k] \in Nat
    BY EventsAreNumbers DEF Invariant, TypeOK
  <2>2. h \in Nat /\ x \in Nat /\ y \in Nat
    BY LengthAssumption DEF Invariant, TypeOK
  <2>3. /\ h <= Len(d)
        /\ \A k, l \in DOMAIN d : k < l /\ (l <= h \/ h < k) => d[k] < d[l]
        /\ \A k \in DOMAIN d : IF k <= h THEN d[k] <= x ELSE x <= d[k]
        /\ \A k \in DOMAIN d : y < d[k] \/ (h < k /\ y <= x)
    BY DEF Invariant, StreamInvariant, InTwoParts, Resumed
  <2>4. j \in DOMAIN d
    OBVIOUS
  <2> HIDE DEF d, h, x, y
  <2>5. ASSUME h < j, d[j] <= x PROVE j = h + 1 /\ d[j] = x
    <3>1. d[j] = x
      BY <2>1, <2>2, <2>3, <2>4, <2>5
    <3>2. ASSUME h + 1 < j PROVE FALSE
      <4>1. h + 1 \in DOMAIN d /\ x <= d[h + 1] /\ d[h + 1] < d[j]
        BY <2>1, <2>2, <2>3, <2>4, <2>5, <3>2
      <4> QED  BY <2>1, <2>2, <3>1, <4>1
    <3> QED  BY <2>1, <2>2, <2>4, <2>5, <3>1, <3>2
  <2>6. y < d[j] \/ (again /\ d[j] = y)
    <3>1. CASE y < d[j]
      BY <3>1
    <3>2. CASE ~(y < d[j])
      <4>1. h < j /\ y <= x /\ x <= d[j]
        BY <2>1, <2>2, <2>3, <2>4, <3>2
      <4>2. d[j] = x /\ d[j] = y
        BY <2>1, <2>2, <2>4, <3>2, <4>1
      <4> QED  BY <2>2, <2>5, <4>1, <4>2
    <3> QED  BY <3>1, <3>2
  <2>7. ASSUME NEW i \in DOMAIN d, i < j, ~(d[i] < d[j])
        PROVE  again /\ i = h /\ d[i] = d[j]
    <3>1. i <= h /\ h < j
      BY <2>1, <2>2, <2>3, <2>4, <2>7
    <3>2. d[i] = x /\ d[j] = x
      BY <2>1, <2>2, <2>3, <2>4, <2>7, <3>1
    <3>3. i = h
      <4>1. ASSUME i < h PROVE FALSE
        <5>1. h \in DOMAIN d /\ d[i] < d[h] /\ d[h] <= x
          BY <2>1, <2>2, <2>3, <2>4, <2>7, <3>1, <4>1
        <5> QED  BY <2>1, <2>2, <3>2, <5>1
      <4> QED  BY <2>1, <2>2, <2>7, <3>1, <4>1
    <3> QED  BY <2>2, <2>5, <3>1, <3>2, <3>3
  <2>8. \A i \in DOMAIN d : i < j => d[i] < d[j] \/ (again /\ i = h /\ d[i] = d[j])
    BY <2>7
  <2> QED  BY <2>6, <2>8 DEF d, h, x, y
<1> QED  BY <1>1, InvariantHolds, PTL

\* What a stream that listens or has closed was not sent was lost to its table's reading
\* by a failed write, to its subscription by a failed PUBLISH, or in between.
THEOREM MissedAtHandoverOnlyHolds == Spec => []MissedAtHandoverOnly
<1>1. Invariant => MissedAtHandoverOnly
  <2> SUFFICES ASSUME Invariant, NEW s \in Stream, NEW e \in Event,
                      since[s] < e, e \notin ToSet(delivered[s]),
                      \/ stage[s] = "closed" /\ e < Completion
                      \/ /\ stage[s] = "listening" /\ e \notin ToSet(channel[s])
                         /\ IF publishing THEN e < emitted ELSE e <= emitted
               PROVE  \/ e <= readAt[s] /\ e \notin table
                      \/ readAt[s] < e /\ e <= subscribedAt[s]
                      \/ subscribedAt[s] < e /\ e \in unpublished
    BY DEF MissedAtHandoverOnly
  <2>1. e \in Nat /\ readAt[s] \in Nat /\ subscribedAt[s] \in Nat /\ emitted \in Nat
    BY LengthAssumption DEF Invariant, TypeOK, Event
  <2>2. NothingLost(s)
    BY DEF Invariant, StreamInvariant
  <2>3. CASE stage[s] = "closed" /\ e < Completion
    BY <2>2, <2>3 DEF NothingLost
  <2>4. CASE /\ stage[s] = "listening" /\ e \notin ToSet(channel[s])
             /\ IF publishing THEN e < emitted ELSE e <= emitted
    <3>1. e <= Published
      BY <2>1, <2>4 DEF Published
    <3>2. /\ e \in table /\ e <= readAt[s] => e \in ToSet(delivered[s])
          /\ e \notin unpublished /\ subscribedAt[s] < e => e \in ToSet(delivered[s]) \cup ToSet(channel[s])
      BY <2>2, <2>4, <3>1 DEF NothingLost
    <3> QED  BY <2>1, <2>4, <3>2
  <2> QED  BY <2>3, <2>4
<1> QED  BY <1>1, InvariantHolds, PTL

\* A client's stream closes on plan_completed and on nothing else, and the events the
\* monitor node emits after it are never passed on behind it.
THEOREM CompletionClosesHolds == Spec => []CompletionCloses
<1>1. Invariant => CompletionCloses
  BY DEF Invariant, StreamInvariant, Ends, CompletionCloses
<1> QED  BY <1>1, InvariantHolds, PTL
=============================================================================
