---------------------------- MODULE LiveUpdatesProofs ----------------------------
(***************************************************************************)
(* Proofs about LiveUpdates for any poles and transformers and any number  *)
(* of changes and losses: the types, when the page polls, that no change   *)
(* is passed over in silence, and that the changes of a pole are a chain.  *)
(***************************************************************************)
EXTENDS LiveUpdates, BasicLemmas

-----------------------------------------------------------------------------
(* The invariants.                                                         *)

Fetch == [state : {"none", "asked", "read"}, read : 0..MaxVersion \cup {Nothing}]

(* Every change is one of the summary's; a record that is due was          *)
(* committed; and only a running server has the connection.                *)
ServerHolds ==
  /\ \A q \in Query : version[q] <= version[Records]
  /\ due <= version[Records]
  /\ attached => up

(* The flag, the queued flush and waiting changes go together: with a flag *)
(* that outlives its flush no change would be sent any more.               *)
FlushHolds ==
  /\ scheduled <=> flushes = 1
  /\ scheduled <=> \E d \in Dt : batches[d] # <<>>

(* The hook has called for polling since the last open, or has not yet.    *)
HookHolds ==
  /\ socket = "closed" => polling
  /\ socket = "open" => ~ polling /\ ~ notified
  /\ notified => polling

LiveInv == TypeOK /\ ServerHolds /\ FlushHolds /\ HookHolds

-----------------------------------------------------------------------------
(* A flush has something to send.                                          *)
LEMMA BatchesAreSent ==
  ASSUME batches \in [Dt -> Seq(PoleChange)]
  PROVE  /\ Batches \in Seq(Seq(PoleChange))
         /\ (\E d \in Dt : batches[d] # <<>>) => Batches # <<>>
<1> DEFINE S == {d \in Dt : batches[d] # <<>>}
           n == Cardinality(S)
           order == SetToSeq(S)
<1>1. IsFiniteSet(S)
  BY FS_Subset, LiveAssumption
<1>2. n \in Nat /\ ExistsBijection(1..n, S)
  BY <1>1, FS_CardinalityType
<1>3. \E f \in [1..n -> S] : IsInjective(f)
  BY <1>2 DEF ExistsBijection, Bijection, Injection, IsInjective
<1>4. order \in [1..n -> S]
  BY <1>3 DEF SetToSeq
<1>5. n = 0 <=> S = {}
  BY <1>1, FS_EmptySet
<1>6. Batches = [i \in DOMAIN order |-> batches[order[i]]]
  BY DEF Batches
<1> HIDE DEF S, n, order
<1>7. Batches \in [1..n -> Seq(PoleChange)]
  <2>1. \A i \in 1..n : batches[order[i]] \in Seq(PoleChange)
    BY <1>4 DEF S
  <2> QED BY <1>4, <1>6, <2>1
<1>8. Batches \in Seq(Seq(PoleChange)) /\ Len(Batches) = n
  BY <1>2, <1>7
<1> QED BY <1>5, <1>8 DEF S

-----------------------------------------------------------------------------
(* Sequences: the empty one, and an announcement that is appended.         *)
LEMMA EmptyIsSeq == ASSUME NEW S PROVE <<>> \in Seq(S)
OBVIOUS

LEMMA NotEmptyAfter ==
  ASSUME NEW S, NEW s \in Seq(S), NEW t \in Seq(S), t # <<>>
  PROVE  s \o t # <<>>
OBVIOUS

LEMMA AppendIsSeq ==
  ASSUME NEW S, NEW s \in Seq(S), NEW e \in S
  PROVE  Append(s, e) \in Seq(S) /\ Append(s, e) # <<>>
<1>1. Append(s, e) \in Seq(S)
  OBVIOUS
<1>2. Len(Append(s, e)) = Len(s) + 1 /\ Len(s) \in Nat
  OBVIOUS
<1>3. Len(<<>>) = 0
  OBVIOUS
<1>4. Append(s, e) # <<>>
  BY <1>2, <1>3
<1> QED BY <1>1, <1>4

(* The invariant holds at first.                                           *)
LEMMA LiveInvInit == Init => LiveInv
<1> SUFFICES ASSUME Init PROVE LiveInv
  OBVIOUS
<1> USE LiveAssumption
<1>1. /\ batches \in [Dt -> Seq(PoleChange)] /\ \A d \in Dt : batches[d] = <<>>
      /\ channel \in Seq(Seq(PoleChange))
      /\ live \in [Pole -> BOOLEAN]
  BY EmptyIsSeq DEF Init
<1>2. /\ fetch \in [Query -> Fetch]
      /\ view \in [Query -> 0..MaxVersion \cup {Nothing}]
      /\ excused \in [Query -> BOOLEAN]
      /\ selected \in Dt \cup {Nothing}
  BY DEF Init, Asked, NoFetch, Fetch
<1>3. /\ version \in [Query -> 0..MaxVersion]
      /\ \A q \in Query : version[q] = 0
      /\ Records \in Query
  BY DEF Init, Query
<1>4. /\ up = TRUE /\ due = 0 /\ scheduled = FALSE /\ flushes = 0
      /\ attached = FALSE /\ socket = "connecting" /\ notified = FALSE
      /\ polling = FALSE
  BY DEF Init
<1>5. TypeOK
  <2>1. due \in 0..MaxVersion /\ flushes \in 0..1
    BY <1>4
  <2>2. \A d \in Dt : batches[d] # <<>> => scheduled
    BY <1>1, Zenon
  <2> QED BY <1>1, <1>2, <1>3, <1>4, <2>1, <2>2 DEF TypeOK, Fetch
<1>6. ServerHolds /\ FlushHolds /\ HookHolds
  BY <1>1, <1>3, <1>4 DEF ServerHolds, FlushHolds, HookHolds
<1> QED BY <1>5, <1>6 DEF LiveInv

(* The versions after a change, which the summary always shows.            *)
LEMMA ChangesTypes ==
  ASSUME LiveInv, NEW queries, Records \in queries, Changes(queries)
  PROVE  /\ version' \in [Query -> 0..MaxVersion]
         /\ \A q \in Query : version'[q] <= version'[Records]
         /\ version'[Records] = version[Records] + 1
         /\ \A q \in Query \ queries : version'[q] = version[q]
<1>1. /\ version \in [Query -> 0..MaxVersion] /\ Records \in Query
      /\ \A q \in Query : version[q] <= version[Records]
      /\ MaxVersion \in Nat
  BY LiveAssumption DEF LiveInv, TypeOK, ServerHolds, Query
<1>2. version[Records] < MaxVersion
  BY DEF Changes
<1>3. version' = [q \in Query |->
                    IF q \in queries THEN version[q] + 1 ELSE version[q]]
  BY DEF Changes
<1>4. \A q \in Query : /\ version[q] \in 0..MaxVersion
                       /\ version[q] + 1 \in 0..MaxVersion
  BY <1>1, <1>2
<1> QED BY <1>1, <1>3, <1>4

(* The steps of the pole changes: the flag, the queue of flushes and the   *)
(* batches stay together when a change is published and when a flush runs. *)
LEMMA LiveInvPublish ==
  ASSUME LiveInv, NEW p \in Pole, PublishPoleStateTransition(p)
  PROVE  LiveInv'
<1> USE DEF LiveInv, PublishPoleStateTransition
<1>1. DtOf[p] \in Dt /\ live[p] \in BOOLEAN
  BY LiveAssumption DEF TypeOK
<1> DEFINE c == [pole |-> p, from |-> live[p], to |-> ~ live[p]]
<1>2. c \in PoleChange
  BY <1>1 DEF PoleChange
<1>3. batches' = [batches EXCEPT ![DtOf[p]] = Append(@, c)]
  OBVIOUS
<1> HIDE DEF c
<1>4. batches' \in [Dt -> Seq(PoleChange)] /\ batches'[DtOf[p]] # <<>>
  <2>1. batches \in [Dt -> Seq(PoleChange)]
    BY DEF TypeOK
  <2>2. Append(batches[DtOf[p]], c) \in Seq(PoleChange)
        /\ Append(batches[DtOf[p]], c) # <<>>
    BY <1>1, <1>2, <2>1, AppendIsSeq, Zenon
  <2> QED BY <1>1, <1>3, <2>1, <2>2
<1>5. live' \in [Pole -> BOOLEAN]
  BY DEF TypeOK
<1>6. scheduled' /\ flushes' = 1
  BY DEF FlushesWith, TypeOK, FlushHolds
<1>7. /\ version' \in [Query -> 0..MaxVersion] /\ due <= version'[Records]
      /\ \A q \in Query : version'[q] <= version'[Records]
  <2>1. /\ version' \in [Query -> 0..MaxVersion]
        /\ \A q \in Query : version'[q] <= version'[Records]
        /\ version'[Records] = version[Records] + 1
    BY ChangesTypes
  <2>2. /\ due \in Nat /\ version[Records] \in Nat /\ due <= version[Records]
    BY LiveAssumption DEF TypeOK, ServerHolds, Query
  <2> QED BY <2>1, <2>2
<1>8. TypeOK'
  BY <1>4, <1>5, <1>6, <1>7 DEF TypeOK, linkVars, hookVars, queryVars
<1>9. ServerHolds' /\ FlushHolds' /\ HookHolds'
  BY <1>1, <1>4, <1>6, <1>7
     DEF ServerHolds, FlushHolds, HookHolds, linkVars, hookVars,
         queryVars
<1> QED BY <1>8, <1>9

LEMMA LiveInvFlush ==
  ASSUME LiveInv, FlushPoleStateChanges
  PROVE  LiveInv'
<1> USE DEF LiveInv
<1>1. batches' \in [Dt -> Seq(PoleChange)] /\ \A d \in Dt : batches'[d] = <<>>
  BY DEF FlushPoleStateChanges
<1>2. /\ scheduled' = FALSE /\ flushes' = 0 /\ channel' = Sent(Batches)
      /\ UNCHANGED <<up, version, live, due, attached, hookVars, queryVars>>
  BY DEF FlushPoleStateChanges, TypeOK
<1>3. channel' \in Seq(Seq(PoleChange))
  <2>1. Batches \in Seq(Seq(PoleChange))
    BY BatchesAreSent DEF TypeOK
  <2>2. channel \in Seq(Seq(PoleChange))
    BY DEF TypeOK
  <2>3. CASE attached
    <3>1. channel' = channel \o Batches
      BY <1>2, <2>3 DEF Sent
    <3> QED BY <2>1, <2>2, <3>1
  <2>4. CASE ~ attached
    BY <1>2, <2>2, <2>4 DEF Sent
  <2> QED BY <2>3, <2>4
<1>4. TypeOK'
  <2>1. \A d \in Dt : batches'[d] # <<>> => scheduled'
    BY <1>1, Zenon
  <2>2. batches' \in [Dt -> Seq(PoleChange)]
    BY <1>1, Zenon
  <2>3. /\ scheduled' \in BOOLEAN /\ flushes' = 0
        /\ UNCHANGED <<up, version, live, due, attached, hookVars, queryVars>>
    BY <1>2, Zenon
  <2>4. flushes' \in 0..1
    BY <2>3
  <2> QED BY <1>3, <2>1, <2>2, <2>3, <2>4 DEF TypeOK, hookVars, queryVars
<1>5. ServerHolds' /\ FlushHolds' /\ HookHolds'
  BY <1>1, <1>2
     DEF ServerHolds, FlushHolds, HookHolds, hookVars, queryVars
<1> QED BY <1>4, <1>5

(* The steps of the transactions, and of the process as a whole.           *)
LEMMA LiveInvCommit ==
  ASSUME LiveInv, Commit
  PROVE  LiveInv'
<1> USE DEF LiveInv, Commit
<1>1. /\ version' \in [Query -> 0..MaxVersion]
      /\ due' \in 0..MaxVersion /\ due' <= version'[Records]
      /\ \A q \in Query : version'[q] <= version'[Records]
  <2>1. /\ version' \in [Query -> 0..MaxVersion]
        /\ \A q \in Query : version'[q] <= version'[Records]
        /\ version'[Records] = version[Records] + 1
    BY ChangesTypes
  <2>2. /\ due \in Nat /\ version[Records] \in Nat /\ due <= version[Records]
        /\ version'[Records] \in 0..MaxVersion /\ MaxVersion \in Nat
    BY <2>1, LiveAssumption DEF TypeOK, ServerHolds, Query
  <2> QED BY <2>1, <2>2
<1>2. TypeOK'
  BY <1>1 DEF TypeOK, poleVars, linkVars, hookVars, queryVars
<1>3. ServerHolds' /\ FlushHolds' /\ HookHolds'
  BY <1>1
     DEF ServerHolds, FlushHolds, HookHolds, poleVars, linkVars,
         hookVars, queryVars
<1> QED BY <1>2, <1>3

LEMMA LiveInvRecord ==
  ASSUME LiveInv, PublishRecord
  PROVE  LiveInv'
<1> USE DEF LiveInv, PublishRecord
<1>1. due' \in 0..MaxVersion /\ due' <= version[Records]
  BY LiveAssumption DEF TypeOK, ServerHolds, Query
<1>2. channel' \in Seq(Seq(PoleChange))
  <2> DEFINE T == Seq(PoleChange)
  <2>1. channel \in Seq(T) /\ RecordNews \in T
    BY DEF TypeOK, RecordNews
  <2>2. channel' = channel \o <<RecordNews>> \/ channel' = channel
    BY DEF Sent
  <2> HIDE DEF T
  <2>3. channel' \in Seq(T)
    BY <2>1, <2>2
  <2> QED BY <2>3 DEF T
<1>3. TypeOK'
  BY <1>1, <1>2 DEF TypeOK, poleVars, hookVars, queryVars
<1>4. ServerHolds' /\ FlushHolds' /\ HookHolds'
  BY <1>1
     DEF ServerHolds, FlushHolds, HookHolds, poleVars, hookVars,
         queryVars
<1> QED BY <1>3, <1>4

LEMMA LiveInvUnacknowledged ==
  ASSUME LiveInv, CommitUnacknowledged
  PROVE  LiveInv'
<1> USE DEF LiveInv, CommitUnacknowledged
<1>1. due' \in 0..MaxVersion /\ due' <= version[Records]
  BY LiveAssumption DEF TypeOK, ServerHolds, Query
<1>2. excused' \in [Query -> BOOLEAN]
  BY DEF TypeOK, WillShowNewest
<1>3. TypeOK'
  BY <1>1, <1>2 DEF TypeOK, poleVars, linkVars, hookVars
<1>4. ServerHolds' /\ FlushHolds' /\ HookHolds'
  BY <1>1
     DEF ServerHolds, FlushHolds, HookHolds, poleVars, linkVars,
         hookVars
<1> QED BY <1>3, <1>4

(* The clock changes the summary and nothing else.                         *)
LEMMA LiveInvClock ==
  ASSUME LiveInv, OutageWindowPasses
  PROVE  LiveInv'
<1> USE DEF LiveInv
<1>1. /\ version' \in [Query -> 0..MaxVersion] /\ due <= version'[Records]
      /\ \A q \in Query : version'[q] <= version'[Records]
  <2>1. /\ version' \in [Query -> 0..MaxVersion]
        /\ \A q \in Query : version'[q] <= version'[Records]
        /\ version'[Records] = version[Records] + 1
    BY ChangesTypes DEF OutageWindowPasses
  <2>2. /\ due \in Nat /\ version[Records] \in Nat /\ due <= version[Records]
    BY LiveAssumption DEF TypeOK, ServerHolds, Query
  <2> QED BY <2>1, <2>2
<1>2. UNCHANGED <<up, due, poleVars, linkVars, hookVars, selected, fetch, view>>
  BY DEF OutageWindowPasses
<1>3. excused' \in [Query -> BOOLEAN]
  BY DEF TypeOK, OutageWindowPasses
<1>4. TypeOK'
  BY <1>1, <1>2, <1>3 DEF TypeOK, poleVars, linkVars, hookVars
<1>5. ServerHolds' /\ FlushHolds' /\ HookHolds'
  BY <1>1, <1>2
     DEF ServerHolds, FlushHolds, HookHolds, poleVars, linkVars, hookVars
<1> QED BY <1>4, <1>5

LEMMA LiveInvCrash ==
  ASSUME LiveInv, Crash
  PROVE  LiveInv'
<1> USE DEF LiveInv
<1>1. batches' \in [Dt -> Seq(PoleChange)] /\ \A d \in Dt : batches'[d] = <<>>
  BY DEF Crash
<1>2. TypeOK'
  <2>1. /\ up' = FALSE /\ due' = 0 /\ scheduled' = FALSE /\ flushes' = 0
        /\ attached' = FALSE
        /\ UNCHANGED <<version, live, channel, hookVars, queryVars>>
    BY DEF Crash
  <2>2. \A d \in Dt : batches'[d] # <<>> => scheduled'
    BY <1>1, Zenon
  <2>3. flushes' \in 0..1 /\ due' \in 0..MaxVersion
    BY <2>1, LiveAssumption
  <2>4. batches' \in [Dt -> Seq(PoleChange)]
    BY <1>1, Zenon
  <2> QED BY <2>1, <2>2, <2>3, <2>4 DEF TypeOK, hookVars, queryVars
<1>3. version' = version /\ due' = 0 /\ ~ attached' /\ version[Records] \in Nat
  BY LiveAssumption DEF Crash, TypeOK, Query
<1>4. ServerHolds' /\ FlushHolds' /\ HookHolds'
  <2>1. ServerHolds'
    BY <1>3 DEF ServerHolds
  <2>2. FlushHolds' /\ HookHolds'
    BY <1>1 DEF Crash, FlushHolds, HookHolds, hookVars
  <2> QED BY <2>1, <2>2
<1> QED BY <1>2, <1>4

LEMMA LiveInvRestart ==
  ASSUME LiveInv, Restart
  PROVE  LiveInv'
<1> USE DEF LiveInv, Restart
<1>1. /\ version' \in [Query -> 0..MaxVersion] /\ due <= version'[Records]
      /\ \A q \in Query : version'[q] <= version'[Records]
  <2>1. CASE version' = version
    BY <2>1 DEF TypeOK, ServerHolds
  <2>2. CASE \E p \in Pole : Changes({Records, DtOf[p]})
    <3>1. /\ version' \in [Query -> 0..MaxVersion]
          /\ \A q \in Query : version'[q] <= version'[Records]
          /\ version'[Records] = version[Records] + 1
      BY <2>2, ChangesTypes
    <3>2. /\ due \in Nat /\ version[Records] \in Nat /\ due <= version[Records]
      BY LiveAssumption DEF TypeOK, ServerHolds, Query
    <3> QED BY <3>1, <3>2
  <2> QED BY <2>1, <2>2
<1>2. live' \in [Pole -> BOOLEAN]
  BY DEF TypeOK
<1>3. TypeOK'
  BY <1>1, <1>2 DEF TypeOK, linkVars, hookVars, queryVars
<1>4. ServerHolds' /\ FlushHolds' /\ HookHolds'
  BY <1>1
     DEF ServerHolds, FlushHolds, HookHolds, linkVars, hookVars,
         queryVars
<1> QED BY <1>3, <1>4

(* The queries.                                                            *)
QueryTypes ==
  /\ selected \in Dt \cup {Nothing}
  /\ fetch \in [Query -> Fetch]
  /\ view \in [Query -> 0..MaxVersion \cup {Nothing}]
  /\ excused \in [Query -> BOOLEAN]

LEMMA RequestsAreFetches == /\ Asked \in Fetch /\ NoFetch \in Fetch
                            /\ \A v \in 0..MaxVersion : Read(v) \in Fetch
BY LiveAssumption DEF Asked, NoFetch, Read, Fetch

(* An invalidation, and a selection, leave queries.                        *)
LEMMA InvalidateTypes ==
  ASSUME LiveInv, Invalidate
  PROVE  QueryTypes'
<1>1. QueryTypes
  BY DEF LiveInv, TypeOK, QueryTypes, Fetch
<1>2. fetch' \in [Query -> Fetch]
  BY <1>1, RequestsAreFetches DEF Invalidate, QueryTypes
<1>3. excused' \in [Query -> BOOLEAN]
  BY DEF Invalidate
<1> QED BY <1>1, <1>2, <1>3 DEF Invalidate, QueryTypes

LEMMA ShowTypes ==
  ASSUME LiveInv, NEW s \in Dt \cup {Nothing},
         NEW fetching \in [Query -> Fetch], Show(s, fetching)
  PROVE  /\ selected' \in Dt \cup {Nothing}
         /\ fetch' \in [Query -> Fetch]
         /\ excused' \in [Query -> BOOLEAN]
<1>1. fetch' \in [Query -> Fetch]
  BY RequestsAreFetches DEF Show
<1>2. excused' \in [Query -> BOOLEAN]
  <2>1. excused' = [q \in Query |->
                   IF q = s /\ s # selected
                   THEN fetching[s].state # "none" /\ ~ WillShowNewest(s)
                   ELSE q \in {Records, s} /\ excused[q]]
    BY DEF Show
  <2>2. \A q \in Query : excused[q] \in BOOLEAN
    BY DEF LiveInv, TypeOK
  <2> QED BY <2>1, <2>2
<1> QED BY <1>1, <1>2 DEF Show

(* Only the queries move.                                                  *)
LEMMA LiveInvQuery ==
  ASSUME LiveInv,
         \/ Refocus \/ Select
         \/ \E q \in Query : Poll(q) \/ ReadModel(q) \/ Respond(q) \/ FetchFails(q)
         \/ \E d \in Dt : Collect(d)
  PROVE  LiveInv'
<1>1. QueryTypes
  BY DEF LiveInv, TypeOK, QueryTypes, Fetch
<1>2. version \in [Query -> 0..MaxVersion]
  BY DEF LiveInv, TypeOK
<1>3. QueryTypes' /\ UNCHANGED <<serverVars, linkVars, hookVars>>
  <2> USE DEF QueryTypes
  <2>1. ASSUME NEW queries, Refetch(queries)
        PROVE  QueryTypes' /\ UNCHANGED <<serverVars, linkVars, hookVars>>
    <3>1. PICK idle : /\ fetch' = [q \in Query |-> IF q \in idle THEN Asked ELSE fetch[q]]
                      /\ excused' = [q \in Query |-> q \notin idle /\ excused[q]]
                      /\ UNCHANGED <<serverVars, linkVars, hookVars, selected, view>>
      BY <2>1 DEF Refetch
    <3>2. excused' \in [Query -> BOOLEAN]
      BY <3>1
    <3> QED BY <1>1, <3>1, <3>2, RequestsAreFetches
  <2>2. ASSUME NEW q \in Query, ReadModel(q)
        PROVE  QueryTypes' /\ UNCHANGED <<serverVars, linkVars, hookVars>>
    BY <1>1, <1>2, <2>2, RequestsAreFetches DEF ReadModel
  <2>3. ASSUME NEW d \in Dt, RespondPoles(d)
        PROVE  QueryTypes' /\ UNCHANGED <<serverVars, linkVars, hookVars>>
    <3>1. d \in Query /\ fetch[d].read \in 0..MaxVersion \cup {Nothing}
      BY <1>1 DEF Query, Fetch
    <3> QED BY <1>1, <2>3, <3>1, RequestsAreFetches DEF RespondPoles
  <2>4. CASE RespondRecords
    <3>1. fetch[Records].read \in 0..MaxVersion \cup {Nothing}
      BY <1>1 DEF Query, Fetch
    <3>2. [fetch EXCEPT ![Records] = NoFetch] \in [Query -> Fetch]
      BY <1>1, RequestsAreFetches
    <3>3. /\ selected' \in Dt \cup {Nothing}
          /\ fetch' \in [Query -> Fetch] /\ excused' \in [Query -> BOOLEAN]
      BY <2>4, <3>2, ShowTypes DEF RespondRecords
    <3> QED BY <1>1, <2>4, <3>1, <3>3 DEF RespondRecords
  <2>5. CASE Select
    <3>1. /\ selected' \in Dt \cup {Nothing}
          /\ fetch' \in [Query -> Fetch] /\ excused' \in [Query -> BOOLEAN]
      BY <1>1, <2>5, ShowTypes DEF Select
    <3> QED BY <1>1, <2>5, <3>1 DEF Select
  <2>6. ASSUME NEW q \in Query, FetchFails(q)
        PROVE  QueryTypes' /\ UNCHANGED <<serverVars, linkVars, hookVars>>
    <3>1. excused' \in [Query -> BOOLEAN]
      BY <1>1, <2>6 DEF FetchFails
    <3> QED BY <1>1, <2>6, <3>1, RequestsAreFetches DEF FetchFails
  <2>7. ASSUME NEW d \in Dt, Collect(d)
        PROVE  QueryTypes' /\ UNCHANGED <<serverVars, linkVars, hookVars>>
    BY <1>1, <2>7 DEF Collect
  <2>8. \A q \in Query : q = Records \/ q \in Dt
    BY DEF Query
  <2> HIDE DEF QueryTypes
  <2> QED BY <2>1, <2>2, <2>3, <2>4, <2>5, <2>6, <2>7, <2>8
       DEF Refocus, Poll, Respond, RespondRecords, Select
<1>4. TypeOK'
  BY <1>3
     DEF LiveInv, TypeOK, QueryTypes, Fetch, serverVars, poleVars, linkVars, hookVars
<1>5. ServerHolds' /\ FlushHolds' /\ HookHolds'
  BY <1>3
     DEF LiveInv, ServerHolds, FlushHolds, HookHolds, serverVars,
         poleVars, linkVars, hookVars
<1> QED BY <1>4, <1>5 DEF LiveInv

(* The connection: the hook's flags follow the socket.                     *)
LEMMA LiveInvLink ==
  ASSUME LiveInv, Accept \/ OnOpen \/ OnMessage \/ OnClose \/ Reconnect
  PROVE  LiveInv'
<1> USE DEF LiveInv
<1>1. UNCHANGED serverVars
  BY DEF Accept, OnOpen, OnMessage, OnClose, Reconnect
<1>2. QueryTypes'
  <2>1. CASE OnOpen \/ OnMessage
    BY <2>1, InvalidateTypes DEF OnOpen, OnMessage, Resync
  <2>2. CASE UNCHANGED queryVars
    BY <2>2 DEF queryVars, QueryTypes, Fetch, TypeOK
  <2> QED BY <2>1, <2>2 DEF Accept, OnClose, Reconnect
<1>3. attached' \in BOOLEAN /\ (attached' => up')
  <2>1. up' = up /\ attached \in BOOLEAN /\ (attached => up)
    BY <1>1 DEF TypeOK, ServerHolds, serverVars
  <2>2. CASE Accept
    BY <2>1, <2>2, Zenon DEF Accept
  <2>3. CASE OnClose
    BY <2>1, <2>3, Zenon DEF OnClose
  <2>4. CASE OnOpen \/ OnMessage \/ Reconnect
    <3>1. attached' = attached
      BY <2>4 DEF OnOpen, OnMessage, Reconnect, linkVars
    <3> QED BY <2>1, <3>1, Zenon
  <2> QED BY <2>2, <2>3, <2>4
<1>4. channel' \in Seq(Seq(PoleChange))
  <2>1. channel \in Seq(Seq(PoleChange))
    BY DEF TypeOK
  <2>2. CASE OnMessage
    BY <2>1, <2>2 DEF OnMessage
  <2>3. CASE Accept \/ OnClose \/ OnOpen \/ Reconnect
    <3>1. channel' = <<>> \/ channel' = channel
      BY <2>3 DEF Accept, OnClose, OnOpen, Reconnect, linkVars
    <3> QED BY <2>1, <3>1, EmptyIsSeq, Zenon
  <2> QED BY <2>2, <2>3
<1>5. /\ socket' \in {"connecting", "open", "closed"}
      /\ notified' \in BOOLEAN /\ polling' \in BOOLEAN
      /\ HookHolds'
  <2> USE DEF TypeOK, HookHolds
  <2>1. CASE Accept \/ OnMessage
    BY <2>1 DEF Accept, OnMessage, hookVars
  <2>2. CASE OnOpen
    BY <2>2 DEF OnOpen, NotifiedAfterOpen
  <2>3. CASE OnClose
    BY <2>3 DEF OnClose
  <2>4. CASE Reconnect
    BY <2>4 DEF Reconnect
  <2> QED BY <2>1, <2>2, <2>3, <2>4
<1>6. TypeOK'
  BY <1>1, <1>2, <1>3, <1>4, <1>5 DEF TypeOK, QueryTypes, Fetch, serverVars, poleVars
<1>7. ServerHolds' /\ FlushHolds'
  BY <1>1, <1>2, <1>3
     DEF ServerHolds, FlushHolds, serverVars, poleVars
<1> QED BY <1>5, <1>6, <1>7

(* Every step keeps the invariant.                                         *)
LEMMA LiveInvNext == LiveInv /\ [Next]_vars => LiveInv'
<1> SUFFICES ASSUME LiveInv, [Next]_vars PROVE LiveInv'
  OBVIOUS
<1>1. CASE \E p \in Pole : PublishPoleStateTransition(p)
  BY <1>1, LiveInvPublish
<1>2. CASE FlushPoleStateChanges
  BY <1>2, LiveInvFlush
<1>3. CASE Commit
  BY <1>3, LiveInvCommit
<1>4. CASE PublishRecord
  BY <1>4, LiveInvRecord
<1>5. CASE CommitUnacknowledged
  BY <1>5, LiveInvUnacknowledged
<1>6. CASE Crash
  BY <1>6, LiveInvCrash
<1>7. CASE Restart
  BY <1>7, LiveInvRestart
<1>8. CASE \/ Refocus \/ Select
           \/ \E q \in Query : Poll(q) \/ ReadModel(q) \/ Respond(q) \/ FetchFails(q)
           \/ \E d \in Dt : Collect(d)
  BY <1>8, LiveInvQuery
<1>9. CASE Accept \/ OnOpen \/ OnMessage \/ OnClose \/ Reconnect
  BY <1>9, LiveInvLink
<1>10. CASE UNCHANGED vars
  BY <1>10
     DEF vars, serverVars, poleVars, linkVars, hookVars, queryVars, LiveInv,
         TypeOK, ServerHolds, FlushHolds, HookHolds
<1>11. CASE OutageWindowPasses
  BY <1>11, LiveInvClock
<1> QED
  BY <1>1, <1>2, <1>3, <1>4, <1>5, <1>6, <1>7, <1>8, <1>9, <1>10, <1>11 DEF Next

-----------------------------------------------------------------------------
(* The types, with the flag set whenever a pole change waits; for any      *)
(* number of poles, transformers, changes and losses.                      *)
THEOREM LiveTypes == Spec => []TypeOK
<1>1. LiveInv => TypeOK
  BY DEF LiveInv
<1> QED BY <1>1, LiveInvInit, LiveInvNext, PTL DEF Spec

(* After the page's first attempt to connect, it polls from every close,   *)
(* also the second and the later ones, through the attempts to connect     *)
(* again, to the next opening; and not while it is connected               *)
(* (useWebSocket.ts, DashboardPage.tsx).                                   *)
THEOREM PollsWhileDown == Spec => DownMeansPolling
<1>1. LiveInv /\ LiveInv' /\ [Next]_vars => [PollingWhileDown]_vars
  <2> SUFFICES ASSUME LiveInv, LiveInv', Next PROVE PollingWhileDown
    OBVIOUS
  <2>1. HookHolds /\ HookHolds'
    BY DEF LiveInv
  <2>2. CASE UNCHANGED hookVars
    BY <2>1, <2>2 DEF HookHolds, hookVars, PollingWhileDown
  <2>3. CASE OnOpen
    BY <2>1, <2>3 DEF OnOpen, HookHolds, PollingWhileDown
  <2>4. CASE OnClose
    BY <2>1, <2>4 DEF OnClose, HookHolds, PollingWhileDown
  <2>5. CASE Reconnect
    BY <2>1, <2>5 DEF Reconnect, HookHolds, PollingWhileDown
  <2>6. UNCHANGED hookVars \/ OnOpen \/ OnClose \/ Reconnect
    BY DEF Next, PublishPoleStateTransition, FlushPoleStateChanges, Commit,
           PublishRecord, CommitUnacknowledged, OutageWindowPasses, Crash, Restart,
           Poll, Refocus, Refetch, ReadModel, Respond, RespondRecords, RespondPoles,
           FetchFails, Select, Collect, Accept, OnMessage
  <2> QED BY <2>2, <2>3, <2>4, <2>5, <2>6
<1> QED BY <1>1, LiveInvInit, LiveInvNext, PTL DEF Spec, DownMeansPolling

-----------------------------------------------------------------------------
(* No silent gap.                                                          *)
Covered(q) == WillShowNewest(q) \/ OnTheWay(q) \/ excused[q]

(* A query whose state, news and excuse do not move stays covered.         *)
LEMMA CoveredStays ==
  ASSUME NEW q, Covered(q), UNCHANGED <<fetch[q], view[q], version[q]>>,
         OnTheWay(q) => OnTheWay(q)', excused[q] => excused'[q]
  PROVE  Covered(q)'
BY Zenon DEF Covered, WillShowNewest

LEMMA NewsStays ==
  ASSUME UNCHANGED <<serverVars, linkVars>>, NEW q, OnTheWay(q)
  PROVE  OnTheWay(q)'
BY DEF OnTheWay, serverVars, poleVars, linkVars

(* The server: a change that it makes is at once on its way, and what is   *)
(* on its way is sent, or is given up with an excuse.                      *)
LEMMA GapServer ==
  ASSUME LiveInv, NoSilentGap,
         \/ \E p \in Pole : PublishPoleStateTransition(p)
         \/ FlushPoleStateChanges
         \/ Commit \/ PublishRecord \/ CommitUnacknowledged
         \/ OutageWindowPasses
         \/ Crash \/ Restart
  PROVE  NoSilentGap'
<1> USE DEF LiveInv
<1>1. channel \in Seq(Seq(PoleChange)) /\ due \in Nat /\ flushes \in 0..1
  BY LiveAssumption DEF TypeOK
<1>2. CASE \E p \in Pole : PublishPoleStateTransition(p)
  <2>1. flushes' > 0
    BY <1>1, <1>2 DEF PublishPoleStateTransition, FlushesWith, FlushHolds
  <2> QED BY <2>1 DEF NoSilentGap, OnTheWay
<1>3. CASE FlushPoleStateChanges
  <2>1. \E d \in Dt : batches[d] # <<>>
    BY <1>1, <1>3 DEF FlushPoleStateChanges, FlushHolds
  <2>2. Batches \in Seq(Seq(PoleChange)) /\ Batches # <<>>
    BY <2>1, BatchesAreSent DEF TypeOK
  <2>3. attached => channel' # <<>>
    <3> SUFFICES ASSUME attached PROVE channel' # <<>>
      OBVIOUS
    <3>1. channel' = channel \o Batches
      BY <1>3 DEF FlushPoleStateChanges, Sent
    <3> QED BY <1>1, <2>2, <3>1, NotEmptyAfter
  <2>4. attached' = attached
    BY <1>3 DEF FlushPoleStateChanges
  <2> QED BY <2>3, <2>4, Zenon DEF NoSilentGap, OnTheWay
<1>4. CASE PublishRecord
  <2>1. attached => channel' # <<>>
    <3> SUFFICES ASSUME attached PROVE channel' # <<>>
      OBVIOUS
    <3>1. channel' = channel \o <<RecordNews>> /\ <<RecordNews>> \in Seq(Seq(PoleChange))
      BY <1>4 DEF PublishRecord, Sent, RecordNews
    <3>2. <<RecordNews>> # <<>>
      OBVIOUS
    <3> QED BY <1>1, <3>1, <3>2, NotEmptyAfter
  <2>2. attached' = attached
    BY <1>4 DEF PublishRecord
  <2> QED BY <2>1, <2>2, Zenon DEF NoSilentGap, OnTheWay
<1>5. CASE Crash
  BY <1>5 DEF Crash, NoSilentGap
<1>6. CASE Restart
  <2>1. ~ attached'
    BY <1>6 DEF Restart, ServerHolds, linkVars
  <2> QED BY <2>1 DEF NoSilentGap
<1>7. CASE Commit \/ CommitUnacknowledged \/ OutageWindowPasses
  <2> SUFFICES ASSUME socket = "open", attached, NEW q \in Shown
               PROVE  Covered(q)'
    BY <1>7 DEF NoSilentGap, Covered, Shown, Commit, CommitUnacknowledged,
                OutageWindowPasses, linkVars, hookVars, queryVars
  <2>1. Covered(q)
    BY DEF NoSilentGap, Covered
  <2>2. q \in Query /\ version \in [Query -> 0..MaxVersion]
        /\ excused \in [Query -> BOOLEAN] /\ Records \in Query
    BY DEF Shown, Query, TypeOK
  <2>3. CASE q # Records
    <3>1. UNCHANGED <<fetch, view, flushes, channel>>
      BY <1>7 DEF Commit, CommitUnacknowledged, OutageWindowPasses, queryVars,
                  linkVars, poleVars
    <3>2. version'[q] = version[q]
      BY <1>7, <2>2, <2>3, ChangesTypes
         DEF Commit, CommitUnacknowledged, OutageWindowPasses
    <3>3. excused'[q] = excused[q]
      BY <1>7, <2>2, <2>3
         DEF Commit, CommitUnacknowledged, OutageWindowPasses, queryVars
    <3>4. OnTheWay(q) => OnTheWay(q)'
      BY <2>3, <3>1 DEF OnTheWay
    <3> QED BY <2>1, <3>1, <3>2, <3>3, <3>4, CoveredStays
  <2>4. CASE q = Records /\ Commit
    <3>1. due' > 0
      BY <1>1, <2>4 DEF Commit
    <3> QED BY <2>4, <3>1 DEF Covered, OnTheWay
  <2>5. CASE q = Records /\ CommitUnacknowledged
    <3>1. excused'[q] = (excused[q] \/ ~ WillShowNewest(q))
      BY <2>2, <2>5 DEF CommitUnacknowledged
    <3>2. WillShowNewest(q)' <=> WillShowNewest(q)
      BY <2>5 DEF CommitUnacknowledged, WillShowNewest
    <3> QED BY <3>1, <3>2, Zenon DEF Covered
  <2>6. CASE q = Records /\ OutageWindowPasses
    <3>1. excused'[q] = (excused[q] \/ fetch[q].state # "asked") /\ fetch' = fetch
      BY <2>2, <2>6 DEF OutageWindowPasses
    <3> QED BY <3>1 DEF Covered, WillShowNewest
  <2> QED BY <1>7, <2>3, <2>4, <2>5, <2>6
<1> QED BY <1>2, <1>3, <1>4, <1>5, <1>6, <1>7

(* A query that comes on the screen asks, or joins a request and is        *)
(* excused if that was read too early; the others stay as they are.        *)
LEMMA ShowKeepsRecords ==
  ASSUME LiveInv, NEW s \in Dt \cup {Nothing}, NEW fetching, Show(s, fetching)
  PROVE  excused'[Records] <=> excused[Records]
<1>1. Records \in Query /\ Records # s /\ excused \in [Query -> BOOLEAN]
  BY LiveAssumption DEF Query, LiveInv, TypeOK
<1> QED BY <1>1 DEF Show

LEMMA GapShow ==
  ASSUME LiveInv, NEW s \in Dt \cup {Nothing},
         NEW fetching \in [Query -> Fetch], Show(s, fetching),
         \A d \in Dt : fetching[d] = fetch[d] /\ view'[d] = view[d],
         version' = version, NEW d \in Dt, d \in Shown',
         OnTheWay(d) => OnTheWay(d)', d \in Shown => Covered(d)
  PROVE  Covered(d)'
<1>1. d = s /\ d \in Query /\ d # Records /\ excused \in [Query -> BOOLEAN]
  BY LiveAssumption DEF Show, Shown, Query, LiveInv, TypeOK
<1>2. CASE s = selected
  <2>1. fetch' = fetching /\ (excused'[d] <=> excused[d]) /\ d \in Shown
    BY <1>1, <1>2 DEF Show, Shown
  <2>2. Covered(d) /\ UNCHANGED <<fetch[d], view[d], version[d]>>
    BY <2>1
  <2> QED BY <2>1, <2>2, CoveredStays
<1>3. CASE s # selected /\ fetching[s].state = "none"
  <2>1. fetch'[d] = Asked
    BY <1>1, <1>3 DEF Show
  <2> QED BY <2>1 DEF Covered, WillShowNewest, Asked
<1>4. CASE s # selected /\ fetching[s].state # "none"
  <2>1. fetch' = fetching /\ excused'[d] = ~ WillShowNewest(d)
    BY <1>1, <1>4 DEF Show
  <2>2. UNCHANGED <<fetch[d], view[d], version[d]>>
    BY <2>1
  <2>3. WillShowNewest(d)' <=> WillShowNewest(d)
    BY <2>2, Zenon DEF WillShowNewest
  <2> QED BY <2>1, <2>3, Zenon DEF Covered
<1> QED BY <1>2, <1>3, <1>4

(* The queries: a request that is made anew, or read, will show the        *)
(* server's version; a response only moves a version from the request to   *)
(* the screen.                                                             *)
LEMMA GapQuery ==
  ASSUME LiveInv, NoSilentGap,
         \/ Refocus \/ Select
         \/ \E q \in Query : Poll(q) \/ ReadModel(q) \/ Respond(q) \/ FetchFails(q)
         \/ \E d \in Dt : Collect(d)
  PROVE  NoSilentGap'
<1>1. UNCHANGED <<serverVars, linkVars, hookVars>>
  BY DEF Refocus, Select, Poll, Refetch, ReadModel, Respond, RespondRecords,
         RespondPoles, FetchFails, Collect
<1>2. UNCHANGED <<version, socket, attached>> /\ \A q : OnTheWay(q) => OnTheWay(q)'
  BY <1>1, NewsStays DEF serverVars, linkVars, hookVars
<1> SUFFICES ASSUME socket = "open", attached, NEW q \in Shown'
             PROVE  Covered(q)'
  BY <1>2 DEF NoSilentGap, Covered
<1>3. /\ fetch \in [Query -> Fetch] /\ view \in [Query -> 0..MaxVersion \cup {Nothing}]
      /\ version \in [Query -> 0..MaxVersion] /\ excused \in [Query -> BOOLEAN]
      /\ q \in Query /\ Records \in Query /\ Records \in Shown
      /\ \A d \in Dt : d # Records /\ d \in Query
  BY LiveAssumption DEF LiveInv, TypeOK, Fetch, Shown, Query
<1>4. \A r \in Shown : Covered(r)
  BY DEF NoSilentGap, Covered
<1>5. ASSUME NEW queries, Refetch(queries)
      PROVE  Covered(q)'
  <2>1. PICK idle : /\ fetch' = [r \in Query |-> IF r \in idle THEN Asked ELSE fetch[r]]
                    /\ excused' = [r \in Query |-> r \notin idle /\ excused[r]]
                    /\ UNCHANGED <<selected, view>>
    BY <1>5 DEF Refetch
  <2>2. CASE q \in idle
    <3>1. fetch'[q] = Asked
      BY <1>3, <2>1, <2>2
    <3> QED BY <3>1 DEF Covered, WillShowNewest, Asked
  <2>3. CASE q \notin idle
    <3>1. UNCHANGED <<fetch[q], view[q], version[q]>> /\ (excused[q] => excused'[q])
      BY <1>2, <1>3, <2>1, <2>3
    <3>2. q \in Shown
      BY <2>1 DEF Shown
    <3> QED BY <1>2, <1>4, <3>1, <3>2, CoveredStays
  <2> QED BY <2>2, <2>3
<1>6. ASSUME NEW r \in Query, ReadModel(r)
      PROVE  Covered(q)'
  <2>1. q \in Shown /\ UNCHANGED <<view, excused>>
    BY <1>6 DEF ReadModel, Shown
  <2>2. CASE q = r
    <3>1. fetch'[q] = Read(version[q])
      BY <1>3, <1>6, <2>2 DEF ReadModel
    <3> QED BY <1>2, <3>1 DEF Covered, WillShowNewest, Read
  <2>3. CASE q # r
    <3>1. UNCHANGED <<fetch[q], view[q], version[q], excused[q]>>
      BY <1>2, <1>3, <1>6, <2>1, <2>3 DEF ReadModel
    <3> QED BY <1>2, <1>4, <2>1, <3>1, CoveredStays
  <2> QED BY <2>2, <2>3
<1>7. ASSUME NEW r \in Dt, RespondPoles(r)
      PROVE  Covered(q)'
  <2>1. q \in Shown /\ excused' = excused
    BY <1>7 DEF RespondPoles, Shown
  <2>2. CASE q = r
    <3>1. fetch'[q] = NoFetch /\ view'[q] = fetch[q].read /\ fetch[q].state = "read"
      BY <1>3, <1>7, <2>2 DEF RespondPoles
    <3>2. WillShowNewest(q)' <=> WillShowNewest(q)
      BY <1>2, <3>1 DEF WillShowNewest, NoFetch
    <3> QED BY <1>2, <1>4, <2>1, <3>2, Zenon DEF Covered
  <2>3. CASE q # r
    <3>1. UNCHANGED <<fetch[q], view[q], version[q], excused[q]>>
      BY <1>2, <1>3, <1>7, <2>1, <2>3 DEF RespondPoles
    <3> QED BY <1>2, <1>4, <2>1, <3>1, CoveredStays
  <2> QED BY <2>2, <2>3
<1>8. CASE RespondRecords
  <2> DEFINE fetching == [fetch EXCEPT ![Records] = NoFetch]
  <2>1. PICK s \in Dt \cup {Nothing} : Show(s, fetching)
    BY <1>8 DEF RespondRecords
  <2>2. /\ view' = [view EXCEPT ![Records] = fetch[Records].read]
        /\ fetch[Records].state = "read"
    BY <1>8 DEF RespondRecords
  <2>3. /\ fetching \in [Query -> Fetch] /\ fetching[Records] = NoFetch
        /\ \A d \in Dt : fetching[d] = fetch[d] /\ view'[d] = view[d]
    BY <1>3, <2>2, RequestsAreFetches
  <2> HIDE DEF fetching
  <2>4. CASE q = Records
    <3>1. fetch'[q] = NoFetch /\ view'[q] = fetch[q].read /\ fetch[q].state = "read"
      <4>1. Records \notin Dt
        BY <1>3
      <4> QED BY <1>3, <2>1, <2>2, <2>3, <2>4, <4>1 DEF Show
    <3>2. excused'[q] <=> excused[q]
      BY <2>1, <2>4, ShowKeepsRecords
    <3>3. WillShowNewest(q)' <=> WillShowNewest(q)
      BY <1>2, <3>1 DEF WillShowNewest, NoFetch
    <3> QED BY <1>2, <1>3, <1>4, <2>4, <3>2, <3>3, Zenon DEF Covered
  <2>5. CASE q \in Dt
    BY <1>2, <1>4, <2>1, <2>3, <2>5, GapShow
  <2> QED BY <1>3, <2>4, <2>5 DEF Query
<1>9. CASE Select
  <2>1. PICK s \in Dt : Show(s, fetch)
    BY <1>9 DEF Select
  <2>2. view' = view
    BY <1>9 DEF Select
  <2>3. CASE q = Records
    <3>1. fetch'[q] = fetch[q] /\ (excused'[q] <=> excused[q])
      BY <1>3, <2>1, <2>3, ShowKeepsRecords DEF Show
    <3> QED BY <1>2, <1>3, <1>4, <2>2, <2>3, <3>1, CoveredStays
  <2>4. CASE q \in Dt
    BY <1>2, <1>3, <1>4, <2>1, <2>2, <2>4, GapShow
  <2> QED BY <1>3, <2>3, <2>4 DEF Query
<1>10. ASSUME NEW r \in Query, FetchFails(r)
       PROVE  Covered(q)'
  <2>1. q \in Shown /\ UNCHANGED view
    BY <1>10 DEF FetchFails, Shown
  <2>2. CASE q = r
    <3>1. excused'[q]
      BY <1>3, <1>10, <2>1, <2>2 DEF FetchFails
    <3> QED BY <3>1 DEF Covered
  <2>3. CASE q # r
    <3>1. UNCHANGED <<fetch[q], view[q], version[q], excused[q]>>
      BY <1>2, <1>3, <1>10, <2>1, <2>3 DEF FetchFails
    <3> QED BY <1>2, <1>4, <2>1, <3>1, CoveredStays
  <2> QED BY <2>2, <2>3
<1>11. ASSUME NEW r \in Dt, Collect(r)
       PROVE  Covered(q)'
  <2>1. q \in Shown /\ q # r /\ UNCHANGED <<fetch, excused>>
    BY <1>11 DEF Collect, Shown
  <2>2. UNCHANGED <<fetch[q], view[q], version[q], excused[q]>>
    BY <1>2, <1>3, <1>11, <2>1 DEF Collect
  <2> QED BY <1>2, <1>4, <2>1, <2>2, CoveredStays
<1>12. \A r \in Query : Respond(r) => RespondRecords \/ (r \in Dt /\ RespondPoles(r))
  BY DEF Respond, Query
<1> QED BY <1>5, <1>6, <1>7, <1>8, <1>9, <1>10, <1>11, <1>12 DEF Refocus, Poll

(* The connection: every message and every opening asks for the newest     *)
(* version, or excuses the query whose first request goes on; a loss or an *)
(* attempt leaves no open socket.                                          *)
LEMMA GapLink ==
  ASSUME LiveInv, NoSilentGap,
         Accept \/ OnOpen \/ OnMessage \/ OnClose \/ Reconnect
  PROVE  NoSilentGap'
<1>1. CASE OnOpen \/ OnMessage
  <2>1. Invalidate /\ version' = version
    BY <1>1 DEF OnOpen, OnMessage, Resync, serverVars
  <2> SUFFICES ASSUME NEW q \in Shown PROVE Covered(q)'
    BY <2>1 DEF NoSilentGap, Covered, Invalidate, Shown
  <2>2. q \in Query
    BY DEF Shown, Query
  <2>3. CASE LetsItFinish(q)
    <3>1. /\ UNCHANGED <<fetch[q], view[q], version[q]>>
          /\ excused'[q] = ~ WillShowNewest(q)
      BY <2>1, <2>2, <2>3, LiveAssumption DEF Invalidate, LiveInv, TypeOK
    <3>2. WillShowNewest(q)' <=> WillShowNewest(q)
      BY <3>1, Zenon DEF WillShowNewest
    <3> QED BY <3>1, <3>2, Zenon DEF Covered
  <2>4. CASE ~ LetsItFinish(q)
    <3>1. fetch'[q] = Asked
      BY <2>1, <2>2, <2>4 DEF Invalidate
    <3> QED BY <3>1 DEF Covered, WillShowNewest, Asked
  <2> QED BY <2>3, <2>4
<1>2. CASE Accept
  <2>1. socket' # "open"
    BY <1>2 DEF Accept, hookVars
  <2> QED BY <2>1 DEF NoSilentGap
<1>3. CASE OnClose \/ Reconnect
  <2>1. socket' # "open"
    BY <1>3 DEF OnClose, Reconnect
  <2> QED BY <2>1 DEF NoSilentGap
<1> QED BY <1>1, <1>2, <1>3

(* On a connected screen, each query that is shown and will be behind the  *)
(* server once its request is done has an announcement on its way to it,   *)
(* or is excused: its acknowledgement or the clock announced nothing, its  *)
(* first or joined request was read too early, or it gave up.  Whatever is *)
(* lost, crashes, is selected or is read in between                        *)
(* (live-updates.ts, DashboardPage.tsx).                                   *)
THEOREM NoGapIsSilent == Spec => []NoSilentGap
<1>1. Init => NoSilentGap
  BY DEF Init, NoSilentGap
<1>2. LiveInv /\ NoSilentGap /\ [Next]_vars => NoSilentGap'
  <2> SUFFICES ASSUME LiveInv, NoSilentGap, [Next]_vars PROVE NoSilentGap'
    OBVIOUS
  <2>1. CASE \/ \E p \in Pole : PublishPoleStateTransition(p)
             \/ FlushPoleStateChanges
             \/ Commit \/ PublishRecord \/ CommitUnacknowledged
             \/ OutageWindowPasses
             \/ Crash \/ Restart
    BY <2>1, GapServer
  <2>2. CASE \/ Refocus \/ Select
             \/ \E q \in Query : Poll(q) \/ ReadModel(q) \/ Respond(q) \/ FetchFails(q)
             \/ \E d \in Dt : Collect(d)
    BY <2>2, GapQuery
  <2>3. CASE Accept \/ OnOpen \/ OnMessage \/ OnClose \/ Reconnect
    BY <2>3, GapLink
  <2>4. CASE UNCHANGED vars
    BY <2>4
       DEF vars, serverVars, poleVars, linkVars, hookVars, queryVars,
           NoSilentGap, OnTheWay, WillShowNewest, Shown
  <2> QED BY <2>1, <2>2, <2>3, <2>4 DEF Next
<1> QED BY <1>1, <1>2, LiveInvInit, LiveInvNext, PTL DEF Spec

-----------------------------------------------------------------------------
(* The chain of pole changes.                                              *)

(* The changes of p in s are linked and end at level: Chained without Min. *)
Linked(s, p, level) ==
  \A i \in DOMAIN s : s[i].pole = p =>
    /\ (\A j \in DOMAIN s : s[j].pole = p => j <= i) => s[i].to = level
    /\ \A j \in DOMAIN s :
         /\ i < j /\ s[j].pole = p
         /\ \A k \in DOMAIN s : s[k].pole = p => k <= i \/ j <= k
         => s[i].to = s[j].from

(* What waits for a flush are changes of the transformer's poles, which    *)
(* are linked as they are and also after what is still in the channel.     *)
ChainInv ==
  /\ \A d \in Dt : \A i \in DOMAIN batches[d] : DtOf[batches[d][i].pole] = d
  /\ ~ up => \A d \in Dt : batches[d] = <<>>
  /\ \A p \in Pole : Linked(batches[DtOf[p]], p, live[p])
  /\ attached => \A p \in Pole :
                   Linked(FlattenSeq(channel) \o batches[DtOf[p]], p, live[p])

LEMMA LinkedIsChained ==
  ASSUME NEW s \in Seq(PoleChange), NEW p, Linked(s, p, live[p])
  PROVE  Chained(s, p)
<1> DEFINE ofPole == {i \in DOMAIN s : s[i].pole = p}
           After(i) == {j \in ofPole : j > i}
<1> SUFFICES ASSUME NEW i \in ofPole
             PROVE  s[i].to = IF After(i) = {} THEN live[p] ELSE s[Min(After(i))].from
  BY DEF Chained
<1>1. DOMAIN s \subseteq Nat
  OBVIOUS
<1>2. CASE After(i) = {}
  <2>1. \A j \in DOMAIN s : s[j].pole = p => j <= i
    BY <1>1, <1>2
  <2> QED BY <1>2, <2>1 DEF Linked
<1>3. CASE After(i) # {}
  <2>1. PICK j : j = Min(After(i))
    OBVIOUS
  <2>2. After(i) \in SUBSET Nat
    BY <1>1
  <2>3. j \in After(i) /\ \A k \in After(i) : j <= k
    <3> HIDE DEF After
    <3> QED BY <1>3, <2>1, <2>2, MinOfNaturals
  <2>4. \A k \in DOMAIN s : s[k].pole = p => k <= i \/ j <= k
    BY <1>1, <2>3
  <2>5. s[i].to = s[j].from
    BY <2>3, <2>4 DEF Linked
  <2> QED BY <1>3, <2>1, <2>5
<1> QED BY <1>2, <1>3

(* The later changes of a pole are linked wherever they stand.             *)
LEMMA LinkedElsewhere ==
  ASSUME NEW s, DOMAIN s \subseteq Int, NEW t, DOMAIN t \subseteq Int,
         NEW p, NEW level, Linked(s, p, level), NEW g,
         \A i \in DOMAIN t : t[i].pole = p => g[i] \in DOMAIN s /\ s[g[i]] = t[i],
         \A i, j \in DOMAIN t : t[i].pole = p /\ t[j].pole = p /\ i < j => g[i] < g[j],
         \A k \in DOMAIN s : s[k].pole = p =>
           \/ \E i \in DOMAIN t : t[i].pole = p /\ g[i] = k
           \/ \A i \in DOMAIN t : t[i].pole = p => k < g[i]
  PROVE  Linked(t, p, level)
<1> SUFFICES ASSUME NEW i \in DOMAIN t, t[i].pole = p
             PROVE  /\ (\A j \in DOMAIN t : t[j].pole = p => j <= i) => t[i].to = level
                    /\ \A j \in DOMAIN t :
                         /\ i < j /\ t[j].pole = p
                         /\ \A k \in DOMAIN t : t[k].pole = p => k <= i \/ j <= k
                         => t[i].to = t[j].from
  BY DEF Linked
<1>1. g[i] \in DOMAIN s /\ s[g[i]] = t[i] /\ g[i] \in Int
  OBVIOUS
<1>2. ASSUME \A j \in DOMAIN t : t[j].pole = p => j <= i
      PROVE  t[i].to = level
  <2>1. ASSUME NEW k \in DOMAIN s, s[k].pole = p
        PROVE  k <= g[i]
    <3>1. CASE \E j \in DOMAIN t : t[j].pole = p /\ g[j] = k
      <4>1. PICK j \in DOMAIN t : t[j].pole = p /\ g[j] = k
        BY <3>1
      <4>2. j = i \/ j < i
        BY <1>2, <4>1
      <4> QED BY <1>1, <2>1, <4>1, <4>2
    <3>2. CASE \A j \in DOMAIN t : t[j].pole = p => k < g[j]
      BY <1>1, <3>2
    <3> QED BY <2>1, <3>1, <3>2
  <2> QED BY <1>1, <2>1 DEF Linked
<1>3. ASSUME NEW j \in DOMAIN t, i < j, t[j].pole = p,
             \A k \in DOMAIN t : t[k].pole = p => k <= i \/ j <= k
      PROVE  t[i].to = t[j].from
  <2>1. g[j] \in DOMAIN s /\ s[g[j]] = t[j] /\ g[i] < g[j] /\ g[j] \in Int
    BY <1>3
  <2>2. ASSUME NEW k \in DOMAIN s, s[k].pole = p
        PROVE  k <= g[i] \/ g[j] <= k
    <3>1. CASE \E h \in DOMAIN t : t[h].pole = p /\ g[h] = k
      <4>1. PICK h \in DOMAIN t : t[h].pole = p /\ g[h] = k
        BY <3>1
      <4>2. h = i \/ h < i \/ h = j \/ j < h
        BY <1>3, <4>1
      <4> QED BY <1>1, <1>3, <2>1, <2>2, <4>1, <4>2
    <3>2. CASE \A h \in DOMAIN t : t[h].pole = p => k < g[h]
      BY <1>1, <3>2
    <3> QED BY <2>2, <3>1, <3>2
  <2>3. s[g[i]].pole = p /\ s[g[j]].pole = p
    BY <1>1, <1>3, <2>1
  <2>4. \A k, m \in DOMAIN s :
          /\ s[k].pole = p /\ k < m /\ s[m].pole = p
          /\ \A h \in DOMAIN s : s[h].pole = p => h <= k \/ m <= h
          => s[k].to = s[m].from
    BY DEF Linked
  <2>5. s[g[i]].to = s[g[j]].from
    BY <1>1, <2>1, <2>2, <2>3, <2>4
  <2> QED BY <1>1, <2>1, <2>5
<1> QED BY <1>2, <1>3

(* A change is appended: those of other poles are as linked as before, and *)
(* those of its own if it starts where they ended.                         *)
LEMMA LinkedAppend ==
  ASSUME NEW s \in Seq(PoleChange), NEW c \in PoleChange, NEW p, NEW level,
         Linked(s, p, level)
  PROVE  /\ c.pole # p => Linked(Append(s, c), p, level)
         /\ c.pole = p /\ c.from = level => Linked(Append(s, c), p, c.to)
<1> DEFINE t == Append(s, c)
           n == Len(s)
<1>1. /\ n \in Nat /\ DOMAIN s = 1 .. n /\ DOMAIN t = 1 .. n + 1
      /\ t[n + 1] = c /\ \A i \in 1 .. n : t[i] = s[i]
  OBVIOUS
<1> HIDE DEF t, n
<1>2. CASE c.pole # p
  <2> DEFINE g == [i \in 1 .. n |-> i]
  <2>1. \A i \in DOMAIN t : t[i].pole = p => i \in 1 .. n
    BY <1>1, <1>2
  <2>2. Linked(t, p, level)
    <3>1. \A i \in 1 .. n : g[i] = i
      OBVIOUS
    <3>2. /\ \A i \in DOMAIN t : t[i].pole = p => g[i] \in DOMAIN s /\ s[g[i]] = t[i]
          /\ \A i, j \in DOMAIN t : t[i].pole = p /\ t[j].pole = p /\ i < j => g[i] < g[j]
          /\ \A k \in DOMAIN s : s[k].pole = p =>
                \E i \in DOMAIN t : t[i].pole = p /\ g[i] = k
      <4> HIDE DEF g
      <4> QED BY <1>1, <2>1, <3>1
    <3>3. DOMAIN s \subseteq Int /\ DOMAIN t \subseteq Int
      BY <1>1
    <3> HIDE DEF g
    <3> QED BY <3>2, <3>3, LinkedElsewhere
  <2> QED BY <1>2, <2>2 DEF t
<1>3. CASE c.pole = p /\ c.from = level
  <2>1. Linked(t, p, c.to)
    <3> SUFFICES ASSUME NEW i \in DOMAIN t, t[i].pole = p
                 PROVE  /\ (\A j \in DOMAIN t : t[j].pole = p => j <= i) => t[i].to = c.to
                        /\ \A j \in DOMAIN t :
                             /\ i < j /\ t[j].pole = p
                             /\ \A k \in DOMAIN t : t[k].pole = p => k <= i \/ j <= k
                             => t[i].to = t[j].from
      BY DEF Linked
    <3>1. ASSUME \A j \in DOMAIN t : t[j].pole = p => j <= i
          PROVE  t[i].to = c.to
      <4>1. i = n + 1
        BY <1>1, <1>3, <3>1
      <4> QED BY <1>1, <4>1
    <3>2. ASSUME NEW j \in DOMAIN t, i < j, t[j].pole = p,
                 \A k \in DOMAIN t : t[k].pole = p => k <= i \/ j <= k
          PROVE  t[i].to = t[j].from
      <4>1. i \in 1 .. n /\ s[i] = t[i] /\ s[i].pole = p
        BY <1>1, <3>2
      <4>2. \A k \in 1 .. n : s[k].pole = p => k <= i \/ j <= k
        BY <1>1, <3>2
      <4>3. CASE j = n + 1
        <5>1. \A k \in DOMAIN s : s[k].pole = p => k <= i
          BY <1>1, <4>1, <4>2, <4>3
        <5>2. s[i].to = level
          BY <1>1, <4>1, <5>1 DEF Linked
        <5> QED BY <1>1, <1>3, <4>1, <4>3, <5>2
      <4>4. CASE j \in 1 .. n
        <5>1. s[j] = t[j] /\ s[j].pole = p
          BY <1>1, <3>2, <4>4
        <5>2. s[i].to = s[j].from
          BY <1>1, <3>2, <4>1, <4>2, <4>4, <5>1 DEF Linked
        <5> QED BY <4>1, <5>1, <5>2
      <4> QED BY <1>1, <4>3, <4>4
    <3> QED BY <3>1, <3>2
  <2> QED BY <1>3, <2>1 DEF t
<1> QED BY <1>2, <1>3 DEF t

(* The first messages are delivered.                                       *)
LEMMA LinkedRest ==
  ASSUME NEW r \in Seq(PoleChange), NEW s \in Seq(PoleChange), NEW p, NEW level,
         Linked(r \o s, p, level)
  PROVE  Linked(s, p, level)
<1> DEFINE a == r \o s
           m == Len(r)
           n == Len(s)
           g == [i \in 1 .. n |-> m + i]
<1>1. /\ m \in Nat /\ n \in Nat /\ DOMAIN s = 1 .. n /\ DOMAIN a = 1 .. m + n
      /\ \A i \in 1 .. n : a[m + i] = s[i]
  OBVIOUS
<1>2. \A i \in 1 .. n : g[i] = m + i
  OBVIOUS
<1> HIDE DEF a, m, n, g
<1>3. /\ \A i \in DOMAIN s : s[i].pole = p => g[i] \in DOMAIN a /\ a[g[i]] = s[i]
      /\ \A i, j \in DOMAIN s : s[i].pole = p /\ s[j].pole = p /\ i < j => g[i] < g[j]
  BY <1>1, <1>2
<1>4. ASSUME NEW k \in DOMAIN a, a[k].pole = p
      PROVE  \/ \E i \in DOMAIN s : s[i].pole = p /\ g[i] = k
             \/ \A i \in DOMAIN s : s[i].pole = p => k < g[i]
  <2>1. CASE k <= m
    BY <1>1, <1>2, <2>1
  <2>2. CASE ~ (k <= m)
    <3>1. k - m \in 1 .. n /\ m + (k - m) = k
      BY <1>1, <2>2
    <3> QED BY <1>1, <1>2, <1>4, <3>1
  <2> QED BY <2>1, <2>2
<1>5. DOMAIN s \subseteq Int /\ DOMAIN a \subseteq Int /\ Linked(a, p, level)
  BY <1>1 DEF a
<1> QED BY <1>3, <1>4, <1>5, LinkedElsewhere

(* Changes of other poles come in between.                                 *)
OfOthers(p) == {c \in PoleChange : c.pole # p}

LEMMA LinkedAmong ==
  ASSUME NEW p, NEW level, NEW r \in Seq(PoleChange), NEW s \in Seq(PoleChange),
         NEW x \in Seq(OfOthers(p)), NEW y \in Seq(OfOthers(p)),
         Linked(r \o s, p, level)
  PROVE  Linked(r \o ((x \o s) \o y), p, level)
<1> DEFINE a == r \o s
           b == r \o ((x \o s) \o y)
           m == Len(r)
           n == Len(s)
           h == Len(x)
           l == Len(y)
           g == [i \in 1 .. m + h + n |-> IF i <= m THEN i ELSE i - h]
<1>0. m \in Nat /\ n \in Nat /\ h \in Nat /\ l \in Nat
  OBVIOUS
<1>1. /\ m \in Nat /\ n \in Nat /\ h \in Nat /\ l \in Nat
      /\ \A i \in 1 .. h : x[i].pole # p
      /\ \A i \in 1 .. l : y[i].pole # p
  BY DEF OfOthers
<1>2. /\ DOMAIN a = 1 .. m + n
      /\ \A i \in 1 .. m : a[i] = r[i]
      /\ \A i \in 1 .. n : a[m + i] = s[i]
  OBVIOUS
<1>3. /\ x \in Seq(PoleChange) /\ y \in Seq(PoleChange)
  BY DEF OfOthers
<1>4. /\ DOMAIN b = 1 .. m + h + n + l
      /\ \A i \in 1 .. m : b[i] = r[i]
      /\ \A i \in 1 .. h : b[m + i] = x[i]
      /\ \A i \in 1 .. n : b[m + h + i] = s[i]
      /\ \A i \in 1 .. l : b[m + h + n + i] = y[i]
  BY <1>3
<1>5. \A i \in 1 .. m + h + n : g[i] = IF i <= m THEN i ELSE i - h
  OBVIOUS
<1> HIDE DEF a, b, m, n, h, l, g
<1>6. ASSUME NEW i \in DOMAIN b, b[i].pole = p
      PROVE  i \in 1 .. m \/ i \in m + h + 1 .. m + h + n
  <2>1. CASE i \in m + 1 .. m + h
    <3>1. i - m \in 1 .. h /\ m + (i - m) = i
      BY <1>0, <2>1
    <3> QED BY <1>1, <1>4, <1>6, <3>1
  <2>2. CASE i \in m + h + n + 1 .. m + h + n + l
    <3>1. i - (m + h + n) \in 1 .. l /\ m + h + n + (i - (m + h + n)) = i
      BY <1>0, <2>2
    <3> QED BY <1>1, <1>4, <1>6, <3>1
  <2>3. i \in 1 .. m + h + n + l
    BY <1>4
  <2>4. \/ i \in 1 .. m \/ i \in m + 1 .. m + h \/ i \in m + h + 1 .. m + h + n
        \/ i \in m + h + n + 1 .. m + h + n + l
    BY <1>0, <2>3
  <2> QED BY <2>1, <2>2, <2>4
<1>7. ASSUME NEW i \in DOMAIN b, b[i].pole = p
      PROVE  g[i] \in DOMAIN a /\ a[g[i]] = b[i] /\ g[i] = IF i <= m THEN i ELSE i - h
  <2>1. CASE i \in 1 .. m
    <3>1. i <= m /\ i \in 1 .. m + n /\ i \in 1 .. m + h + n
      BY <1>0, <2>1
    <3> QED BY <1>2, <1>4, <1>5, <2>1, <3>1
  <2>2. CASE i \in m + h + 1 .. m + h + n
    <3>0. i \in Int
      BY <1>0, <2>2
    <3>1. /\ i - (m + h) \in 1 .. n
          /\ m + h + (i - (m + h)) = i /\ m + (i - (m + h)) = i - h
      <4>1. \A u, v, w \in Int : u + v + (w - (u + v)) = w /\ u + (w - (u + v)) = w - v
        OBVIOUS
      <4>2. m \in Int /\ n \in Int /\ h \in Int /\ m + h + 1 <= i /\ i <= m + h + n
        BY <1>0, <2>2
      <4>3. 1 <= i - (m + h) /\ i - (m + h) <= n
        BY <3>0, <4>2
      <4>4. m + h + (i - (m + h)) = i /\ m + (i - (m + h)) = i - h
        BY <3>0, <4>1, <4>2, Zenon
      <4>5. i - (m + h) \in 1 .. n
        <5>1. i - (m + h) \in Int
          BY <3>0, <4>2
        <5> QED BY <4>2, <4>3, <5>1
      <4> QED BY <4>4, <4>5
    <3>2. ~(i <= m) /\ i \in 1 .. m + h + n /\ i - h \in 1 .. m + n
      BY <1>0, <2>2
    <3>3. g[i] = i - h
      BY <1>5, <3>2
    <3>4. b[i] = s[i - (m + h)] /\ a[i - h] = s[i - (m + h)]
      <4>1. b[m + h + (i - (m + h))] = s[i - (m + h)]
        BY <1>4, <3>1, Zenon
      <4>2. a[m + (i - (m + h))] = s[i - (m + h)]
        BY <1>2, <3>1, Zenon
      <4> QED BY <3>1, <4>1, <4>2, Zenon
    <3> QED BY <1>2, <3>2, <3>3, <3>4
  <2> QED BY <1>6, <1>7, <2>1, <2>2
<1>8. ASSUME NEW k \in DOMAIN a, a[k].pole = p
      PROVE  \E i \in DOMAIN b : b[i].pole = p /\ g[i] = k
  <2>1. CASE k <= m
    <3>1. k \in 1 .. m /\ k \in 1 .. m + h + n /\ k \in 1 .. m + h + n + l
      BY <1>0, <1>2, <2>1
    <3>2. k \in DOMAIN b /\ b[k] = a[k] /\ g[k] = k
      BY <1>2, <1>4, <1>5, <2>1, <3>1
    <3> QED BY <1>8, <3>2
  <2>2. CASE ~ (k <= m)
    <3>1. /\ k - m \in 1 .. n /\ m + (k - m) = k /\ m + h + (k - m) = k + h
          /\ k + h \in 1 .. m + h + n + l
      BY <1>0, <1>2, <2>2
    <3>2. b[k + h] = a[k] /\ k + h \in DOMAIN b
      <4>1. b[m + h + (k - m)] = s[k - m]
        BY <1>4, <3>1, Zenon
      <4>2. a[m + (k - m)] = s[k - m]
        BY <1>2, <3>1, Zenon
      <4> QED BY <1>4, <3>1, <4>1, <4>2
    <3>3. g[k + h] = k
      <4>1. k \in Int /\ m < k /\ k <= m + n
        BY <1>0, <1>2, <2>2
      <4>2. k + h \in 1 .. m + h + n /\ ~ (k + h <= m) /\ (k + h) - h = k
        BY <1>0, <4>1
      <4>3. g[k + h] = IF k + h <= m THEN k + h ELSE (k + h) - h
        BY <1>5, <4>2, Zenon
      <4> QED BY <4>2, <4>3
    <3> QED BY <1>8, <3>2, <3>3
  <2> QED BY <2>1, <2>2
<1>9. \A i, j \in DOMAIN b : b[i].pole = p /\ b[j].pole = p /\ i < j => g[i] < g[j]
  <2> SUFFICES ASSUME NEW i \in DOMAIN b, NEW j \in DOMAIN b,
                      b[i].pole = p, b[j].pole = p, i < j
               PROVE  g[i] < g[j]
    OBVIOUS
  <2>1. /\ g[i] = IF i <= m THEN i ELSE i - h
        /\ g[j] = IF j <= m THEN j ELSE j - h
    BY <1>7
  <2>2. /\ i \in 1 .. m \/ i \in m + h + 1 .. m + h + n
        /\ j \in 1 .. m \/ j \in m + h + 1 .. m + h + n
    BY <1>6
  <2>3. CASE j \in 1 .. m
    <3>1. i <= m /\ j <= m
      BY <1>0, <2>2, <2>3
    <3> QED BY <2>1, <3>1
  <2>4. CASE i \in 1 .. m /\ j \in m + h + 1 .. m + h + n
    <3>1. i <= m /\ ~(j <= m) /\ i < j - h
      BY <1>0, <2>4
    <3> QED BY <2>1, <3>1
  <2>5. CASE i \in m + h + 1 .. m + h + n /\ j \in m + h + 1 .. m + h + n
    <3>1. ~(i <= m) /\ ~(j <= m) /\ i - h < j - h
      BY <1>0, <2>5
    <3> QED BY <2>1, <3>1
  <2> QED BY <2>2, <2>3, <2>4, <2>5
<1>10. DOMAIN a \subseteq Int /\ DOMAIN b \subseteq Int /\ Linked(a, p, level)
  BY <1>2, <1>4 DEF a
<1>11. Linked(b, p, level)
  <2>1. \A i \in DOMAIN b : b[i].pole = p => g[i] \in DOMAIN a /\ a[g[i]] = b[i]
    BY <1>7
  <2>2. \A k \in DOMAIN a : a[k].pole = p =>
          \/ \E i \in DOMAIN b : b[i].pole = p /\ g[i] = k
          \/ \A i \in DOMAIN b : b[i].pole = p => k < g[i]
    BY <1>8
  <2> QED BY <1>9, <1>10, <2>1, <2>2, LinkedElsewhere
<1> QED BY <1>11 DEF b

(* A flush sends what waits for the transformer of p, among changes of     *)
(* other transformers.                                                     *)
LEMMA BatchesAround ==
  ASSUME LiveInv, ChainInv, NEW p \in Pole
  PROVE  \E x, y \in Seq(OfOthers(p)) :
           FlattenSeq(Batches) = (x \o batches[DtOf[p]]) \o y
<1> DEFINE S == {d \in Dt : batches[d] # <<>>}
           n == Cardinality(S)
           order == SetToSeq(S)
           T == Seq(OfOthers(p))
<1>1. IsFiniteSet(S)
  BY FS_Subset, LiveAssumption
<1>2. /\ n \in Nat /\ order \in [1 .. n -> S]
      /\ \A i, j \in 1 .. n : order[i] = order[j] => i = j
      /\ \A d \in S : \E i \in 1 .. n : order[i] = d
  BY <1>1, SetToSeqLists
<1>3. Batches = [i \in 1 .. n |-> batches[order[i]]]
  <2>1. Batches = [i \in DOMAIN order |-> batches[order[i]]]
    BY DEF Batches
  <2> QED BY <1>2, <2>1
<1>4. batches \in [Dt -> Seq(PoleChange)] /\ DtOf[p] \in Dt
  BY LiveAssumption DEF LiveInv, TypeOK
<1>5. ASSUME NEW d \in Dt, d # DtOf[p]
      PROVE  batches[d] \in T
  <2>1. \A i \in DOMAIN batches[d] : batches[d][i] \in OfOthers(p)
    BY <1>4, <1>5 DEF ChainInv, OfOthers
  <2> QED BY <1>4, <2>1
<1>6. S \subseteq Dt
  OBVIOUS
<1>7. <<>> \in T
  OBVIOUS
<1> DEFINE b == batches[DtOf[p]]
<1>8. CASE DtOf[p] \notin S
  <2>1. b = <<>>
    BY <1>4, <1>8
  <2>2. Batches \in Seq(T)
    <3> HIDE DEF S, n, order, T
    <3>1. \A i \in 1 .. n : batches[order[i]] \in T
      BY <1>2, <1>5, <1>6, <1>8
    <3> QED BY <1>2, <1>3, <3>1
  <2>3. FlattenSeq(Batches) \in T
    BY <2>2, FlattenTypes
  <2>4. FlattenSeq(Batches) = (FlattenSeq(Batches) \o b) \o <<>>
    BY <2>1, <2>3
  <2> QED BY <1>7, <2>3, <2>4
<1>9. CASE DtOf[p] \in S
  <2>1. PICK k \in 1 .. n : order[k] = DtOf[p]
    BY <1>2, <1>9
  <2> HIDE DEF S, n, order
  <2>2. \A i \in 1 .. n : i # k => batches[order[i]] \in T
    BY <1>2, <1>5, <1>6, <2>1
  <2> DEFINE U == Seq(PoleChange)
             first == [i \in 1 .. k - 1 |-> batches[order[i]]]
             rest == [i \in 1 .. n - k |-> batches[order[k + i]]]
  <2>3. first \in Seq(T) /\ rest \in Seq(T)
    <3>1. \A i \in 1 .. k - 1 : batches[order[i]] \in T
      BY <1>2, <2>2
    <3>2. \A i \in 1 .. n - k : batches[order[k + i]] \in T
      BY <1>2, <2>2
    <3> HIDE DEF T
    <3> QED BY <1>2, <3>1, <3>2
  <2>4. T \subseteq U
    BY DEF OfOthers
  <2>5. first \in Seq(U) /\ rest \in Seq(U) /\ b \in U
    <3> HIDE DEF T, U, first, rest
    <3>1. b \in U
      BY <1>4 DEF U
    <3> QED BY <2>3, <2>4, <3>1
  <2>6. Batches = (first \o <<b>>) \o rest
    <3>1. /\ first \in Seq(U) /\ rest \in Seq(U)
          /\ Len(first) = k - 1 /\ Len(rest) = n - k
          /\ \A i \in 1 .. k - 1 : first[i] = batches[order[i]]
          /\ \A i \in 1 .. n - k : rest[i] = batches[order[k + i]]
      BY <1>2, <2>5
    <3>2. b = batches[order[k]]
      BY <2>1
    <3> DEFINE m == (first \o <<b>>) \o rest
    <3> HIDE DEF first, rest, b, T, U
    <3>3. /\ m \in Seq(U) /\ Len(m) = n
          /\ \A i \in 1 .. k - 1 : m[i] = first[i]
          /\ m[k] = b
          /\ \A i \in 1 .. n - k : m[k + i] = rest[i]
      BY <1>2, <2>1, <2>5, <3>1
    <3>4. ASSUME NEW i \in 1 .. n
          PROVE  m[i] = batches[order[i]]
      <4>1. CASE i <= k
        BY <1>2, <3>1, <3>2, <3>3, <4>1
      <4>2. CASE ~ (i <= k)
        <5>1. i - k \in 1 .. n - k /\ k + (i - k) = i
          BY <1>2, <4>2
        <5> HIDE DEF m
        <5> QED BY <3>1, <3>3, <5>1
      <4> QED BY <4>1, <4>2
    <3>5. m = [i \in 1 .. n |-> batches[order[i]]]
      <4> HIDE DEF m
      <4> QED BY <1>2, <3>3, <3>4
    <3> QED BY <1>3, <3>5
  <2>7. /\ FlattenSeq(first) \in T /\ FlattenSeq(rest) \in T
        /\ FlattenSeq(first) \in U /\ FlattenSeq(<<b>>) = b
        /\ <<b>> \in Seq(U) /\ first \o <<b>> \in Seq(U)
    <3> HIDE DEF first, rest, b
    <3>1. FlattenSeq(first) \in T /\ FlattenSeq(rest) \in T
      BY <2>3, FlattenTypes
    <3>2. FlattenSeq(<<b>>) = b
      <4>1. <<>> \in Seq(U) /\ <<>> \in U
        OBVIOUS
      <4>2. FlattenSeq(Append(<<>>, b)) = <<>> \o b
        BY <2>5, <4>1, FlattenNothing, FlattenAppends
      <4>3. Append(<<>>, b) = <<b>> /\ <<>> \o b = b
        BY <2>5
      <4> QED BY <4>2, <4>3
    <3> HIDE DEF U, T
    <3>3. <<b>> \in Seq(U) /\ first \o <<b>> \in Seq(U)
      BY <2>5
    <3> QED BY <2>4, <3>1, <3>2, <3>3
  <2>8. /\ FlattenSeq(first \o <<b>>) = FlattenSeq(first) \o b
        /\ FlattenSeq(first \o <<b>>) \in U
    <3> HIDE DEF first, rest, b
    <3>1. FlattenSeq(first \o <<b>>) = FlattenSeq(first) \o FlattenSeq(<<b>>)
      <4>1. PICK one : one = <<b>>
        OBVIOUS
      <4>2. /\ first \in Seq(Seq(PoleChange)) /\ one \in Seq(Seq(PoleChange))
            /\ FlattenSeq(first) \in Seq(PoleChange)
        BY <2>5, <2>7, <4>1
      <4> HIDE DEF T, U
      <4>3. FlattenSeq(first \o one) = FlattenSeq(first) \o FlattenSeq(one)
        BY <4>2, FlattenJoins
      <4> QED BY <4>1, <4>3
    <3>2. FlattenSeq(first \o <<b>>) \in U
      BY <2>7, FlattenTypes
    <3> QED BY <2>7, <3>1, <3>2
  <2>9. FlattenSeq(Batches) = FlattenSeq(first \o <<b>>) \o FlattenSeq(rest)
    <3> HIDE DEF first, rest, b
    <3> QED BY <2>5, <2>6, <2>7, <2>8, FlattenJoins
  <2> HIDE DEF first, rest, T
  <2> QED BY <2>7, <2>8, <2>9 DEF T
<1> QED BY <1>8, <1>9
(* A change that is published starts from the level that the changes       *)
(* before it ended at.                                                     *)
LEMMA ChainPublish ==
  ASSUME LiveInv, ChainInv, NEW p \in Pole, PublishPoleStateTransition(p)
  PROVE  ChainInv'
<1> DEFINE c == [pole |-> p, from |-> live[p], to |-> ~ live[p]]
           flat == FlattenSeq(channel)
<1>1. /\ batches \in [Dt -> Seq(PoleChange)] /\ live \in [Pole -> BOOLEAN]
      /\ \A q \in Pole : DtOf[q] \in Dt
      /\ channel \in Seq(Seq(PoleChange))
  BY LiveAssumption DEF LiveInv, TypeOK
<1>2. c \in PoleChange /\ c.pole = p /\ c.from = live[p] /\ c.to = ~ live[p]
  BY <1>1 DEF PoleChange
<1>3. /\ batches' = [batches EXCEPT ![DtOf[p]] = Append(@, c)]
      /\ live' = [live EXCEPT ![p] = ~ @]
      /\ up /\ up' = up /\ channel' = channel /\ attached' = attached
  BY DEF PublishPoleStateTransition, linkVars
<1>4. flat \in Seq(PoleChange)
  BY <1>1, FlattenTypes
<1> HIDE DEF c, flat
<1>5. /\ batches'[DtOf[p]] = Append(batches[DtOf[p]], c)
      /\ \A d \in Dt : d # DtOf[p] => batches'[d] = batches[d]
      /\ live'[p] = c.to
      /\ \A q \in Pole : q # p => live'[q] = live[q]
  BY <1>1, <1>2, <1>3
<1>6. ASSUME NEW s \in Seq(PoleChange), NEW q \in Pole,
             Linked(s \o batches[DtOf[q]], q, live[q])
      PROVE  Linked(s \o batches'[DtOf[q]], q, live'[q])
  <2>1. CASE DtOf[q] # DtOf[p]
    <3>1. q # p /\ batches'[DtOf[q]] = batches[DtOf[q]] /\ live'[q] = live[q]
      BY <1>1, <1>5, <2>1
    <3> QED BY <1>6, <3>1
  <2>2. CASE DtOf[q] = DtOf[p]
    <3> DEFINE b == batches[DtOf[q]]
    <3>1. b \in Seq(PoleChange) /\ s \o b \in Seq(PoleChange)
      BY <1>1
    <3>2. batches'[DtOf[q]] = Append(b, c)
      BY <1>5, <2>2
    <3> HIDE DEF b
    <3>3. s \o Append(b, c) = Append(s \o b, c)
      BY <1>2, <3>1
    <3>4. Linked(s \o b, q, live[q])
      BY <1>6 DEF b
    <3>5. CASE q = p
      <4>1. Linked(Append(s \o b, c), q, c.to)
        BY <1>2, <3>1, <3>4, <3>5, LinkedAppend
      <4> QED BY <1>5, <3>2, <3>3, <3>5, <4>1
    <3>6. CASE q # p
      <4>1. Linked(Append(s \o b, c), q, live[q])
        BY <1>2, <3>1, <3>4, <3>6, LinkedAppend
      <4> QED BY <1>5, <3>2, <3>3, <3>6, <4>1
    <3> QED BY <3>5, <3>6
  <2> QED BY <2>1, <2>2
<1>7. ASSUME NEW d \in Dt, NEW i \in DOMAIN batches'[d]
      PROVE  DtOf[batches'[d][i].pole] = d
  <2>1. CASE d = DtOf[p]
    <3> DEFINE b == batches[d]
    <3>1. b \in Seq(PoleChange) /\ batches'[d] = Append(b, c)
      BY <1>1, <1>5, <2>1
    <3>2. \A k \in DOMAIN b : DtOf[b[k].pole] = d
      BY DEF ChainInv
    <3> HIDE DEF b
    <3>3. (i \in DOMAIN b /\ batches'[d][i] = b[i]) \/ batches'[d][i] = c
      BY <1>2, <1>7, <3>1
    <3> QED BY <1>2, <2>1, <3>2, <3>3
  <2>2. CASE d # DtOf[p]
    BY <1>5, <1>7, <2>2 DEF ChainInv
  <2> QED BY <2>1, <2>2
<1>8. \A q \in Pole : Linked(batches'[DtOf[q]], q, live'[q])
  <2> SUFFICES ASSUME NEW q \in Pole PROVE Linked(batches'[DtOf[q]], q, live'[q])
    OBVIOUS
  <2>1. /\ batches[DtOf[q]] \in Seq(PoleChange)
        /\ batches'[DtOf[q]] \in Seq(PoleChange)
    <3>1. batches[DtOf[q]] \in Seq(PoleChange) /\ DtOf[q] \in Dt
      BY <1>1
    <3>2. Append(batches[DtOf[q]], c) \in Seq(PoleChange)
      BY <1>2, <3>1
    <3> QED BY <1>5, <3>1, <3>2
  <2>2. /\ <<>> \o batches[DtOf[q]] = batches[DtOf[q]]
        /\ <<>> \o batches'[DtOf[q]] = batches'[DtOf[q]]
        /\ <<>> \in Seq(PoleChange)
    BY <2>1
  <2>3. Linked(batches[DtOf[q]], q, live[q])
    BY DEF ChainInv
  <2> QED BY <1>6, <2>2, <2>3
<1>9. attached' => \A q \in Pole :
        Linked(FlattenSeq(channel') \o batches'[DtOf[q]], q, live'[q])
  BY <1>3, <1>4, <1>6 DEF ChainInv, flat
<1> QED BY <1>3, <1>7, <1>8, <1>9 DEF ChainInv

(* What a flush takes from the batches it adds to the channel.             *)
LEMMA ChainFlush ==
  ASSUME LiveInv, ChainInv, FlushPoleStateChanges
  PROVE  ChainInv'
<1>1. /\ batches \in [Dt -> Seq(PoleChange)] /\ \A q \in Pole : DtOf[q] \in Dt
      /\ channel \in Seq(Seq(PoleChange)) /\ Batches \in Seq(Seq(PoleChange))
  BY LiveAssumption, BatchesAreSent DEF LiveInv, TypeOK
<1>2. /\ \A d \in Dt : batches'[d] = <<>>
      /\ live' = live /\ attached' = attached /\ channel' = Sent(Batches)
  BY DEF FlushPoleStateChanges
<1>3. FlattenSeq(channel) \in Seq(PoleChange)
  BY <1>1, FlattenTypes
<1>4. ASSUME attached, NEW p \in Pole
      PROVE  Linked(FlattenSeq(channel') \o batches'[DtOf[p]], p, live'[p])
  <2>1. channel' = channel \o Batches
    BY <1>2, <1>4 DEF Sent
  <2>2. FlattenSeq(channel') = FlattenSeq(channel) \o FlattenSeq(Batches)
    BY <1>1, <1>3, <2>1, FlattenJoins
  <2>3. PICK x \in Seq(OfOthers(p)), y \in Seq(OfOthers(p)) :
          FlattenSeq(Batches) = (x \o batches[DtOf[p]]) \o y
    BY BatchesAround
  <2>4. Linked(FlattenSeq(channel) \o batches[DtOf[p]], p, live[p])
    BY <1>4 DEF ChainInv
  <2>5. batches[DtOf[p]] \in Seq(PoleChange)
    BY <1>1
  <2>6. Linked(FlattenSeq(channel) \o ((x \o batches[DtOf[p]]) \o y), p, live[p])
    BY <1>3, <2>4, <2>5, LinkedAmong
  <2>7. /\ FlattenSeq(channel') \in Seq(PoleChange)
        /\ batches'[DtOf[p]] = <<>> /\ live'[p] = live[p]
    <3>1. FlattenSeq(Batches) \in Seq(PoleChange)
      BY <1>1, FlattenTypes
    <3>2. FlattenSeq(channel') \in Seq(PoleChange)
      BY <1>3, <2>2, <3>1
    <3> QED BY <1>1, <1>2, <3>2
  <2>8. FlattenSeq(channel') \o <<>> = FlattenSeq(channel')
    BY <2>7
  <2> QED BY <2>2, <2>3, <2>6, <2>7, <2>8
<1>5. \A p \in Pole : Linked(batches'[DtOf[p]], p, live'[p])
  BY <1>1, <1>2 DEF Linked
<1> QED BY <1>2, <1>4, <1>5 DEF ChainInv

(* The other steps take announcements away, or add one without a change.   *)
LEMMA ChainOthers ==
  ASSUME LiveInv, ChainInv,
         \/ Commit \/ PublishRecord \/ CommitUnacknowledged
         \/ OutageWindowPasses
         \/ Crash \/ Restart
         \/ Refocus \/ Select
         \/ \E q \in Query : Poll(q) \/ ReadModel(q) \/ Respond(q) \/ FetchFails(q)
         \/ \E d \in Dt : Collect(d)
         \/ Accept \/ OnOpen \/ OnMessage \/ OnClose \/ Reconnect
         \/ UNCHANGED vars
  PROVE  ChainInv'
<1>1. /\ batches \in [Dt -> Seq(PoleChange)] /\ \A q \in Pole : DtOf[q] \in Dt
      /\ channel \in Seq(Seq(PoleChange))
  BY LiveAssumption DEF LiveInv, TypeOK
<1>2. CASE Crash \/ Restart
  <2>1. (\A d \in Dt : batches'[d] = <<>>) /\ attached' = FALSE
    <3>1. CASE Crash
      BY <3>1 DEF Crash
    <3>2. CASE Restart
      <4>1. batches' = batches /\ attached' = attached /\ ~ up
        BY <3>2 DEF Restart, linkVars
      <4> QED BY <4>1 DEF ChainInv, LiveInv, ServerHolds, TypeOK
    <3> QED BY <1>2, <3>1, <3>2
  <2>2. \A p \in Pole : Linked(batches'[DtOf[p]], p, live'[p])
    BY <1>1, <2>1 DEF Linked
  <2> QED BY <2>1, <2>2 DEF ChainInv
<1>3. CASE Accept \/ OnClose
  <2>1. UNCHANGED <<up, batches, live>> /\ (attached' => channel' = <<>>)
    BY <1>3 DEF Accept, OnClose, serverVars, poleVars
  <2>2. \A p \in Pole : Linked(batches'[DtOf[p]], p, live'[p])
    BY <2>1 DEF ChainInv
  <2>3. ASSUME attached', NEW p \in Pole
        PROVE  Linked(FlattenSeq(channel') \o batches'[DtOf[p]], p, live'[p])
    <3>1. FlattenSeq(channel') = <<>>
      BY <2>1, <2>3, FlattenNothing
    <3>2. batches'[DtOf[p]] \in Seq(PoleChange)
      BY <1>1, <2>1
    <3>3. <<>> \o batches'[DtOf[p]] = batches'[DtOf[p]]
      BY <3>2
    <3> QED BY <2>2, <3>1, <3>3
  <2> QED BY <2>1, <2>2, <2>3 DEF ChainInv
<1>4. CASE PublishRecord
  <2>1. UNCHANGED <<up, batches, live, attached>>
    BY <1>4 DEF PublishRecord, poleVars
  <2>2. FlattenSeq(channel') = FlattenSeq(channel)
    <3> DEFINE U == Seq(PoleChange)
    <3>1. <<>> \in U /\ FlattenSeq(channel) \in U
      BY <1>1, FlattenTypes
    <3>2. FlattenSeq(Append(channel, <<>>)) = FlattenSeq(channel) \o <<>>
      BY <1>1, <3>1, FlattenAppends
    <3>3. FlattenSeq(channel) \o <<>> = FlattenSeq(channel)
      BY <3>1
    <3>4. channel' = Append(channel, <<>>) \/ channel' = channel
      <4>1. channel' = channel \o <<RecordNews>> \/ channel' = channel
        BY <1>4 DEF PublishRecord, Sent
      <4> HIDE DEF U
      <4>2. channel \o << <<>> >> = Append(channel, <<>>)
        BY <1>1, <3>1 DEF U
      <4> QED BY <4>1, <4>2 DEF RecordNews
    <3> QED BY <3>2, <3>3, <3>4
  <2> QED BY <2>1, <2>2 DEF ChainInv
<1>5. CASE OnMessage
  <2>1. /\ UNCHANGED <<up, batches, live, attached>>
        /\ channel # <<>> /\ channel' = Tail(channel)
    BY <1>5 DEF OnMessage, serverVars, poleVars
  <2>2. ASSUME attached, NEW p \in Pole
        PROVE  Linked(FlattenSeq(channel') \o batches[DtOf[p]], p, live[p])
    <3> DEFINE U == Seq(PoleChange)
    <3>1. PICK m, rest : m = Head(channel) /\ rest = Tail(channel)
      OBVIOUS
    <3>2. m \in U /\ rest \in Seq(U) /\ channel = <<m>> \o rest
      <4> HIDE DEF U
      <4>1. channel \in Seq(U)
        BY <1>1 DEF U
      <4> QED BY <2>1, <3>1, <4>1
    <3>3. FlattenSeq(<<m>>) = m
      <4>1. <<>> \in Seq(U) /\ <<>> \in U /\ Append(<<>>, m) = <<m>> /\ <<>> \o m = m
        BY <3>2
      <4>2. FlattenSeq(Append(<<>>, m)) = <<>> \o m
        BY <3>2, <4>1, FlattenNothing, FlattenAppends
      <4> QED BY <4>1, <4>2
    <3>4. <<m>> \in Seq(U)
      <4> HIDE DEF U
      <4> QED BY <3>2
    <3>5. FlattenSeq(channel) = m \o FlattenSeq(rest) /\ FlattenSeq(rest) \in U
      BY <3>2, <3>3, <3>4, FlattenJoins
    <3> DEFINE r == FlattenSeq(rest)
               b == batches[DtOf[p]]
    <3>6. b \in U
      BY <1>1
    <3>7. Linked((m \o r) \o b, p, live[p])
      BY <2>2, <3>5 DEF ChainInv
    <3> HIDE DEF r, b
    <3>8. (m \o r) \o b = m \o (r \o b) /\ r \o b \in U
      BY <3>2, <3>5, <3>6 DEF r
    <3>9. Linked(r \o b, p, live[p])
      BY <3>2, <3>7, <3>8, LinkedRest
    <3> QED BY <2>1, <3>1, <3>9 DEF r, b
  <2> QED BY <2>1, <2>2 DEF ChainInv
<1>6. CASE UNCHANGED <<up, batches, live, attached, channel>>
  BY <1>6 DEF ChainInv
<1>7. UNCHANGED <<up, batches, live, attached, channel>>
        \/ Crash \/ Restart \/ Accept \/ OnClose \/ PublishRecord \/ OnMessage
  BY DEF Commit, CommitUnacknowledged, OutageWindowPasses, Refocus, Select, Poll,
         Refetch, ReadModel, Respond, RespondRecords, RespondPoles, FetchFails,
         Collect, OnOpen, Reconnect, vars, serverVars, poleVars, linkVars
<1> QED BY <1>2, <1>3, <1>4, <1>5, <1>6, <1>7

(* What a connected browser is told of a pole, now and by the messages     *)
(* that are still to come, is a chain that ends at the level of the pole:  *)
(* none is lost, doubled or overtaken on the way through the batches and   *)
(* the flushes (live-updates.ts).                                          *)
THEOREM ChangesAreChained == Spec => []ChangesChain
<1>1. Init => ChainInv
  <2> SUFFICES ASSUME Init PROVE ChainInv
    OBVIOUS
  <2>1. (\A d \in Dt : batches[d] = <<>>) /\ up /\ ~ attached
    BY DEF Init
  <2>2. \A p \in Pole : DtOf[p] \in Dt
    BY LiveAssumption
  <2> QED BY <2>1, <2>2 DEF ChainInv, Linked
<1>2. LiveInv /\ ChainInv /\ [Next]_vars => ChainInv'
  BY ChainPublish, ChainFlush, ChainOthers DEF Next
<1>3. LiveInv /\ ChainInv => ChangesChain
  <2> SUFFICES ASSUME LiveInv, ChainInv, attached \/ channel = <<>>, NEW p \in Pole
               PROVE  Chained(FlattenSeq(channel) \o batches[DtOf[p]], p)
    BY DEF ChangesChain
  <2>1. batches[DtOf[p]] \in Seq(PoleChange) /\ FlattenSeq(channel) \in Seq(PoleChange)
    <3>1. channel \in Seq(Seq(PoleChange)) /\ batches[DtOf[p]] \in Seq(PoleChange)
      BY LiveAssumption DEF LiveInv, TypeOK
    <3> QED BY <3>1, FlattenTypes
  <2>2. FlattenSeq(channel) \o batches[DtOf[p]] \in Seq(PoleChange)
    BY <2>1
  <2>3. Linked(FlattenSeq(channel) \o batches[DtOf[p]], p, live[p])
    <3>1. CASE attached
      BY <3>1 DEF ChainInv
    <3>2. CASE channel = <<>>
      <4>1. <<>> \o batches[DtOf[p]] = batches[DtOf[p]]
        BY <2>1
      <4> QED BY <3>2, <4>1, FlattenNothing DEF ChainInv
    <3> QED BY <3>1, <3>2
  <2> QED BY <2>2, <2>3, LinkedIsChained
<1> QED BY <1>1, <1>2, <1>3, LiveInvInit, LiveInvNext, PTL DEF Spec
=============================================================================
