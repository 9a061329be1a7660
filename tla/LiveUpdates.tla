---------------------------- MODULE LiveUpdates ----------------------------
(***************************************************************************)
(* From a change on the server to the operator's screen: LiveUpdates and   *)
(* the WebSocketEmitter announce a change, and the dashboard, for which an *)
(* announcement is only a reason to read again, fetches it over REST.      *)
(* Browsers do not meet: the module follows one of them.                   *)
(*                                                                         *)
(* The page has one query for the pole states of each transformer, of      *)
(* which it shows that of the selected fault, and queries for the summary, *)
(* the faults and the tickets.  These three are treated alike everywhere,  *)
(* and each of them does what Records does here.  What a query shows is a  *)
(* version: a change of what the screen would show makes a new one, and a  *)
(* response carries the version it was read at (of several pages, the      *)
(* first's).                                                               *)
(*                                                                         *)
(* Where the code leaves a query on a connected screen behind for good,    *)
(* the query is marked as excused until it asks again: the properties      *)
(* promise that there is no other such place.                              *)
(***************************************************************************)
EXTENDS Integers, Sequences, FiniteSets, SequencesExt

CONSTANTS
  Pole,
  Dt,          \* the distribution transformers
  DtOf,        \* the transformer of a pole
  Records,     \* the query of the summary (and those of faults and tickets)
  Nothing,     \* a query without data; no fault to select
  MaxVersion   \* bound: changes

ASSUME LiveAssumption ==
  /\ DtOf \in [Pole -> Dt]
  /\ IsFiniteSet(Dt)
  /\ Records \notin Dt
  /\ Nothing \notin 0..MaxVersion \cup Dt \cup {Records}
  /\ MaxVersion \in Nat

VARIABLES
  up,          \* whether the server runs
  version,     \* version[q]: of what REST would answer to query q
  live,        \* live[p]: whether PoleStateService's cache has p LIVE
  due,         \* committed changes of faults and tickets to be announced
  batches,     \* batches[d]: pendingPoleChangesByDt
  scheduled,   \* poleFlushScheduled
  flushes,     \* the flushes waiting in the microtask queue
  attached,    \* whether the emitter has the browser's connection
  channel,     \* the messages on their way to the browser
  socket,      \* the browser's WebSocket
  notified,    \* useWebSocket's fallbackNotified
  polling,     \* the page's polling state
  selected,    \* the transformer of the selected fault
  fetch,       \* fetch[q]: the request of q: its state and version read
  view,        \* view[q]: the version of q's data
  excused      \* history: the shown queries that may stay behind

poleVars   == <<live, batches, scheduled, flushes>>
serverVars == <<up, version, due, poleVars>>
linkVars   == <<attached, channel>>
hookVars   == <<socket, notified, polling>>
queryVars  == <<selected, fetch, view, excused>>
vars == <<serverVars, linkVars, hookVars, queryVars>>

Query == {Records} \cup Dt

(* The queries that have an observer and are enabled.                      *)
Shown == {Records} \cup ({selected} \cap Dt)

PoleChange == [pole : Pole, from : BOOLEAN, to : BOOLEAN]

(* A batch of pole changes, or the news of a fault, ticket or simulation   *)
(* (an empty list of changes: the browser does not look inside).           *)
RecordNews == <<>>

NoFetch == [state |-> "none", read |-> Nothing]

Asked == [state |-> "asked", read |-> Nothing]

Read(v) == [state |-> "read", read |-> v]
-----------------------------------------------------------------------------
Init ==
  /\ up = TRUE
  /\ version = [q \in Query |-> 0]
  /\ live = [p \in Pole |-> TRUE]
  /\ due = 0
  /\ batches = [d \in Dt |-> <<>>]
  /\ scheduled = FALSE
  /\ flushes = 0
  /\ attached = FALSE
  /\ channel = <<>>
  /\ socket = "connecting"
  /\ notified = FALSE
  /\ polling = FALSE
  /\ selected = Nothing
  /\ fetch = [q \in Query |-> IF q = Records THEN Asked ELSE NoFetch]
  /\ view = [q \in Query |-> Nothing]
  /\ excused = [q \in Query |-> FALSE]
-----------------------------------------------------------------------------
(* The server.                                                             *)

(* broadcast(): a message goes to the connections that are open.           *)
Sent(messages) == IF attached THEN channel \o messages ELSE channel

(* Every change shows in the summary; MaxVersion bounds them all.          *)
Changes(queries) ==
  /\ version[Records] < MaxVersion
  /\ version' = [q \in Query |->
                   IF q \in queries THEN version[q] + 1 ELSE version[q]]

(* Whether query q will show the newest version once its request in flight *)
(* is done.                                                                *)
WillShowNewest(q) ==
  CASE fetch[q].state = "none"  -> view[q] = version[q]
    [] fetch[q].state = "asked" -> TRUE
    [] fetch[q].state = "read"  -> fetch[q].read = version[q]

(* A flush is queued unless the flag says that one is.                     *)
FlushesAnyway(flag) == flushes + 1

FlushesWith(flag) == IF flag THEN flushes ELSE flushes + 1

(* PoleStateService puts the new state in its cache, which REST reads, and *)
(* publishes the transition, in one piece.                                 *)
PublishPoleStateTransition(p) ==
  /\ up /\ Changes({Records, DtOf[p]})
  /\ live' = [live EXCEPT ![p] = ~ @]
  /\ batches' = [batches EXCEPT ![DtOf[p]] =
                   Append(@, [pole |-> p, from |-> live[p], to |-> ~ live[p]])]
  /\ scheduled' = TRUE
  /\ flushes' = FlushesWith(scheduled)
  /\ UNCHANGED <<up, due, linkVars, hookVars, queryVars>>

NewestFirst ==
  LET pending == SetToSeq({d \in Dt : batches[d] # <<>>})
  IN  [i \in DOMAIN pending |-> Reverse(batches[pending[i]])]

(* The messages of a flush: one per transformer that has changes.          *)
Batches ==
  LET pending == SetToSeq({d \in Dt : batches[d] # <<>>})
  IN  [i \in DOMAIN pending |-> batches[pending[i]]]

FlushPoleStateChanges ==
  /\ up /\ flushes > 0
  /\ scheduled' = FALSE
  /\ flushes' = flushes - 1
  /\ channel' = Sent(Batches)
  /\ batches' = [d \in Dt |-> <<>>]
  /\ UNCHANGED <<up, version, live, due, attached, hookVars, queryVars>>

(* A transaction on faults or tickets commits; the code that waits for it  *)
(* publishes when it resumes.                                              *)
Commit ==
  /\ up /\ Changes({Records})
  /\ due' = due + 1
  /\ UNCHANGED <<up, poleVars, linkVars, hookVars, queryVars>>

PublishRecord ==
  /\ up /\ due > 0
  /\ due' = due - 1
  /\ channel' = Sent(<<RecordNews>>)
  /\ UNCHANGED <<up, version, poleVars, attached, hookVars, queryVars>>

(* The acknowledgement of the commit is lost: the caller sees an error and *)
(* publishes nothing.                                                      *)
CommitUnacknowledged ==
  /\ up /\ due > 0
  /\ due' = due - 1
  /\ excused' = [excused EXCEPT ![Records] = @ \/ ~ WillShowNewest(Records)]
  /\ UNCHANGED <<up, version, poleVars, linkVars, hookVars, selected, fetch, view>>

(* The summary counts the planned outages of the moment: it changes with   *)
(* the clock, and nothing announces that.                                  *)
OutageWindowPasses ==
  /\ Changes({Records})
  /\ excused' = [excused EXCEPT ![Records] = @ \/ fetch[Records].state # "asked"]
  /\ UNCHANGED <<up, due, poleVars, linkVars, hookVars, selected, fetch, view>>

(* The end of the process closes its connections; what was sent may still  *)
(* arrive before the browser notices.                                      *)
Crash ==
  /\ up /\ up' = FALSE
  /\ due' = 0
  /\ batches' = [d \in Dt |-> <<>>]
  /\ scheduled' = FALSE
  /\ flushes' = 0
  /\ attached' = FALSE
  /\ UNCHANGED <<version, live, channel, hookVars, queryVars>>

(* The cache is read from pole_states, which may be one update ahead of    *)
(* the cache that was lost.                                                *)
Restart ==
  /\ ~ up /\ up' = TRUE
  /\ \/ UNCHANGED <<version, live>>
     \/ \E p \in Pole : /\ Changes({Records, DtOf[p]})
                         /\ live' = [live EXCEPT ![p] = ~ @]
  /\ UNCHANGED <<due, batches, scheduled, flushes, linkVars, hookVars, queryVars>>
-----------------------------------------------------------------------------
(* The queries.                                                            *)

(* An invalidation replaces a request in flight; but as long as the query  *)
(* has no data, it lets the request finish.                                *)
LetsItFinish(q) == fetch[q].state # "none" /\ view[q] = Nothing

(* Queries that are not on the screen are read again when they are.        *)
Invalidate ==
  /\ fetch' = [q \in Query |->
                 IF q \in Shown /\ ~ LetsItFinish(q) THEN Asked ELSE fetch[q]]
  /\ excused' = [q \in Query |->
                   q \in Shown /\ LetsItFinish(q) /\ ~ WillShowNewest(q)]
  /\ UNCHANGED <<selected, view>>

(* The polling interval, or the operator coming back to the window: these  *)
(* do not disturb a request in flight.                                     *)
Refetch(queries) ==
  LET idle == {q \in queries \cap Shown : fetch[q].state = "none"}
  IN  /\ idle # {}
      /\ fetch' = [q \in Query |-> IF q \in idle THEN Asked ELSE fetch[q]]
      /\ excused' = [q \in Query |-> q \notin idle /\ excused[q]]
      /\ UNCHANGED <<serverVars, linkVars, hookVars, selected, view>>

PollUntilLoaded(q) == polling /\ view[q] = Nothing /\ Refetch({q})

Poll(q) == polling /\ Refetch({q})

Refocus == Refetch(Query)

ReadModel(q) ==
  /\ up /\ fetch[q].state = "asked"
  /\ fetch' = [fetch EXCEPT ![q] = Read(version[q])]
  /\ UNCHANGED <<serverVars, linkVars, hookVars, selected, view, excused>>

(* The pole states of s are shown: if they were not before, their query    *)
(* asks, whatever data it has, but joins a request that is still in flight *)
(* from the last time they were.  A query off the screen needs no excuse.  *)
Show(s, fetching) ==
  /\ selected' = s
  /\ fetch' = IF s \in Dt \ {selected} /\ fetching[s].state = "none"
              THEN [fetching EXCEPT ![s] = Asked] ELSE fetching
  /\ excused' = [q \in Query |->
                   IF q = s /\ s # selected
                   THEN fetching[s].state # "none" /\ ~ WillShowNewest(s)
                   ELSE q \in {Records, s} /\ excused[q]]

(* The operator selects a fault of another transformer.                    *)
Select ==
  /\ selected # Nothing
  /\ \E d \in Dt \ {selected} : Show(d, fetch)
  /\ UNCHANGED <<serverVars, linkVars, hookVars, view>>

RespondPoles(d) ==
  /\ fetch[d].state = "read"
  /\ view' = [view EXCEPT ![d] = fetch[d].read]
  /\ fetch' = [fetch EXCEPT ![d] = NoFetch]
  /\ UNCHANGED <<serverVars, linkVars, hookVars, selected, excused>>

(* New records may move the default selection, the newest active fault, or *)
(* take the selected fault away.                                           *)
RespondRecords ==
  /\ fetch[Records].state = "read"
  /\ view' = [view EXCEPT ![Records] = fetch[Records].read]
  /\ \E s \in Dt \cup {Nothing} :
       /\ fetch[Records].read = view[Records] => s = selected
       /\ Show(s, [fetch EXCEPT ![Records] = NoFetch])
  /\ UNCHANGED <<serverVars, linkVars, hookVars>>

Respond(q) == IF q = Records THEN RespondRecords ELSE RespondPoles(q)

(* An error response, or none: the query gives up, and its data stay as    *)
(* they are.  A first failure on the screen is retried, which is to be     *)
(* asked for longer; so is a response lost on its way.                     *)
FetchFails(q) ==
  /\ fetch[q].state = "asked"
  /\ fetch' = [fetch EXCEPT ![q] = NoFetch]
  /\ excused' = [excused EXCEPT ![q] = q \in Shown]
  /\ UNCHANGED <<serverVars, linkVars, hookVars, selected, view>>

(* The data of a query that has not been on the screen for a while.        *)
Collect(d) ==
  /\ d \notin Shown /\ fetch[d].state = "none" /\ view[d] # Nothing
  /\ view' = [view EXCEPT ![d] = Nothing]
  /\ UNCHANGED <<serverVars, linkVars, hookVars, selected, fetch, excused>>
-----------------------------------------------------------------------------
(* useWebSocket, and what the page does on its callbacks.                  *)

(* The server registers the connection before the browser hears that it is *)
(* open.                                                                   *)
Accept ==
  /\ up /\ socket = "connecting" /\ ~ attached
  /\ attached' = TRUE
  /\ channel' = <<>>
  /\ UNCHANGED <<serverVars, hookVars, queryVars>>

NotifiedForGood == notified

NotifiedAfterOpen == FALSE

NoResync == UNCHANGED queryVars

Resync == Invalidate

OnOpen ==
  /\ socket = "connecting" /\ attached
  /\ socket' = "open"
  /\ notified' = NotifiedAfterOpen
  /\ polling' = FALSE
  /\ Resync
  /\ UNCHANGED <<serverVars, linkVars>>

OnMessage ==
  /\ socket = "open" /\ channel # <<>>
  /\ channel' = Tail(channel)
  /\ Invalidate
  /\ UNCHANGED <<serverVars, attached, hookVars>>

(* The connection breaks, or the attempt to connect fails.  Only the first *)
(* close since the last open calls for polling.                            *)
OnClose ==
  /\ socket \in {"connecting", "open"}
  /\ socket' = "closed"
  /\ attached' = FALSE
  /\ channel' = <<>>
  /\ polling' = IF notified THEN polling ELSE TRUE
  /\ notified' = TRUE
  /\ UNCHANGED <<serverVars, queryVars>>

(* The reconnect timer, whatever its backoff.                              *)
Reconnect ==
  /\ socket = "closed" /\ socket' = "connecting"
  /\ UNCHANGED <<serverVars, linkVars, notified, polling, queryVars>>
-----------------------------------------------------------------------------
Next ==
  \/ \E p \in Pole : PublishPoleStateTransition(p)
  \/ FlushPoleStateChanges
  \/ Commit \/ PublishRecord \/ CommitUnacknowledged
  \/ OutageWindowPasses
  \/ Crash \/ Restart
  \/ \E q \in Query : Poll(q) \/ ReadModel(q) \/ Respond(q) \/ FetchFails(q)
  \/ Refocus \/ Select
  \/ \E d \in Dt : Collect(d)
  \/ Accept \/ OnOpen \/ OnMessage \/ OnClose \/ Reconnect

Spec == Init /\ [][Next]_vars

(* Microtasks, timers and the answers of a running server come in the end. *)
(* A connection need never succeed, and a stopped server need not return.  *)
FairSpec ==
  /\ Spec
  /\ WF_vars(FlushPoleStateChanges)
  /\ WF_vars(PublishRecord)
  /\ \A q \in Query :
       WF_vars(Poll(q)) /\ WF_vars(ReadModel(q)) /\ WF_vars(Respond(q))
  /\ WF_vars(OnOpen)
  /\ WF_vars(OnMessage)
  /\ WF_vars(~ attached /\ OnClose)
-----------------------------------------------------------------------------
(* Types; and pole changes waiting for a flush always have the flag set,    *)
(* with a single flush in the queue, so that none of them is left behind.  *)
TypeOK ==
  /\ up \in BOOLEAN /\ scheduled \in BOOLEAN /\ attached \in BOOLEAN
  /\ notified \in BOOLEAN /\ polling \in BOOLEAN
  /\ version \in [Query -> 0..MaxVersion] /\ due \in 0..MaxVersion
  /\ live \in [Pole -> BOOLEAN]
  /\ batches \in [Dt -> Seq(PoleChange)]
  /\ channel \in Seq(Seq(PoleChange))
  /\ socket \in {"connecting", "open", "closed"}
  /\ selected \in Dt \cup {Nothing}
  /\ fetch \in [Query -> [state : {"none", "asked", "read"},
                           read : 0..MaxVersion \cup {Nothing}]]
  /\ view \in [Query -> 0..MaxVersion \cup {Nothing}]
  /\ excused \in [Query -> BOOLEAN]
  /\ flushes \in 0..1 /\ \A d \in Dt : batches[d] # <<>> => scheduled

(* An announcement that will make query q read again: any message does.    *)
OnTheWay(q) == (q = Records /\ due > 0) \/ flushes > 0 \/ channel # <<>>

(* A query that is on a connected screen and behind the server has an      *)
(* announcement on its way to it.  The exceptions are those that the code  *)
(* leaves open: a commit whose acknowledgement was lost announces nothing, *)
(* nor does the clock; a request that is the query's first, or that it     *)
(* finds in flight when it comes on the screen, is not repeated; a query   *)
(* gives up after its second failure.                                      *)
NoSilentGap ==
  socket = "open" /\ attached =>
    \A q \in Shown :
      WillShowNewest(q) \/ OnTheWay(q) \/ excused[q]

(* The screen reads by itself from every loss of the connection, also the  *)
(* second and the later ones, through all attempts to connect again, to    *)
(* the next opening; only the page's first attempt is without polling.     *)
PollingWhileDown ==
  /\ socket' = "open" => ~ polling'
  /\ socket' = "closed" => polling'
  /\ socket' = "connecting" /\ ~ polling' => socket = "connecting" /\ ~ polling

DownMeansPolling == [][PollingWhileDown]_vars

(* What the browser is told of a pole is a chain: every change starts from *)
(* the level the one before it ended at, and the last ends at the level    *)
(* that the server has ("delivered in order", API-SPECIFICATION section 9).*)
Chained(told, p) ==
  LET ofPole == {i \in DOMAIN told : told[i].pole = p}
      After(i) == {j \in ofPole : j > i}
  IN  \A i \in ofPole :
        told[i].to = IF After(i) = {} THEN live[p] ELSE told[Min(After(i))].from

ChangesChain ==
  attached \/ channel = <<>> =>
    \A p \in Pole : Chained(FlattenSeq(channel) \o batches[DtOf[p]], p)

(* However often the connection breaks before it stays or stays away, and  *)
(* whatever is selected meanwhile: a query that stays on the screen        *)
(* catches up with a server that runs, but for the same exceptions: by the *)
(* message, by the resynchronization after a connection, or by polling.    *)
ViewCatchesUp ==
  <>[](socket = "open") \/ <>[](socket # "open") =>
    \A q \in Query :
      []<>(q \in Shown /\ up => view[q] = version[q] \/ excused[q])
=============================================================================
