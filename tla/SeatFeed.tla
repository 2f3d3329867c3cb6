----------------------------- MODULE SeatFeed -----------------------------
(***************************************************************************)
(* How a change of a seat reaches a browser: the broadcasts of hub.js, the *)
(* Redis channel of seatChannel.js between the server instances, the       *)
(* browser's socket and buffer (useSeatEvents.js) and the page's own loads *)
(* of the map (SeatMapPage.jsx).                                           *)
(*                                                                         *)
(* One show, one seat, one browser.  The seat's status is represented by   *)
(* the number of changes it has been through, so that "newer" has a        *)
(* meaning; the code compares nothing but arrival.  Status 0 is free.      *)
(***************************************************************************)
EXTENDS Naturals, Sequences, FiniteSets

CONSTANTS Instance,     \* server instances behind one Redis
          MaxChanges,   \* bound: changes of the seat
          MaxFaults,    \* bound: dropped links, sockets, failed or degraded reads
          MaxLoads,     \* bound: loads of the map
          NoInstance,   \* where a closed socket is
          NoNews        \* nothing buffered, nothing shown

ASSUME FeedAssumption ==
  /\ IsFiniteSet(Instance) /\ Instance # {}
  /\ {MaxChanges, MaxFaults, MaxLoads} \subseteq Nat /\ MaxLoads # 0
  /\ NoInstance \notin Instance /\ NoNews \notin Nat

VARIABLES
  truth,       \* changes the stored status has been through
  jobs,        \* broadcastSeats calls under way
  stage,       \* per instance: up, closing (shutdown begun), closed (no sockets), down
  linked,      \* instances whose seatChannelReady() is true
  inbox,       \* per instance: messages the subscriber has yet to deliver
  conn, at,    \* the browser's socket, and the instance it is open at
  backedOff,   \* backoff is no longer BACKOFF_START_MS
  buffer,      \* useSeatEvents' buffer
  seen,        \* the map on the page
  loads, loadSeq,
  faults,
  told,        \* history: how often this socket was told of each change
  doubled,     \* history: changes published although the reply was lost
  newest,      \* history: the newest status handed out
  gaps         \* history: the named reasons for which news went missing

serverVars == <<truth, jobs, stage, linked, inbox>>
socketVars == <<conn, at, backedOff, buffer>>
loadVars   == <<loads, loadSeq>>
pageVars   == <<socketVars, seen, loadVars>>
history    == <<told, doubled, newest, gaps>>
vars == <<serverVars, pageVars, faults, history>>

Init ==
  /\ truth = 0 /\ jobs = {} /\ stage = [i \in Instance |-> "up"] /\ linked = Instance /\ inbox = [i \in Instance |-> <<>>]
  /\ conn = "closed" /\ at = NoInstance /\ backedOff = FALSE /\ buffer = NoNews
  /\ seen = NoNews /\ loads = {[n |-> 1, v |-> NoNews, st |-> "sent"]} /\ loadSeq = 1
  /\ faults = 0
  /\ told = [c \in 1..MaxChanges |-> 0] /\ doubled = {} /\ newest = 0 /\ gaps = {}

Faults == faults < MaxFaults /\ faults' = faults + 1

---------------------------------------------------------------------------
(* Servers.                                                                *)

\* Why the browser will never hear news that instance i cannot or could not
\* pass on: none if it is elsewhere, or will read the map when it reconnects.
Missed(i) == IF conn = "open" /\ at = i
             THEN IF stage[i] = "up" THEN {"channelDown"} ELSE {}
             ELSE IF conn = "closed" /\ ~backedOff THEN {"beforeFirstOpen"} ELSE {}

\* The page's buffer keeps one status per seat, the last one heard.
FirstKept(old, new) == IF old = NoNews THEN new ELSE old
Coalesced(old, new) == new

\* deliverSeats: to the open sockets of instance i.
DeliverSeats(i, v, change) ==
  /\ buffer' = IF conn = "open" /\ at = i THEN Coalesced(buffer, v) ELSE buffer
  /\ told' = IF conn = "open" /\ at = i THEN [told EXCEPT ![change] = @ + 1] ELSE told

\* A hold, booking, payment or sweep at instance i changes the seat and calls
\* broadcastSeats without waiting for it.
Change(i) ==
  /\ truth < MaxChanges /\ stage[i] # "down"
  /\ truth' = truth + 1
  /\ jobs' = jobs \cup {[change |-> truth + 1, by |-> i, v |-> NoNews, st |-> "read"]}
  /\ UNCHANGED <<stage, linked, inbox, pageVars, faults, history>>

\* A hold runs out in Redis, is lost with it, or is taken and rolled back, or
\* the sweep runs from the command line: no instance announces the change.
Silent ==
  /\ truth < MaxChanges
  /\ truth' = truth + 1
  /\ gaps' = gaps \cup {"silent"}
  /\ UNCHANGED <<jobs, stage, linked, inbox, pageVars, faults, told, doubled, newest>>

\* mergeHolds without Redis: a held seat reads as it did before it was held.
Degraded == Faults /\ truth # 0
WithoutHold == truth - 1

\* The status is read, once for everybody; the read may be degraded, or fail,
\* and the broadcast with it.
ReadStatus(j) ==
  /\ j.st = "read"
  /\ \/ /\ jobs' = (jobs \ {j}) \cup {[j EXCEPT !.v = truth, !.st = "publish"]}
        /\ UNCHANGED <<faults, gaps>>
     \/ /\ Degraded
        /\ jobs' = (jobs \ {j}) \cup {[j EXCEPT !.v = WithoutHold, !.st = "publish"]}
        /\ gaps' = gaps \cup {"degradedNews"}
     \/ /\ Faults
        /\ jobs' = jobs \ {j}
        /\ gaps' = gaps \cup {"readFailed"}
  /\ UNCHANGED <<truth, stage, linked, inbox, pageVars, told, doubled, newest>>

\* Only when both Redis connections are up is a message published.
Ready(i) == i \in linked

\* The resolved status travels, not the bare seat.
BareSeat(j) == [v |-> NoNews, change |-> j.change]
Message(j) == [v |-> j.v, change |-> j.change]

\* What is left to do after a publish that went out: nothing, the subscriber
\* tells this instance's own sockets.
AlsoLocally(j) == (jobs \ {j}) \cup {[j EXCEPT !.st = "local"]}
Published(j) == jobs \ {j}

\* A newer status has been handed out before.
Overtaken(j) == IF j.v < newest THEN {"overtaken"} ELSE {}

HandsOut(j) == newest' = IF j.v > newest THEN j.v ELSE newest

\* Redis hands the message to every instance whose subscriber is connected,
\* the publisher included.
Publish(j) ==
  /\ j.st = "publish" /\ Ready(j.by)
  /\ inbox' = [i \in Instance |-> IF i \in linked THEN Append(inbox[i], Message(j)) ELSE inbox[i]]
  /\ gaps' = gaps \cup Overtaken(j) \cup UNION {Missed(i) : i \in Instance \ linked}
  /\ HandsOut(j)
  /\ \/ /\ jobs' = Published(j)
        /\ UNCHANGED <<faults, doubled>>
     \/ /\ Faults      \* published, but the reply is lost: "not published"
        /\ jobs' = (jobs \ {j}) \cup {[j EXCEPT !.st = "local"]}
        /\ doubled' = doubled \cup {j.change}
  /\ UNCHANGED <<truth, stage, linked, pageVars, told>>

\* Not published: the instance tells its own sockets, nobody else hears.
DeliverLocally(j) ==
  /\ j.st = "local" \/ (j.st = "publish" /\ ~Ready(j.by))
  /\ jobs' = jobs \ {j}
  /\ DeliverSeats(j.by, j.v, j.change)
  /\ gaps' = gaps \cup Overtaken(j) \cup
             (IF j.st = "local" THEN {}
              ELSE UNION {Missed(i) : i \in {k \in Instance : k # j.by \/ conn # "open"}})
  /\ HandsOut(j)
  /\ UNCHANGED <<truth, stage, linked, inbox, conn, at, backedOff, seen, loadVars, faults, doubled>>

\* The subscriber's callback.
Deliver(i) ==
  /\ inbox[i] # <<>>
  /\ inbox' = [inbox EXCEPT ![i] = Tail(@)]
  /\ DeliverSeats(i, Head(inbox[i]).v, Head(inbox[i]).change)
  /\ gaps' = IF conn = "open" THEN gaps ELSE gaps \cup Missed(i)
  /\ UNCHANGED <<truth, jobs, stage, linked, conn, at, backedOff, seen, loadVars, faults, doubled, newest>>

\* An instance loses Redis, and what was on its way to it.
LinkDrops(i) ==
  /\ Faults
  /\ i \in linked
  /\ linked' = linked \ {i}
  /\ inbox' = [inbox EXCEPT ![i] = <<>>]
  /\ gaps' = IF inbox[i] = <<>> THEN gaps ELSE gaps \cup Missed(i)
  /\ UNCHANGED <<truth, jobs, stage, pageVars, told, doubled, newest>>

\* The Redis clients reconnect and subscribe again by themselves.
LinkReturns(i) ==
  /\ i \notin linked /\ stage[i] = "up"
  /\ linked' = linked \cup {i}
  /\ UNCHANGED <<truth, jobs, stage, inbox, pageVars, faults, history>>

\* shutdown: no more requests, and closeSeatEvents leaves the channel first.
Shutdown(i) ==
  /\ Faults
  /\ stage[i] = "up"
  /\ stage' = [stage EXCEPT ![i] = "closing"]
  /\ linked' = linked \ {i}
  /\ inbox' = [inbox EXCEPT ![i] = <<>>]
  /\ gaps' = IF inbox[i] = <<>> \/ conn = "open" THEN gaps ELSE gaps \cup Missed(i)
  /\ UNCHANGED <<truth, jobs, pageVars, told, doubled, newest>>

\* Then it tells its sockets to go away,
CloseSockets(i) ==
  /\ stage[i] = "closing"
  /\ stage' = [stage EXCEPT ![i] = "closed"]
  /\ IF conn = "open" /\ at = i
     THEN conn' = "closed" /\ at' = NoInstance /\ backedOff' = TRUE
     ELSE UNCHANGED <<conn, at, backedOff>>
  /\ UNCHANGED <<truth, jobs, linked, inbox, buffer, seen, loadVars, faults, history>>

\* closes its pools and exits, with whatever was still to be broadcast.
Exit(i) ==
  /\ stage[i] = "closed"
  /\ stage' = [stage EXCEPT ![i] = "down"]
  /\ jobs' = {j \in jobs : j.by # i}
  /\ gaps' = IF jobs' = jobs THEN gaps ELSE gaps \cup {"exited"}
  /\ UNCHANGED <<truth, linked, inbox, pageVars, faults, told, doubled, newest>>

\* The next deployment; its subscriber connects in its own time.
Boot(i) ==
  /\ stage[i] = "down"
  /\ stage' = [stage EXCEPT ![i] = "up"]
  /\ UNCHANGED <<truth, jobs, linked, inbox, pageVars, faults, history>>

---------------------------------------------------------------------------
(* The browser.                                                            *)

NewLoad == loads' = loads \cup {[n |-> loadSeq + 1, v |-> NoNews, st |-> "sent"]}
           /\ loadSeq' = loadSeq + 1

\* An open that was not the first attempt's reads the map again.
NoResync == UNCHANGED loadVars
Resync == IF backedOff THEN loadSeq < MaxLoads /\ NewLoad ELSE UNCHANGED loadVars

\* The retry timer fires and the socket opens, at whatever instance the
\* balancer picks.
Open(i) ==
  /\ conn = "closed" /\ stage[i] = "up"
  /\ conn' = "open" /\ at' = i
  /\ Resync
  /\ backedOff' = FALSE
  /\ told' = [c \in 1..MaxChanges |-> 0]
  /\ UNCHANGED <<serverVars, buffer, seen, faults, doubled, newest, gaps>>

\* An attempt fails, as many as may; after the first nothing changes.
AttemptFails ==
  /\ conn = "closed" /\ ~backedOff
  /\ backedOff' = TRUE
  /\ UNCHANGED <<serverVars, conn, at, buffer, seen, loadVars, faults, history>>

\* An open socket closes: try again later.
Close ==
  /\ Faults
  /\ conn = "open"
  /\ conn' = "closed" /\ at' = NoInstance /\ backedOff' = TRUE
  /\ UNCHANGED <<serverVars, buffer, seen, loadVars, history>>

\* The network goes away without a word.  The server's heartbeat finds out;
\* nothing in the browser asks.
GoDead ==
  /\ Faults
  /\ conn = "open"
  /\ conn' = "dead"
  /\ UNCHANGED <<serverVars, at, backedOff, buffer, seen, loadVars, history>>

\* TCP finds out in the end.
NoticeDead ==
  /\ conn = "dead"
  /\ conn' = "closed" /\ at' = NoInstance /\ backedOff' = TRUE
  /\ UNCHANGED <<serverVars, buffer, seen, loadVars, faults, history>>

\* What brings the stored status makes up for all that was missed before,
\* unless an error is shown in the map's place.
Repaired(v, more) ==
  gaps' = IF v = truth THEN gaps \cap {"loadFailed"} ELSE gaps \cup more

\* A frame, or the timer of a hidden tab: the buffer is applied to the map,
\* or dropped when there is no map yet.
Flush ==
  /\ buffer # NoNews
  /\ buffer' = NoNews
  /\ IF seen = NoNews
     THEN /\ UNCHANGED seen
          /\ gaps' = gaps \cup (IF \E l \in loads : l.st = "read" /\ l.v < buffer
                             THEN {"beforeFirstLoad"} ELSE {})
     ELSE /\ seen' = buffer
          /\ Repaired(buffer, IF buffer < seen THEN {"lateNews"} ELSE {})
  /\ UNCHANGED <<serverVars, conn, at, backedOff, loadVars, faults, told, doubled, newest>>

ReadMap(l) ==
  /\ l.st = "sent"
  /\ \/ /\ loads' = (loads \ {l}) \cup {[l EXCEPT !.st = "read", !.v = truth]}
        /\ UNCHANGED faults
     \/ /\ Degraded
        /\ loads' = (loads \ {l}) \cup {[l EXCEPT !.st = "degraded", !.v = WithoutHold]}
  /\ UNCHANGED <<serverVars, socketVars, seen, loadSeq, history>>

\* Only the newest load's answer is shown, whatever came over the socket in
\* the meantime.
Newest(l) == l.n = loadSeq

FinishLoad(l) ==
  /\ l.st # "sent"
  /\ loads' = loads \ {l}
  /\ IF Newest(l)
     THEN /\ seen' = l.v
          /\ gaps' = IF l.v = truth THEN {}
                     ELSE (gaps \ {"loadFailed"}) \cup
                          (IF l.st = "degraded" THEN {"degradedMap"} ELSE {}) \cup
                          (IF seen # NoNews /\ l.v < seen THEN {"lateLoad"} ELSE {})
     ELSE UNCHANGED <<seen, gaps>>
  /\ UNCHANGED <<serverVars, socketVars, loadSeq, faults, told, doubled, newest>>

\* A load fails; the error is shown in the map's place.  Try again empties
\* the map first.
LoadFails(l) ==
  /\ Faults
  /\ l.st = "sent"
  /\ loads' = loads \ {l}
  /\ gaps' = IF Newest(l) THEN gaps \cup {"loadFailed"} ELSE gaps
  /\ UNCHANGED <<serverVars, socketVars, seen, loadSeq, told, doubled, newest>>

TryAgain ==
  /\ "loadFailed" \in gaps /\ ~\E l \in loads : Newest(l)
  /\ loadSeq < MaxLoads
  /\ seen' = NoNews
  /\ NewLoad
  /\ UNCHANGED <<serverVars, socketVars, faults, history>>

Next ==
  \/ \E i \in Instance : Change(i) \/ Deliver(i) \/ LinkDrops(i) \/ LinkReturns(i) \/ Open(i)
                         \/ Shutdown(i) \/ CloseSockets(i) \/ Exit(i) \/ Boot(i)
  \/ \E j \in jobs : ReadStatus(j) \/ Publish(j) \/ DeliverLocally(j)
  \/ \E l \in loads : ReadMap(l) \/ FinishLoad(l) \/ LoadFails(l)
  \/ Silent \/ AttemptFails \/ Close \/ GoDead \/ NoticeDead \/ Flush \/ TryAgain

\* Loads are answered, shutdowns end and instances come back, the retry timer
\* fires and TCP notices a dead peer.  Nobody has to change a seat, pass on
\* news, deploy or press Try again.
Answer == \E l \in loads : ReadMap(l) \/ FinishLoad(l) \/ LoadFails(l)
Restart == \E i \in Instance : CloseSockets(i) \/ Exit(i) \/ Boot(i)

Fairness == /\ WF_vars(Answer) /\ WF_vars(Restart)
            /\ WF_vars(\E i \in Instance : Open(i)) /\ WF_vars(NoticeDead)

Spec == Init /\ [][Next]_vars /\ Fairness

---------------------------------------------------------------------------
(* Properties.                                                             *)

Gaps == {"silent", "beforeFirstOpen", "channelDown", "overtaken", "readFailed", "degradedNews",
         "exited", "beforeFirstLoad", "lateNews", "lateLoad", "degradedMap", "loadFailed"}

\* Broadcasts, messages, sockets, loads and the map are what hub.js,
\* seatChannel.js, useSeatEvents.js and the page's load keep.
TypeOK ==
  /\ truth \in 0..MaxChanges /\ newest \in 0..MaxChanges /\ faults \in 0..MaxFaults
  /\ \A j \in jobs : /\ j.change \in 1..truth /\ j.by \in Instance
                     /\ j.st = "read" \/ (j.st \in {"publish", "local"} /\ j.v \in 0..truth)
  /\ stage \in [Instance -> {"up", "closing", "closed", "down"}]
  /\ linked \subseteq {i \in Instance : stage[i] = "up"}
  /\ \A i \in Instance : \A k \in 1..Len(inbox[i]) :
       inbox[i][k].v \in 0..truth /\ inbox[i][k].change \in 1..truth
  /\ conn \in {"closed", "open", "dead"} /\ (at = NoInstance) = (conn = "closed")
  /\ at \in Instance \cup {NoInstance} /\ backedOff \in BOOLEAN
  /\ buffer \in (0..truth) \cup {NoNews} /\ seen \in (0..truth) \cup {NoNews}
  /\ loadSeq \in 1..MaxLoads /\ \A l \in loads : l.n \in 1..loadSeq
  /\ told \in [1..MaxChanges -> Nat] /\ doubled \subseteq 1..MaxChanges /\ gaps \subseteq Gaps

\* Nothing is on its way to the page.
Quiet == /\ jobs = {} /\ loads = {} /\ buffer = NoNews
         /\ conn = "open" /\ stage[at] = "up"
         /\ \A i \in Instance : inbox[i] = <<>>

\* A page with nothing on its way to it shows what the server stores, unless
\* news went missing, since the last time it was fresh, for one of the twelve
\* reasons the model names: a change nobody announces, a change before the
\* first open, a channel that is down, a broadcast overtaken by a newer one,
\* read without Redis or not at all, an instance that exited, news that came
\* before the map, news or a load that came after newer news, a load read
\* without Redis, a failed load.  There is no other: reconnecting, coalescing,
\* deployments and loads that cross lose nothing else.
FreshUnlessMissed == Quiet => seen = truth \/ gaps # {}

\* "No way for a socket to be told the same thing twice" (hub.js): true of
\* every change except one published by a call whose reply was lost.
ToldOnce == \A c \in 1..MaxChanges : told[c] <= 1 \/ c \in doubled

\* A page whose socket is down comes to show every change made by then, or
\* an error in the map's place, though another attempt, the load, an instance
\* or a link fails before it does: the reconnect reads the map, and no older
\* answer can take its place.  Only a map read without Redis may lack a hold.
CatchesUp == \A c \in 1..MaxChanges :
  (conn = "closed" /\ backedOff /\ truth = c)
    ~> ((seen # NoNews /\ seen >= c) \/ gaps \cap {"loadFailed", "degradedMap"} # {})
=============================================================================
