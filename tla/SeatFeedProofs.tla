--------------------------- MODULE SeatFeedProofs ---------------------------
(***************************************************************************)
(* Theorems of SeatFeed, for any number of server instances, changes,      *)
(* faults and loads.  The invariant says where the newest status is while  *)
(* the page does not show it yet: FreshUnlessMissed is what is left of it  *)
(* once nothing is on its way.                                             *)
(***************************************************************************)
EXTENDS SeatFeed, SequenceTheorems, TLAPS

\* The records that are kept and sent.
Versions == Nat \cup {NoNews}
Job  == [change : Nat, by : Instance, v : Versions, st : {"read", "publish", "local"}]
Note == [v : Nat, change : Nat]
Load == [n : Nat, v : Versions, st : {"sent", "read", "degraded"}]

Shaped ==
  /\ jobs \subseteq Job /\ loads \subseteq Load /\ inbox \in [Instance -> Seq(Note)]
  /\ \A l \in loads : l.st # "sent" => l.v \in 0..truth

\* Nothing that was handed out is newer than `newest`.
HandedOut ==
  /\ newest <= truth
  /\ \A i \in Instance : \A k \in 1..Len(inbox[i]) : inbox[i][k].v <= newest
  /\ buffer # NoNews => buffer <= newest
  /\ \A j \in jobs : j.st = "local" => j.v <= newest

\* An instance without its link has nothing to deliver, and one with sockets
\* has not closed them.
Connected ==
  /\ \A i \in Instance \ linked : inbox[i] = <<>>
  /\ conn = "open" => stage[at] \in {"up", "closing"}

\* One load is the newest, and a page without a map waits for it unless it
\* has failed.
Awaits == \E l \in loads : Newest(l)
Loading ==
  /\ \A l, m \in loads : l.n = m.n => l = m
  /\ seen = NoNews => Awaits \/ "loadFailed" \in gaps

\* A change is somewhere once: in its broadcast, then in each inbox, then
\* told to the socket.
Awaited(c) == \E j \in jobs : j.change = c
InboxHas(i, c) == \E k \in 1..Len(inbox[i]) : inbox[i][k].change = c
OnceOnly(c) ==
  /\ Awaited(c) => told[c] = 0 /\ \A i \in Instance : ~InboxHas(i, c)
  /\ \A i \in Instance : \A k, m \in 1..Len(inbox[i]) :
       inbox[i][k].change = c /\ inbox[i][m].change = c => k = m
  /\ told[c] <= 1
  /\ told[c] = 1 /\ conn = "open" => ~InboxHas(at, c)
Counted ==
  /\ \A j, k \in jobs : j.change = k.change => j = k
  /\ \A j \in jobs : j.st = "local" => j.change \in doubled
  /\ \A c \in 1..MaxChanges : c > truth => told[c] = 0
  /\ \A c \in 1..MaxChanges : c \notin doubled => OnceOnly(c)

\* Where the newest status can be while the page does not show it: in the
\* newest load, in a broadcast, last in the inbox of the socket's instance
\* (or of every one, before the first open), in the buffer.
LoadBrings == \E l \in loads : Newest(l) /\ (l.st \in {"sent", "degraded"} \/ l.v = truth)
Broadcasting == \E j \in jobs : j.st = "read" \/ (j.st = "publish" /\ j.v = truth)
EndsWell(i) == inbox[i] # <<>> /\ inbox[i][Len(inbox[i])].v = truth
Arriving == \/ conn = "open" /\ (EndsWell(at) \/ (inbox[at] = <<>> /\ buffer = truth))
            \/ conn = "closed" /\ \A i \in Instance : EndsWell(i)
OnItsWay == seen = truth \/ LoadBrings \/ Broadcasting \/ Arriving

\* A socket that will be opened again will read the map then.
WillReload == \/ conn = "dead"
              \/ conn = "closed" /\ backedOff
              \/ conn = "open" /\ stage[at] = "closing"

Expected == ~WillReload /\ (gaps = {} \/ (gaps = {"loadFailed"} /\ Awaits))
Fresh == Expected => OnItsWay

IInv == TypeOK /\ Shaped /\ HandedOut /\ Connected /\ Loading /\ Counted /\ Fresh

-----------------------------------------------------------------------------
(* What the steps do to the inboxes and to the broadcasts.                 *)

LEMMA Handed ==
  ASSUME Shaped, NEW j \in jobs, j.v \in Nat, NEW i \in Instance,
         inbox' = [k \in Instance |-> IF k \in linked THEN Append(inbox[k], Message(j)) ELSE inbox[k]]
  PROVE  /\ inbox' \in [Instance -> Seq(Note)]
         /\ i \notin linked => inbox'[i] = inbox[i]
         /\ i \in linked =>
              /\ Len(inbox'[i]) = Len(inbox[i]) + 1
              /\ \A k \in 1..Len(inbox[i]) : inbox'[i][k] = inbox[i][k]
              /\ inbox'[i][Len(inbox[i]) + 1] = Message(j)
<1>1. Message(j) \in Note
  BY DEF Shaped, Job, Note, Message
<1>2. \A k \in Instance : /\ Append(inbox[k], Message(j)) \in Seq(Note)
                           /\ Len(Append(inbox[k], Message(j))) = Len(inbox[k]) + 1
                           /\ \A m \in 1..Len(inbox[k]) : Append(inbox[k], Message(j))[m] = inbox[k][m]
                           /\ Append(inbox[k], Message(j))[Len(inbox[k]) + 1] = Message(j)
  BY <1>1, AppendProperties DEF Shaped
<1>3. inbox' \in [Instance -> Seq(Note)]
  BY <1>2 DEF Shaped
<1> QED
  BY <1>2, <1>3

LEMMA Taken ==
  ASSUME Shaped, NEW i \in Instance, inbox[i] # <<>>,
         inbox' = [inbox EXCEPT ![i] = Tail(@)]
  PROVE  /\ inbox' \in [Instance -> Seq(Note)]
         /\ \A k \in Instance \ {i} : inbox'[k] = inbox[k]
         /\ Len(inbox[i]) \in Nat \ {0} /\ Len(inbox'[i]) = Len(inbox[i]) - 1
         /\ \A k \in 1..Len(inbox[i]) - 1 : inbox'[i][k] = inbox[i][k + 1]
         /\ Head(inbox[i]) = inbox[i][1] /\ inbox[i][1] \in Note
<1>1. inbox[i] \in Seq(Note)
  BY DEF Shaped
<1>2. /\ Tail(inbox[i]) \in Seq(Note) /\ Len(Tail(inbox[i])) = Len(inbox[i]) - 1
      /\ \A k \in 1..Len(Tail(inbox[i])) : Tail(inbox[i])[k] = inbox[i][k + 1]
  BY <1>1, HeadTailProperties
<1>3. Len(inbox[i]) \in Nat \ {0} /\ inbox[i][1] \in Note
  BY <1>1, EmptySeq, ElementOfSeq
<1> QED
  BY <1>1, <1>2, <1>3 DEF Shaped

LEMMA Emptied ==
  ASSUME Shaped, NEW i \in Instance, inbox' = [inbox EXCEPT ![i] = <<>>]
  PROVE  /\ inbox' \in [Instance -> Seq(Note)]
         /\ \A k \in Instance \ {i} : inbox'[k] = inbox[k]
         /\ inbox'[i] = <<>> /\ Len(inbox'[i]) = 0
  BY DEF Shaped

LEMMA Lengths == ASSUME Shaped PROVE \A i \in Instance : Len(inbox[i]) \in Nat
  BY LenProperties DEF Shaped

LEMMA Bounds == MaxChanges \in Nat /\ MaxFaults \in Nat /\ MaxLoads \in Nat \ {0} /\ NoNews \notin Nat
  BY FeedAssumption

-----------------------------------------------------------------------------
(* Types: TypeOK and Shaped, taken apart by what they are about.           *)

JobsOK == \A j \in jobs : /\ j \in Job /\ j.change \in 1..truth
                          /\ j.st = "read" \/ j.v \in 0..truth
NotesOK == /\ inbox \in [Instance -> Seq(Note)]
           /\ \A i \in Instance : \A k \in 1..Len(inbox[i]) :
                inbox[i][k].v \in 0..truth /\ inbox[i][k].change \in 1..truth
LoadsOK == \A l \in loads : /\ l \in Load /\ l.n \in 1..loadSeq
                            /\ l.st # "sent" => l.v \in 0..truth
ServersOK == /\ truth \in 0..MaxChanges /\ newest \in 0..MaxChanges /\ faults \in 0..MaxFaults
             /\ stage \in [Instance -> {"up", "closing", "closed", "down"}]
             /\ linked \subseteq {i \in Instance : stage[i] = "up"}
SocketOK == /\ conn \in {"closed", "open", "dead"} /\ (at = NoInstance) = (conn = "closed")
            /\ at \in Instance \cup {NoInstance} /\ backedOff \in BOOLEAN
ShownOK == /\ buffer \in (0..truth) \cup {NoNews} /\ seen \in (0..truth) \cup {NoNews}
           /\ loadSeq \in 1..MaxLoads
HistoryOK == told \in [1..MaxChanges -> Nat] /\ doubled \subseteq 1..MaxChanges /\ gaps \subseteq Gaps

Types == JobsOK /\ NotesOK /\ LoadsOK /\ ServersOK /\ SocketOK /\ ShownOK /\ HistoryOK

LEMMA TypesAre == TypeOK /\ Shaped <=> Types
<1>1. ASSUME TypeOK, Shaped PROVE Types
  <2>1. JobsOK
    BY <1>1 DEF TypeOK, Shaped, JobsOK
  <2>2. LoadsOK
    BY <1>1 DEF TypeOK, Shaped, LoadsOK
  <2>3. NotesOK
    BY <1>1 DEF TypeOK, Shaped, NotesOK
  <2>4. ServersOK /\ SocketOK /\ ShownOK /\ HistoryOK
    BY <1>1 DEF TypeOK, ServersOK, SocketOK, ShownOK, HistoryOK
  <2> QED
    BY <2>1, <2>2, <2>3, <2>4 DEF Types
<1>2. ASSUME Types PROVE TypeOK /\ Shaped
  <2>1. \A j \in jobs : /\ j.change \in 1..truth /\ j.by \in Instance
                        /\ j.st = "read" \/ (j.st \in {"publish", "local"} /\ j.v \in 0..truth)
    BY <1>2 DEF Types, JobsOK, Job
  <2>2. \A l \in loads : l.n \in 1..loadSeq
    BY <1>2 DEF Types, LoadsOK
  <2>3. TypeOK
    BY <1>2, <2>1, <2>2 DEF Types, TypeOK, NotesOK, ServersOK, SocketOK, ShownOK, HistoryOK
  <2>4. jobs \subseteq Job
    BY <1>2 DEF Types, JobsOK
  <2>5. loads \subseteq Load /\ \A l \in loads : l.st # "sent" => l.v \in 0..truth
    BY <1>2 DEF Types, LoadsOK
  <2> QED
    BY <1>2, <2>3, <2>4, <2>5 DEF Types, NotesOK, Shaped
<1> QED
  BY <1>1, <1>2

\* k is broadcast j, gone on to stage st with status v; load m is l, read,
\* with Redis or without.
GoneOn(k, j, v, st) == k \in Job /\ k.change = j.change /\ k.by = j.by /\ k.v = v /\ k.st = st
IsRead(m, l) == /\ m \in Load /\ m.n = l.n /\ m.v \in 0..truth
                /\ \/ m.st = "read" /\ m.v = truth
                   \/ m.st = "degraded"

LEMMA JobUpdates ==
  ASSUME NEW j \in Job, NEW v \in Versions
  PROVE  /\ GoneOn([j EXCEPT !.v = v, !.st = "publish"], j, v, "publish")
         /\ GoneOn([j EXCEPT !.st = "local"], j, j.v, "local")
  BY DEF Job, GoneOn

LEMMA LoadUpdates ==
  ASSUME NEW l \in Load, truth \in Nat
  PROVE  /\ IsRead([l EXCEPT !.st = "read", !.v = truth], l)
         /\ truth # 0 => IsRead([l EXCEPT !.st = "degraded", !.v = WithoutHold], l)
<1>1. ASSUME NEW v \in 0..truth
      PROVE  /\ [l EXCEPT !.st = "read", !.v = v] \in Load
             /\ [l EXCEPT !.st = "degraded", !.v = v] \in Load
  <2>1. v \in Versions
    BY DEF Versions
  <2> QED
    BY <2>1 DEF Load
<1>2. truth # 0 => WithoutHold \in 0..truth
  BY DEF WithoutHold
<1>3. truth \in 0..truth
  OBVIOUS
<1> QED
  BY <1>1, <1>2, <1>3 DEF IsRead, Load

LEMMA LoadOn ==
  ASSUME truth \in Nat, NEW l \in loads, l \in Load, ReadMap(l) \/ FinishLoad(l) \/ LoadFails(l)
  PROVE  /\ \A m \in loads' : m \in loads \ {l} \/ IsRead(m, l)
         /\ ReadMap(l) => \E m \in loads' : IsRead(m, l) /\ loads' = (loads \ {l}) \cup {m}
         /\ ~ReadMap(l) => loads' = loads \ {l}
<1>1. CASE ReadMap(l)
  <2> DEFINE x == [l EXCEPT !.st = "read", !.v = truth]
             y == [l EXCEPT !.st = "degraded", !.v = WithoutHold]
  <2>1. IsRead(x, l) /\ (truth # 0 => IsRead(y, l))
    BY LoadUpdates
  <2>2. ReadMap(l) => loads' = (loads \ {l}) \cup {x} \/ (truth # 0 /\ loads' = (loads \ {l}) \cup {y})
    BY DEF ReadMap, Degraded
  <2> HIDE DEF x, y
  <2>3. \E m \in loads' : IsRead(m, l) /\ loads' = (loads \ {l}) \cup {m}
    BY <1>1, <2>1, <2>2
  <2> QED
    BY <1>1, <2>3
<1>2. CASE ~ReadMap(l)
  BY <1>2 DEF FinishLoad, LoadFails
<1> QED
  BY <1>1, <1>2

\* A later truth bounds what an earlier one did.
LEMMA Later ==
  ASSUME Types, truth' = truth + 1
  PROVE  /\ \A k : k \in 1..truth => k \in 1..truth'
         /\ \A k : k \in 0..truth => k \in 0..truth'
  BY DEF Types, ServersOK

\* Each step of a broadcast: it is replaced by its next stage, or gone.
LEMMA ReadOn ==
  ASSUME Types, NEW j \in jobs, ReadStatus(j)
  PROVE  /\ \A k \in jobs' : k \in jobs \ {j} \/ \E v \in 0..truth : GoneOn(k, j, v, "publish")
         /\ (\E k \in jobs' : GoneOn(k, j, truth, "publish")) \/ gaps' \cap {"readFailed", "degradedNews"} # {}
<1>1. j \in Job /\ truth \in Nat /\ truth \in 0..truth
  BY Bounds DEF Types, JobsOK, ServersOK
<1>2. \A v \in Nat : GoneOn([j EXCEPT !.v = v, !.st = "publish"], j, v, "publish")
  BY <1>1, JobUpdates DEF Versions
<1>3. CASE jobs' = (jobs \ {j}) \cup {[j EXCEPT !.v = truth, !.st = "publish"]}
  BY <1>1, <1>2, <1>3
<1>4. CASE /\ Degraded
           /\ jobs' = (jobs \ {j}) \cup {[j EXCEPT !.v = WithoutHold, !.st = "publish"]}
           /\ gaps' = gaps \cup {"degradedNews"}
  <2>1. WithoutHold \in 0..truth /\ WithoutHold \in Nat
    BY <1>1, <1>4 DEF Degraded, WithoutHold
  <2> QED
    BY <1>2, <1>4, <2>1
<1>5. CASE jobs' = jobs \ {j} /\ gaps' = gaps \cup {"readFailed"}
  BY <1>5
<1> QED
  BY <1>3, <1>4, <1>5 DEF ReadStatus

LEMMA PublishOn ==
  ASSUME Types, NEW j \in jobs, Publish(j)
  PROVE  \A k \in jobs' : \/ k \in jobs \ {j}
                          \/ GoneOn(k, j, j.v, "local") /\ doubled' = doubled \cup {j.change}
<1>1. j \in Job /\ j.v \in Versions
  BY DEF Types, JobsOK, Job
<1>2. GoneOn([j EXCEPT !.st = "local"], j, j.v, "local")
  BY <1>1, JobUpdates
<1> QED
  BY <1>2 DEF Publish, Published

LEMMA JobsStep ==
  ASSUME Types, NEW j \in jobs
  PROVE  /\ ReadStatus(j) => JobsOK'
         /\ Publish(j) => JobsOK'
         /\ DeliverLocally(j) => JobsOK'
<1>1. j.change \in 1..truth /\ truth \in 0..truth
  BY Bounds DEF Types, JobsOK, ServersOK
<1>2. ASSUME ReadStatus(j) PROVE JobsOK'
  <2>1. truth' = truth
    BY <1>2 DEF ReadStatus
  <2> QED
    BY <1>1, <1>2, <2>1, ReadOn DEF Types, JobsOK, GoneOn
<1>3. ASSUME Publish(j) PROVE JobsOK'
  <2>1. truth' = truth /\ j.v \in 0..truth
    BY <1>1, <1>3 DEF Publish, Types, JobsOK
  <2> QED
    BY <1>1, <1>3, <2>1, PublishOn DEF Types, JobsOK, GoneOn
<1>4. ASSUME DeliverLocally(j) PROVE JobsOK'
  <2>1. truth' = truth /\ jobs' = jobs \ {j}
    BY <1>4 DEF DeliverLocally
  <2> QED
    BY <2>1 DEF Types, JobsOK
<1> QED
  BY <1>2, <1>3, <1>4

\* Which steps touch what.
LEMMA Touches ==
  ASSUME Next
  PROVE  /\ truth' = truth \/ (\E i \in Instance : Change(i)) \/ Silent
         /\ \/ jobs' = jobs
            \/ \E i \in Instance : Change(i) \/ Exit(i)
            \/ \E j \in jobs : ReadStatus(j) \/ Publish(j) \/ DeliverLocally(j)
         /\ \/ inbox' = inbox
            \/ \E i \in Instance : Deliver(i) \/ LinkDrops(i) \/ Shutdown(i)
            \/ \E j \in jobs : Publish(j)
         /\ \/ UNCHANGED <<stage, linked>>
            \/ \E i \in Instance : LinkDrops(i) \/ LinkReturns(i) \/ Shutdown(i) \/ CloseSockets(i) \/ Exit(i) \/ Boot(i)
         /\ \/ UNCHANGED <<conn, at, backedOff>>
            \/ \E i \in Instance : Open(i) \/ CloseSockets(i)
            \/ AttemptFails \/ Close \/ GoDead \/ NoticeDead
         /\ \/ UNCHANGED <<seen, loadVars>>
            \/ \E i \in Instance : Open(i)
            \/ \E l \in loads : ReadMap(l) \/ FinishLoad(l) \/ LoadFails(l)
            \/ Flush \/ TryAgain
         /\ \/ UNCHANGED <<buffer, told>>
            \/ \E i \in Instance : Deliver(i) \/ Open(i)
            \/ \E j \in jobs : DeliverLocally(j)
            \/ Flush
         /\ UNCHANGED <<newest, doubled>> \/ \E j \in jobs : Publish(j) \/ DeliverLocally(j)
  BY DEF Next, Change, Silent, Deliver, LinkDrops, LinkReturns, Open, Shutdown, CloseSockets, Exit, Boot,
         ReadStatus, Publish, DeliverLocally, ReadMap, FinishLoad, LoadFails, AttemptFails, Close, GoDead,
         NoticeDead, Flush, TryAgain, serverVars, socketVars, loadVars, pageVars, history

LEMMA TruthGrows == ASSUME Types, Next PROVE truth' \in 0..MaxChanges /\ (truth' = truth \/ truth' = truth + 1)
<1>1. CASE truth' = truth
  BY <1>1 DEF Types, ServersOK
<1>2. CASE (\E i \in Instance : Change(i)) \/ Silent
  BY <1>2, Bounds DEF Change, Silent, Types, ServersOK
<1> QED
  BY <1>1, <1>2, Touches

LEMMA NextJobsOK == ASSUME Types, Next PROVE JobsOK'
<1>1. CASE jobs' = jobs /\ truth' = truth
  BY <1>1 DEF Types, JobsOK
<1>2. CASE \E i \in Instance : Change(i)
  <2>1. PICK i \in Instance : Change(i)
    BY <1>2
  <2>2. truth' = truth + 1 /\ truth \in Nat /\ NoNews \in Versions
    BY <2>1, Bounds DEF Change, Types, ServersOK, Versions
  <2>3. \A j \in jobs' : j \in jobs \/ (j \in Job /\ j.change = truth + 1 /\ j.st = "read")
    BY <2>1, <2>2 DEF Change, Job
  <2> QED
    BY <2>2, <2>3, Later DEF Types, JobsOK
<1>5. CASE Silent
  <2>1. truth' = truth + 1 /\ jobs' = jobs
    BY <1>5 DEF Silent
  <2> QED
    BY <2>1, Later DEF Types, JobsOK
<1>3. CASE \E i \in Instance : Exit(i)
  <2>1. truth' = truth /\ jobs' \subseteq jobs
    BY <1>3 DEF Exit
  <2> QED
    BY <2>1 DEF Types, JobsOK
<1>4. CASE \E j \in jobs : ReadStatus(j) \/ Publish(j) \/ DeliverLocally(j)
  BY <1>4, JobsStep
<1> QED
  BY <1>1, <1>2, <1>3, <1>4, <1>5, Touches

LEMMA NextNotesOK == ASSUME Types, Next PROVE NotesOK'
<1> USE DEF NotesOK
<1>1. NotesOK /\ Shaped
  BY TypesAre DEF Types
<1>2. CASE inbox' = inbox
  <2>1. \A k : (k \in 1..truth => k \in 1..truth') /\ (k \in 0..truth => k \in 0..truth')
    BY TruthGrows, Later
  <2> QED
    BY <1>1, <1>2, <2>1
<1>3. ASSUME NEW j \in jobs, Publish(j) PROVE NotesOK'
  <2>1. truth' = truth /\ j.v \in 0..truth /\ j.v \in Nat /\ j.change \in 1..truth
    BY <1>3, Bounds DEF Publish, Types, JobsOK, ServersOK
  <2>2. Message(j).v = j.v /\ Message(j).change = j.change
    BY DEF Message
  <2> QED
    BY <1>1, <1>3, <2>1, <2>2, Handed, Lengths DEF Publish
<1>4. ASSUME NEW i \in Instance, Deliver(i) PROVE NotesOK'
  <2>1. truth' = truth /\ inbox[i] # <<>> /\ inbox' = [inbox EXCEPT ![i] = Tail(@)]
    BY <1>4 DEF Deliver
  <2> QED
    BY <1>1, <2>1, Taken
<1>5. ASSUME NEW i \in Instance, LinkDrops(i) \/ Shutdown(i) PROVE NotesOK'
  <2>1. truth' = truth /\ inbox' = [inbox EXCEPT ![i] = <<>>]
    BY <1>5 DEF LinkDrops, Shutdown
  <2> QED
    BY <1>1, <2>1, Emptied
<1> QED
  BY <1>2, <1>3, <1>4, <1>5, Touches

LEMMA NextLoadsOK == ASSUME Types, Next PROVE LoadsOK' /\ loadSeq' \in 1..MaxLoads
<1>1. LoadsOK /\ loadSeq \in 1..MaxLoads /\ truth \in Nat /\ truth \in 0..truth
  BY Bounds DEF Types, ShownOK, ServersOK
<1>2. CASE UNCHANGED loadVars
  <2>1. \A k : k \in 0..truth => k \in 0..truth'
    BY TruthGrows, Later
  <2> QED
    BY <1>1, <1>2, <2>1 DEF LoadsOK, loadVars
<1>3. ASSUME NewLoad, truth' = truth, loadSeq < MaxLoads PROVE LoadsOK' /\ loadSeq' \in 1..MaxLoads
  <2>1. \A l \in loads' : l \in loads \/ (l \in Load /\ l.n = loadSeq + 1 /\ l.st = "sent")
    BY <1>1, <1>3, Bounds DEF NewLoad, Load, Versions
  <2>2. loadSeq' = loadSeq + 1
    BY <1>3 DEF NewLoad
  <2> QED
    BY <1>1, <1>3, <2>1, <2>2, Bounds DEF LoadsOK
<1>4. CASE (\E i \in Instance : Open(i)) \/ TryAgain
  BY <1>2, <1>3, <1>4 DEF Open, TryAgain, Resync, serverVars
<1>5. ASSUME NEW l \in loads, ReadMap(l) \/ FinishLoad(l) \/ LoadFails(l)
      PROVE  LoadsOK' /\ loadSeq' \in 1..MaxLoads
  <2>1. truth' = truth /\ loadSeq' = loadSeq
    BY <1>5 DEF ReadMap, FinishLoad, LoadFails, serverVars
  <2>3. \A m \in loads' : m \in loads \/ IsRead(m, l)
    BY <1>1, <1>5, LoadOn DEF LoadsOK
  <2> QED
    BY <1>1, <2>1, <2>3 DEF LoadsOK, IsRead
<1>6. CASE Flush
  BY <1>2, <1>6 DEF Flush, serverVars
<1> QED
  BY <1>2, <1>4, <1>5, <1>6, Touches

LEMMA NextServersOK == ASSUME Types, Next PROVE ServersOK'
<1>1. faults' \in 0..MaxFaults
  <2>1. faults' = faults \/ Faults
    BY DEF Next, Change, Silent, Deliver, LinkDrops, LinkReturns, Open, Shutdown, CloseSockets, Exit, Boot,
           ReadStatus, Publish, DeliverLocally, ReadMap, FinishLoad, LoadFails, AttemptFails, Close, GoDead,
           NoticeDead, Flush, TryAgain, Degraded, history
  <2> QED
    BY <2>1, Bounds DEF Faults, Types, ServersOK
<1>2. newest' \in 0..MaxChanges
  <2>1. CASE UNCHANGED newest
    BY <2>1 DEF Types, ServersOK
  <2>2. ASSUME NEW j \in jobs, Publish(j) \/ DeliverLocally(j) PROVE newest' \in 0..MaxChanges
    BY <2>2, Bounds DEF Publish, DeliverLocally, HandsOut, Types, JobsOK, ServersOK
  <2> QED
    BY <2>1, <2>2, Touches
<1>3. /\ stage' \in [Instance -> {"up", "closing", "closed", "down"}]
      /\ linked' \subseteq {i \in Instance : stage'[i] = "up"}
  <2>1. CASE UNCHANGED <<stage, linked>>
    BY <2>1 DEF Types, ServersOK
  <2>2. ASSUME NEW i \in Instance,
               LinkDrops(i) \/ LinkReturns(i) \/ Shutdown(i) \/ CloseSockets(i) \/ Exit(i) \/ Boot(i)
        PROVE  /\ stage' \in [Instance -> {"up", "closing", "closed", "down"}]
               /\ linked' \subseteq {k \in Instance : stage'[k] = "up"}
    BY <2>2 DEF LinkDrops, LinkReturns, Shutdown, CloseSockets, Exit, Boot, Types, ServersOK
  <2> QED
    BY <2>1, <2>2, Touches
<1> QED
  BY <1>1, <1>2, <1>3, TruthGrows DEF ServersOK

LEMMA NextSocketOK == ASSUME Types, Next PROVE SocketOK'
<1>1. SocketOK /\ NoInstance \notin Instance
  BY FeedAssumption DEF Types
<1>2. CASE UNCHANGED <<conn, at, backedOff>>
  BY <1>1, <1>2 DEF SocketOK
<1>3. CASE \E i \in Instance : Open(i) \/ CloseSockets(i)
  BY <1>1, <1>3 DEF Open, CloseSockets, SocketOK
<1>4. CASE AttemptFails \/ Close \/ GoDead \/ NoticeDead
  BY <1>1, <1>4 DEF AttemptFails, Close, GoDead, NoticeDead, SocketOK
<1> QED
  BY <1>2, <1>3, <1>4, Touches

\* What a delivery puts into the buffer.
LEMMA Delivers ==
  ASSUME Types, NEW i, NEW v, NEW c \in 1..MaxChanges, DeliverSeats(i, v, c)
  PROVE  /\ buffer' = buffer \/ (buffer' = v /\ conn = "open" /\ at = i)
         /\ told' \in [1..MaxChanges -> Nat]
         /\ \A d \in 1..MaxChanges : told'[d] = IF d = c /\ conn = "open" /\ at = i THEN told[d] + 1 ELSE told[d]
  BY DEF DeliverSeats, Coalesced, Types, HistoryOK

LEMMA NextShownOK == ASSUME Types, Next PROVE ShownOK'
<1>1. ShownOK /\ (\A k : k \in 0..truth => k \in 0..truth')
  BY TruthGrows, Later DEF Types
<1>2. buffer' \in (0..truth) \cup {NoNews}
  <2>1. CASE UNCHANGED <<buffer, told>>
    BY <1>1, <2>1 DEF ShownOK
  <2>2. CASE Flush \/ \E i \in Instance : Open(i)
    BY <1>1, <2>2 DEF Flush, Open, ShownOK
  <2>3. ASSUME NEW i \in Instance, Deliver(i) PROVE buffer' \in (0..truth) \cup {NoNews}
    <3>1. inbox[i] # <<>> /\ Shaped
      BY <2>3, TypesAre DEF Deliver
    <3>2. Head(inbox[i]).v \in 0..truth
      BY <2>3, <3>1, Taken DEF Deliver, Types, NotesOK
    <3> QED
      BY <1>1, <2>3, <3>2 DEF Deliver, DeliverSeats, Coalesced, ShownOK
  <2>4. ASSUME NEW j \in jobs, DeliverLocally(j) PROVE buffer' \in (0..truth) \cup {NoNews}
    BY <1>1, <2>4 DEF DeliverLocally, DeliverSeats, Coalesced, Types, JobsOK, ShownOK
  <2> QED
    BY <2>1, <2>2, <2>3, <2>4, Touches
<1>3. seen' \in (0..truth) \cup {NoNews}
  <2>1. CASE UNCHANGED <<seen, loadVars>> \/ \E i \in Instance : Open(i)
    BY <1>1, <2>1 DEF Open, ShownOK
  <2>2. CASE Flush \/ TryAgain
    BY <1>1, <2>2 DEF Flush, TryAgain, ShownOK
  <2>3. ASSUME NEW l \in loads, ReadMap(l) \/ FinishLoad(l) \/ LoadFails(l)
        PROVE  seen' \in (0..truth) \cup {NoNews}
    BY <1>1, <2>3 DEF ReadMap, FinishLoad, LoadFails, Types, LoadsOK, ShownOK
  <2> QED
    BY <2>1, <2>2, <2>3, Touches
<1>4. loadSeq' \in 1..MaxLoads
  BY NextLoadsOK
<1> QED
  BY <1>1, <1>2, <1>3, <1>4 DEF ShownOK

LEMMA NextHistoryOK == ASSUME Types, Next PROVE HistoryOK'
<1>1. HistoryOK
  BY DEF Types
<1>2. gaps' \subseteq Gaps
  <2> DEFINE GrowsTo(S) == gaps' \subseteq gaps \cup S
  <2>1. \A i : Missed(i) \subseteq Gaps
    BY DEF Missed, Gaps
  <2>2. \A j : Overtaken(j) \subseteq Gaps
    BY DEF Overtaken, Gaps
  <2>3. ASSUME NEW i \in Instance,
               \/ Change(i) \/ Deliver(i) \/ LinkDrops(i) \/ LinkReturns(i) \/ Open(i)
               \/ Shutdown(i) \/ CloseSockets(i) \/ Exit(i) \/ Boot(i)
        PROVE  gaps' \subseteq Gaps
    BY <1>1, <2>1, <2>3 DEF HistoryOK, Gaps, Change, Deliver, LinkDrops, LinkReturns, Open, Shutdown,
                            CloseSockets, Exit, Boot, history
  <2>4. ASSUME NEW j \in jobs, ReadStatus(j) \/ Publish(j) \/ DeliverLocally(j)
        PROVE  gaps' \subseteq Gaps
    BY <1>1, <2>1, <2>2, <2>4 DEF HistoryOK, Gaps, ReadStatus, Publish, DeliverLocally
  <2>5. ASSUME NEW l \in loads, ReadMap(l) \/ FinishLoad(l) \/ LoadFails(l)
        PROVE  gaps' \subseteq Gaps
    BY <1>1, <2>5 DEF HistoryOK, Gaps, ReadMap, FinishLoad, LoadFails, history
  <2>6. CASE AttemptFails \/ Close \/ GoDead \/ NoticeDead \/ TryAgain
    BY <1>1, <2>6 DEF HistoryOK, AttemptFails, Close, GoDead, NoticeDead, TryAgain, history
  <2>8. CASE Silent
    BY <1>1, <2>8 DEF HistoryOK, Gaps, Silent
  <2>7. CASE Flush
    BY <1>1, <2>7 DEF HistoryOK, Gaps, Flush, Repaired
  <2> QED
    BY <2>3, <2>4, <2>5, <2>6, <2>7, <2>8 DEF Next
<1>3. doubled' \subseteq 1..MaxChanges
  BY <1>1, Touches, Bounds DEF Publish, DeliverLocally, Types, JobsOK, ServersOK, HistoryOK
<1>4. told' \in [1..MaxChanges -> Nat]
  <2>1. CASE UNCHANGED <<buffer, told>>
    BY <1>1, <2>1 DEF HistoryOK
  <2>2. CASE Flush \/ \E i \in Instance : Open(i)
    BY <1>1, <2>2 DEF Flush, Open, HistoryOK
  <2>3. ASSUME NEW i \in Instance, Deliver(i) PROVE told' \in [1..MaxChanges -> Nat]
    <3>1. inbox[i] # <<>> /\ Shaped
      BY <2>3, TypesAre DEF Deliver
    <3>2. Head(inbox[i]).change \in 1..MaxChanges
      BY <2>3, <3>1, Taken, Bounds DEF Deliver, Types, NotesOK, ServersOK
    <3> QED
      BY <2>3, <3>2, Delivers DEF Deliver
  <2>4. ASSUME NEW j \in jobs, DeliverLocally(j) PROVE told' \in [1..MaxChanges -> Nat]
    <3>1. j.change \in 1..MaxChanges
      BY Bounds DEF Types, JobsOK, ServersOK
    <3> QED
      BY <2>4, <3>1, Delivers DEF DeliverLocally
  <2> QED
    BY <2>1, <2>2, <2>3, <2>4, Touches
<1> QED
  BY <1>2, <1>3, <1>4 DEF HistoryOK

LEMMA NextTypes == ASSUME Types, Next PROVE Types'
  BY NextJobsOK, NextNotesOK, NextLoadsOK, NextServersOK, NextSocketOK, NextShownOK, NextHistoryOK
  DEF Types

-----------------------------------------------------------------------------
(* The parts of the invariant, each kept by every step.                    *)

LEMMA NextConnected == ASSUME Types, Connected, Next PROVE Connected'
<1>1. ASSUME NEW i \in Instance, i \notin linked' PROVE inbox'[i] = <<>>
  <2>1. CASE UNCHANGED <<stage, linked>> /\ inbox' = inbox
    BY <1>1, <2>1 DEF Connected
  <2>2. ASSUME NEW k \in Instance, Deliver(k) PROVE inbox'[i] = <<>>
    BY <1>1, <2>2 DEF Connected, Deliver, Types, NotesOK
  <2>3. ASSUME NEW k \in Instance, LinkDrops(k) \/ Shutdown(k) PROVE inbox'[i] = <<>>
    BY <1>1, <2>3 DEF Connected, LinkDrops, Shutdown, Types, NotesOK
  <2>4. ASSUME NEW k \in Instance, LinkReturns(k) \/ CloseSockets(k) \/ Exit(k) \/ Boot(k) PROVE inbox'[i] = <<>>
    BY <1>1, <2>4 DEF Connected, LinkReturns, CloseSockets, Exit, Boot
  <2>5. ASSUME NEW j \in jobs, Publish(j) PROVE inbox'[i] = <<>>
    BY <1>1, <2>5 DEF Connected, Publish
  <2> QED
    BY <2>1, <2>2, <2>3, <2>4, <2>5, Touches
<1>2. conn' = "open" => stage'[at'] \in {"up", "closing"}
  <2>1. CASE UNCHANGED <<stage, linked>> /\ UNCHANGED <<conn, at, backedOff>>
    BY <2>1 DEF Connected
  <2>2. ASSUME NEW i \in Instance, Open(i) PROVE stage'[at'] = "up"
    BY <2>2 DEF Open, serverVars
  <2>3. CASE AttemptFails \/ Close \/ GoDead \/ NoticeDead
    BY <2>3 DEF AttemptFails, Close, GoDead, NoticeDead
  <2>4. ASSUME NEW i \in Instance, conn' = "open",
               LinkDrops(i) \/ LinkReturns(i) \/ Shutdown(i) \/ CloseSockets(i) \/ Exit(i) \/ Boot(i)
        PROVE  stage'[at'] \in {"up", "closing"}
    <3>1. conn = "open" /\ at' = at /\ at \in Instance /\ stage[at] \in {"up", "closing"}
      BY <2>4 DEF LinkDrops, LinkReturns, Shutdown, CloseSockets, Exit, Boot, Connected, Types,
                  SocketOK, pageVars, socketVars
    <3> QED
      BY <2>4, <3>1 DEF LinkDrops, LinkReturns, Shutdown, CloseSockets, Exit, Boot, Types, ServersOK
  <2> QED
    BY <2>1, <2>2, <2>3, <2>4, Touches
<1> QED
  BY <1>1, <1>2 DEF Connected

\* What handing out a broadcast does to `newest`.
LEMMA NewestGrows ==
  ASSUME Types, Next
  PROVE  /\ newest \in Nat /\ newest' \in Nat /\ newest <= newest'
         /\ \A j \in jobs : Publish(j) \/ DeliverLocally(j) =>
              j.v \in Nat /\ j.v <= newest' /\ (newest' = newest \/ newest' = j.v)
<1>1. newest \in Nat /\ newest' \in Nat
  BY NextTypes, Bounds DEF Types, ServersOK
<1>2. ASSUME NEW j \in jobs, Publish(j) \/ DeliverLocally(j)
      PROVE  j.v \in Nat /\ j.v <= newest' /\ newest <= newest' /\ (newest' = newest \/ newest' = j.v)
  <2>1. j.v \in Nat /\ HandsOut(j)
    BY <1>2, Bounds DEF Publish, DeliverLocally, Types, JobsOK, ServersOK
  <2> QED
    BY <1>1, <2>1 DEF HandsOut
<1> QED
  BY <1>1, <1>2, Touches

LEMMA NextHandedOut == ASSUME Types, HandedOut, Next PROVE HandedOut'
<1>1. newest \in Nat /\ newest' \in Nat /\ newest <= newest' /\ truth \in Nat /\ truth' \in Nat
  BY NewestGrows, NextTypes, Bounds DEF Types, ServersOK
<1>2. Shaped
  BY TypesAre
<1>3. newest' <= truth'
  <2>1. CASE UNCHANGED newest
    BY <1>1, <2>1, TruthGrows DEF HandedOut
  <2>2. ASSUME NEW j \in jobs, Publish(j) \/ DeliverLocally(j) PROVE newest' <= truth'
    <3>1. j.v \in 0..truth /\ truth' = truth
      BY <2>2 DEF Publish, DeliverLocally, Types, JobsOK
    <3> QED
      BY <1>1, <2>2, <3>1, NewestGrows DEF HandedOut
  <2> QED
    BY <2>1, <2>2, Touches
<1>4. ASSUME NEW i \in Instance, NEW k \in 1..Len(inbox'[i]) PROVE inbox'[i][k].v <= newest'
  <2>1. \A m \in 1..Len(inbox[i]) : inbox[i][m].v \in Nat /\ inbox[i][m].v <= newest
    BY Bounds DEF HandedOut, Types, NotesOK, ServersOK
  <2>2. CASE inbox' = inbox
    BY <1>1, <1>4, <2>1, <2>2
  <2>3. ASSUME NEW j \in jobs, Publish(j) PROVE inbox'[i][k].v <= newest'
    <3>1. j.v \in Nat /\ j.v <= newest' /\ Message(j).v = j.v
      BY <2>3, NewestGrows DEF Message
    <3> QED
      BY <1>1, <1>2, <1>4, <2>1, <2>3, <3>1, Handed, Lengths DEF Publish
  <2>4. ASSUME NEW m \in Instance, Deliver(m) PROVE inbox'[i][k].v <= newest'
    <3>1. inbox[m] # <<>> /\ inbox' = [inbox EXCEPT ![m] = Tail(@)]
      BY <2>4 DEF Deliver
    <3>2. CASE i = m
      BY <1>1, <1>2, <1>4, <2>1, <3>1, <3>2, Taken
    <3>3. CASE i # m
      BY <1>1, <1>2, <1>4, <2>1, <3>1, <3>3, Taken
    <3> QED
      BY <3>2, <3>3
  <2>5. ASSUME NEW m \in Instance, LinkDrops(m) \/ Shutdown(m) PROVE inbox'[i][k].v <= newest'
    <3>1. inbox' = [inbox EXCEPT ![m] = <<>>]
      BY <2>5 DEF LinkDrops, Shutdown
    <3>2. inbox'[m] = <<>> /\ \A n \in Instance \ {m} : inbox'[n] = inbox[n]
      BY <1>2, <3>1, Emptied
    <3>3. CASE i = m
      BY <1>4, <3>2, <3>3
    <3>4. CASE i # m
      BY <1>1, <1>4, <2>1, <3>2, <3>4
    <3> QED
      BY <3>3, <3>4
  <2> QED
    BY <2>2, <2>3, <2>4, <2>5, Touches
<1>5. buffer' # NoNews => buffer' <= newest'
  <2>1. buffer = NoNews \/ (buffer \in Nat /\ buffer <= newest)
    BY Bounds DEF HandedOut, Types, ShownOK, ServersOK
  <2>2. CASE UNCHANGED <<buffer, told>> \/ Flush \/ \E i \in Instance : Open(i)
    BY <1>1, <2>1, <2>2 DEF Flush, Open
  <2>3. ASSUME NEW i \in Instance, Deliver(i) PROVE buffer' # NoNews => buffer' <= newest'
    <3>1. inbox[i] # <<>>
      BY <2>3 DEF Deliver
    <3>2. Head(inbox[i]).v \in Nat /\ Head(inbox[i]).v <= newest
      BY <1>2, <2>3, <3>1, Taken, Bounds DEF Deliver, HandedOut, Types, NotesOK, ServersOK
    <3>3. newest' = newest /\ (buffer' = buffer \/ buffer' = Head(inbox[i]).v)
      BY <2>3 DEF Deliver, DeliverSeats, Coalesced
    <3> QED
      BY <1>1, <2>1, <3>2, <3>3
  <2>4. ASSUME NEW j \in jobs, DeliverLocally(j) PROVE buffer' # NoNews => buffer' <= newest'
    BY <1>1, <2>1, <2>4, NewestGrows DEF DeliverLocally, DeliverSeats, Coalesced
  <2> QED
    BY <2>2, <2>3, <2>4, Touches
<1>6. ASSUME NEW k \in jobs', k.st = "local" PROVE k.v <= newest'
  <2>1. \A j \in jobs : j.st = "local" => j.v \in Nat /\ j.v <= newest
    BY Bounds DEF HandedOut, Types, JobsOK, ServersOK
  <2>2. CASE k \in jobs
    BY <1>1, <1>6, <2>1, <2>2
  <2>3. ASSUME NEW j \in jobs, Publish(j), GoneOn(k, j, j.v, "local") PROVE k.v <= newest'
    BY <2>3, NewestGrows DEF GoneOn
  <2>4. ASSUME NEW j \in jobs, ReadStatus(j), NEW v, GoneOn(k, j, v, "publish") PROVE FALSE
    BY <1>6, <2>4 DEF GoneOn
  <2>5. ASSUME NEW i \in Instance, Change(i) PROVE k \in jobs
    BY <1>6, <2>5 DEF Change
  <2> QED
    BY <2>2, <2>3, <2>4, <2>5, Touches, ReadOn, PublishOn DEF Exit, DeliverLocally
<1> QED
  BY <1>3, <1>4, <1>5, <1>6 DEF HandedOut

LEMMA NextLoading == ASSUME Types, Loading, Next PROVE Loading'
<1>1. LoadsOK /\ loadSeq \in Nat
  BY Bounds DEF Types, ShownOK
<1>2. ASSUME NewLoad PROVE /\ \A l, m \in loads' : l.n = m.n => l = m
                           /\ Awaits'
  <2>1. PICK new : loads' = loads \cup {new} /\ new.n = loadSeq + 1 /\ loadSeq' = loadSeq + 1
    BY <1>2 DEF NewLoad
  <2>2. \A l \in loads : l.n # loadSeq + 1
    BY <1>1 DEF LoadsOK
  <2> QED
    BY <2>1, <2>2 DEF Loading, Awaits, Newest
<1>3. ASSUME UNCHANGED loadVars
      PROVE  (\A l, m \in loads' : l.n = m.n => l = m) /\ (Awaits => Awaits')
  BY <1>3 DEF loadVars, Loading, Awaits, Newest
<1>4. ASSUME NEW l \in loads, ReadMap(l) \/ FinishLoad(l) \/ LoadFails(l) PROVE Loading'
  <2>1. loadSeq' = loadSeq
    BY <1>4 DEF ReadMap, FinishLoad, LoadFails
  <2>2. CASE ReadMap(l)
    <3>1. l \in Load /\ truth \in Nat
      BY <1>1, Bounds DEF LoadsOK, Types, ServersOK
    <3>2. PICK read \in loads' : IsRead(read, l) /\ loads' = (loads \ {l}) \cup {read}
      BY <2>2, <3>1, LoadOn
    <3>3. UNCHANGED <<seen, gaps>> /\ read.n = l.n
      BY <2>2, <3>2 DEF ReadMap, history, IsRead
    <3>4. \A m, k \in loads' : m.n = k.n => m = k
      BY <3>2, <3>3 DEF Loading
    <3>5. Awaits => Awaits'
      BY <2>1, <3>2, <3>3 DEF Awaits, Newest
    <3> QED
      BY <3>3, <3>4, <3>5 DEF Loading
  <2>3. CASE FinishLoad(l) /\ Newest(l)
    BY <1>1, <1>4, <2>3, Bounds DEF FinishLoad, Loading, LoadsOK
  <2>4. CASE ~ReadMap(l) /\ ~Newest(l)
    <3>1. loads' = loads \ {l} /\ UNCHANGED <<seen, gaps>>
      BY <1>4, <2>4 DEF FinishLoad, LoadFails
    <3> QED
      BY <2>1, <2>4, <3>1 DEF Loading, Awaits, Newest
  <2>5. CASE LoadFails(l) /\ Newest(l)
    BY <2>5 DEF LoadFails, Loading
  <2> QED
    BY <1>4, <2>2, <2>3, <2>4, <2>5
<1>5. CASE TryAgain \/ \E i \in Instance : Open(i)
  BY <1>2, <1>3, <1>5 DEF TryAgain, Open, Resync, Loading, history
<1>6. CASE Flush
  <2>1. UNCHANGED loadVars /\ (seen' = NoNews => seen = NoNews) /\ ("loadFailed" \in gaps => "loadFailed" \in gaps')
    BY <1>6 DEF Flush, Repaired
  <2> QED
    BY <1>3, <2>1 DEF Loading
<1>7. CASE UNCHANGED <<seen, loadVars>>
  <2>1. \/ "loadFailed" \in gaps => "loadFailed" \in gaps'
        \/ (\E l \in loads : FinishLoad(l)) \/ Flush
    BY DEF Next, Change, Silent, Deliver, LinkDrops, LinkReturns, Open, Shutdown, CloseSockets, Exit, Boot,
           ReadStatus, Publish, DeliverLocally, ReadMap, LoadFails, AttemptFails, Close, GoDead, NoticeDead,
           TryAgain, history
  <2> QED
    BY <1>3, <1>4, <1>6, <1>7, <2>1 DEF Loading
<1> QED
  BY <1>4, <1>5, <1>6, <1>7, Touches

\* A step of a broadcast leaves at most one broadcast of that change.
LEMMA JobMoves ==
  ASSUME Types, NEW j \in jobs, ReadStatus(j) \/ Publish(j) \/ DeliverLocally(j)
  PROVE  \E x : x.change = j.change /\ jobs' \subseteq (jobs \ {j}) \cup {x}
<1>1. j \in Job /\ j.v \in Versions /\ truth \in Versions
  BY Bounds DEF Types, JobsOK, Job, ServersOK, Versions
<1> DEFINE x(v) == [j EXCEPT !.v = v, !.st = "publish"]
           y == [j EXCEPT !.st = "local"]
<1>2. \A v \in Versions : x(v).change = j.change
  BY <1>1, JobUpdates DEF GoneOn
<1>3. GoneOn(y, j, j.v, "local")
  BY <1>1, JobUpdates
<1>4. CASE ReadStatus(j)
  <2>1. truth # 0 => WithoutHold \in Versions
    BY Bounds DEF WithoutHold, Types, ServersOK, Versions
  <2>2. \E v \in Versions : jobs' \subseteq (jobs \ {j}) \cup {x(v)}
    BY <1>1, <1>4, <2>1 DEF ReadStatus, Degraded
  <2> QED
    BY <1>2, <2>2
<1>5. CASE Publish(j)
  <2>1. jobs' \subseteq (jobs \ {j}) \cup {y}
    BY <1>5 DEF Publish, Published
  <2> QED
    BY <1>3, <2>1 DEF GoneOn
<1>6. CASE DeliverLocally(j)
  BY <1>6 DEF DeliverLocally
<1> QED
  BY <1>4, <1>5, <1>6

\* What is told and in the inboxes does not grow.
LEMMA NothingNew ==
  ASSUME NEW c, OnceOnly(c),
         Awaited(c)' => Awaited(c),
         \A i \in Instance : inbox'[i] = inbox[i] \/ inbox'[i] = <<>>,
         \/ told'[c] = 0
         \/ told'[c] = told[c] /\ (conn' = "open" => conn = "open" /\ at' = at /\ at \in Instance)
  PROVE  OnceOnly(c)'
<1>1. \A i \in Instance : InboxHas(i, c)' => InboxHas(i, c)
  BY DEF InboxHas
<1>2. ASSUME NEW i \in Instance, NEW k \in 1..Len(inbox'[i]), NEW m \in 1..Len(inbox'[i]),
             inbox'[i][k].change = c, inbox'[i][m].change = c
      PROVE  k = m
  BY <1>2 DEF OnceOnly
<1>3. told'[c] <= 1 /\ (told'[c] = 1 /\ conn' = "open" => ~InboxHas(at, c)')
  BY <1>1 DEF OnceOnly
<1>4. Awaited(c)' => told'[c] = 0 /\ \A i \in Instance : ~InboxHas(i, c)'
  BY <1>1 DEF OnceOnly
<1> QED
  BY <1>2, <1>3, <1>4 DEF OnceOnly

\* The change a message is about can be told once more, if it is not doubled.
LEMMA DeliverOnce ==
  ASSUME Types, Counted, NEW i \in Instance, Deliver(i), NEW c \in 1..MaxChanges, c \notin doubled
  PROVE  OnceOnly(c)'
<1> DEFINE head == inbox[i][1]
<1>1. OnceOnly(c) /\ Shaped /\ inbox[i] # <<>> /\ inbox' = [inbox EXCEPT ![i] = Tail(@)]
  BY TypesAre DEF Counted, Deliver
<1>2. /\ \A k \in Instance \ {i} : inbox'[k] = inbox[k]
      /\ Len(inbox[i]) \in Nat \ {0} /\ Len(inbox'[i]) = Len(inbox[i]) - 1
      /\ \A k \in 1..Len(inbox[i]) - 1 : inbox'[i][k] = inbox[i][k + 1]
      /\ Head(inbox[i]) = head
  BY <1>1, Taken
<1>3. head.change \in 1..MaxChanges
  BY <1>2, Bounds DEF Types, NotesOK, ServersOK
<1>4. told'[c] = IF c = head.change /\ conn = "open" /\ at = i THEN told[c] + 1 ELSE told[c]
  BY <1>2, <1>3, Delivers DEF Deliver
<1>5. UNCHANGED <<jobs, conn, at>> /\ told[c] \in Nat
  BY DEF Deliver, Types, HistoryOK
<1>6. \A k \in Instance : InboxHas(k, c)' => InboxHas(k, c)
  <2>1. InboxHas(i, c)' => InboxHas(i, c)
    BY <1>2 DEF InboxHas
  <2> QED
    BY <1>2, <2>1 DEF InboxHas
<1>7. \A k \in Instance : \A m, n \in 1..Len(inbox'[k]) :
         inbox'[k][m].change = c /\ inbox'[k][n].change = c => m = n
  <2>1. \A m, n \in 1..Len(inbox'[i]) :
           inbox'[i][m].change = c /\ inbox'[i][n].change = c => m = n
    BY <1>1, <1>2 DEF OnceOnly
  <2> QED
    BY <1>1, <1>2, <2>1 DEF OnceOnly
<1>8. c = head.change => InboxHas(i, c) /\ ~InboxHas(i, c)'
  BY <1>1, <1>2 DEF OnceOnly, InboxHas
<1>9. Awaited(c)' => Awaited(c)
  BY <1>5 DEF Awaited
<1>10. CASE c = head.change /\ conn = "open" /\ at = i
  <2>1. told[c] = 0 /\ ~Awaited(c)
    BY <1>1, <1>5, <1>8, <1>10 DEF OnceOnly
  <2> QED
    BY <1>4, <1>5, <1>7, <1>8, <1>9, <1>10, <2>1 DEF OnceOnly
<1>11. CASE ~(c = head.change /\ conn = "open" /\ at = i)
  <2>1. conn = "open" => at \in Instance
    BY DEF Types, SocketOK
  <2> QED
    BY <1>1, <1>4, <1>5, <1>6, <1>7, <1>9, <1>11, <2>1 DEF OnceOnly
<1> QED
  BY <1>10, <1>11

LEMMA PublishOnce ==
  ASSUME Types, Counted, NEW j \in jobs, Publish(j), NEW c \in 1..MaxChanges, c \notin doubled'
  PROVE  OnceOnly(c)'
<1>1. OnceOnly(c) /\ Shaped /\ doubled \subseteq doubled'
  BY TypesAre DEF Counted, Publish
<1>2. /\ UNCHANGED <<told, conn, at>> /\ j.v \in Nat /\ (conn = "open" => at \in Instance)
      /\ inbox' = [k \in Instance |-> IF k \in linked THEN Append(inbox[k], Message(j)) ELSE inbox[k]]
      /\ Message(j).change = j.change
  BY Bounds DEF Publish, Message, Types, JobsOK, ServersOK, SocketOK, pageVars, socketVars
<1>3. \A i \in Instance : Len(inbox[i]) \in Nat
  BY <1>1, Lengths
<1>4. CASE c = j.change
  <2>1. Awaited(c) /\ jobs' = jobs \ {j}
    BY <1>4 DEF Awaited, Publish, Published
  <2>2. ~Awaited(c)'
    BY <1>4, <2>1 DEF Awaited, Counted
  <2>3. \A i \in Instance : \A k \in 1..Len(inbox[i]) : inbox[i][k].change # c
    BY <1>1, <2>1 DEF OnceOnly, InboxHas
  <2>4. \A i \in Instance : \A k, m \in 1..Len(inbox'[i]) :
           inbox'[i][k].change = c /\ inbox'[i][m].change = c => k = m
    BY <1>1, <1>2, <1>3, <2>3, Handed
  <2>5. told'[c] = 0
    BY <1>1, <1>2, <2>1 DEF OnceOnly
  <2> QED
    BY <2>2, <2>4, <2>5 DEF OnceOnly
<1>5. CASE c # j.change
  <2>1. Awaited(c)' => Awaited(c)
    BY <1>5, JobMoves DEF Awaited
  <2>2. \A i \in Instance : \A k \in 1..Len(inbox'[i]) :
           inbox'[i][k].change = c => k \in 1..Len(inbox[i]) /\ inbox'[i][k] = inbox[i][k]
    BY <1>1, <1>2, <1>3, <1>5, Handed
  <2>3. \A i \in Instance : InboxHas(i, c)' => InboxHas(i, c)
    BY <2>2 DEF InboxHas
  <2>4. \A i \in Instance : \A k, m \in 1..Len(inbox'[i]) :
           inbox'[i][k].change = c /\ inbox'[i][m].change = c => k = m
    BY <1>1, <2>2 DEF OnceOnly
  <2> QED
    BY <1>1, <1>2, <2>1, <2>3, <2>4 DEF OnceOnly
<1> QED
  BY <1>4, <1>5

LEMMA LocalOnce ==
  ASSUME Types, Counted, NEW j \in jobs, DeliverLocally(j), NEW c \in 1..MaxChanges, c \notin doubled
  PROVE  OnceOnly(c)'
<1>1. OnceOnly(c) /\ told[c] \in Nat /\ (conn = "open" => at \in Instance)
  BY DEF Counted, Types, HistoryOK, SocketOK
<1>2. jobs' = jobs \ {j} /\ UNCHANGED <<inbox, conn, at>>
  BY DEF DeliverLocally
<1>3. Awaited(c)' => Awaited(c)
  BY <1>2 DEF Awaited
<1>4. j.change \in 1..MaxChanges
  BY Bounds DEF Types, JobsOK, ServersOK
<1>5. \A d \in 1..MaxChanges : told'[d] = told[d] \/ (d = j.change /\ told'[d] = told[d] + 1)
  BY <1>4, Delivers DEF DeliverLocally
<1>6. CASE told'[c] = told[c]
  BY <1>1, <1>2, <1>3, <1>6, NothingNew
<1>7. CASE c = j.change /\ told'[c] = told[c] + 1
  <2>1. Awaited(c) /\ ~Awaited(c)'
    BY <1>2, <1>7 DEF Awaited, Counted
  <2>2. told[c] = 0 /\ \A i \in Instance : ~InboxHas(i, c)
    BY <1>1, <2>1 DEF OnceOnly
  <2>3. \A i \in Instance : ~InboxHas(i, c)'
    BY <1>2, <2>2 DEF InboxHas
  <2> QED
    BY <1>1, <1>2, <1>7, <2>1, <2>2, <2>3 DEF OnceOnly
<1> QED
  BY <1>5, <1>6, <1>7

LEMMA NextCounted == ASSUME Types, Connected, Counted, Next PROVE Counted'
<1>1. \A j \in jobs : j.change \in 1..truth
  BY DEF Types, JobsOK
<1>2. \A j, k \in jobs' : j.change = k.change => j = k
  <2>1. CASE jobs' \subseteq jobs
    BY <2>1 DEF Counted
  <2>2. ASSUME NEW i \in Instance, Change(i) PROVE \A j, k \in jobs' : j.change = k.change => j = k
    <3> DEFINE x == [change |-> truth + 1, by |-> i, v |-> NoNews, st |-> "read"]
    <3>1. jobs' = jobs \cup {x} /\ x.change = truth + 1
      BY <2>2 DEF Change
    <3> HIDE DEF x
    <3>2. \A j \in jobs : j.change # truth + 1
      BY <1>1, Bounds DEF Types, ServersOK
    <3> QED
      BY <3>1, <3>2 DEF Counted
  <2>3. ASSUME NEW j \in jobs, ReadStatus(j) \/ Publish(j) \/ DeliverLocally(j)
        PROVE  \A m, k \in jobs' : m.change = k.change => m = k
    <3>1. PICK x : x.change = j.change /\ jobs' \subseteq (jobs \ {j}) \cup {x}
      BY <2>3, JobMoves
    <3> QED
      BY <3>1 DEF Counted
  <2> QED
    BY <2>1, <2>2, <2>3, Touches DEF Exit
<1>3. ASSUME NEW k \in jobs', k.st = "local" PROVE k.change \in doubled'
  <2>1. doubled \subseteq doubled'
    BY Touches DEF Publish, DeliverLocally
  <2>2. CASE k \in jobs
    BY <1>3, <2>1, <2>2 DEF Counted
  <2>3. ASSUME NEW j \in jobs, Publish(j), k \notin jobs PROVE k.change \in doubled'
    BY <2>3, PublishOn DEF GoneOn
  <2>4. ASSUME NEW j \in jobs, ReadStatus(j), k \notin jobs PROVE FALSE
    BY <1>3, <2>4, ReadOn DEF GoneOn
  <2>5. ASSUME NEW i \in Instance, Change(i) PROVE k \in jobs
    BY <1>3, <2>5 DEF Change
  <2> QED
    BY <2>2, <2>3, <2>4, <2>5, Touches DEF Exit, DeliverLocally
<1>4. ASSUME NEW c \in 1..MaxChanges, c > truth' PROVE told'[c] = 0
  <2>1. c > truth /\ told[c] = 0
    BY <1>4, TruthGrows, Bounds DEF Counted, Types, ServersOK
  <2>2. CASE UNCHANGED <<buffer, told>> \/ Flush \/ \E i \in Instance : Open(i)
    BY <2>1, <2>2 DEF Flush, Open
  <2>3. ASSUME NEW i \in Instance, Deliver(i) PROVE told'[c] = 0
    <3>1. inbox[i] # <<>> /\ Shaped
      BY <2>3, TypesAre DEF Deliver
    <3>2. Head(inbox[i]).change \in 1..truth
      BY <2>3, <3>1, Taken DEF Deliver, Types, NotesOK
    <3>3. Head(inbox[i]).change \in 1..MaxChanges /\ Head(inbox[i]).change # c
      BY <2>1, <3>2, Bounds DEF Types, ServersOK
    <3> QED
      BY <2>1, <2>3, <3>3, Delivers DEF Deliver
  <2>4. ASSUME NEW j \in jobs, DeliverLocally(j) PROVE told'[c] = 0
    <3>1. j.change \in 1..MaxChanges /\ j.change # c
      BY <1>1, <2>1, Bounds DEF Types, ServersOK
    <3> QED
      BY <2>1, <2>4, <3>1, Delivers DEF DeliverLocally
  <2> QED
    BY <2>2, <2>3, <2>4, Touches
<1>5. ASSUME NEW c \in 1..MaxChanges, c \notin doubled' PROVE OnceOnly(c)'
  <2>1. doubled \subseteq doubled'
    BY Touches DEF Publish, DeliverLocally
  <2>2. OnceOnly(c) /\ c \notin doubled
    BY <1>5, <2>1 DEF Counted
  <2>3. conn = "open" => at \in Instance
    BY DEF Types, SocketOK
  <2>4. ASSUME NEW i \in Instance, Change(i) PROVE OnceOnly(c)'
    <3>1. /\ UNCHANGED <<inbox, told, conn, at>> /\ truth' = truth + 1 /\ truth \in Nat
          /\ \A j \in jobs' : j \in jobs \/ j.change = truth + 1
      BY <2>4, Bounds DEF Change, pageVars, socketVars, history, Types, ServersOK
    <3>2. CASE c = truth + 1
      <4>1. told[c] = 0
        BY <3>1, <3>2 DEF Counted
      <4>2. \A k \in Instance : ~InboxHas(k, c)
        BY <3>1, <3>2 DEF InboxHas, Types, NotesOK
      <4> QED
        BY <2>2, <3>1, <4>1, <4>2 DEF OnceOnly, InboxHas
    <3>3. CASE c # truth + 1
      <4>1. Awaited(c)' => Awaited(c)
        BY <3>1, <3>3 DEF Awaited
      <4> QED
        BY <2>2, <2>3, <3>1, <4>1, NothingNew
    <3> QED
      BY <3>2, <3>3
  <2>5. ASSUME NEW i \in Instance, Deliver(i) PROVE OnceOnly(c)'
    BY <2>2, <2>5, DeliverOnce
  <2>6. ASSUME NEW j \in jobs, Publish(j) PROVE OnceOnly(c)'
    BY <1>5, <2>6, PublishOnce
  <2>7. ASSUME NEW j \in jobs, DeliverLocally(j) PROVE OnceOnly(c)'
    BY <2>2, <2>7, LocalOnce
  <2>8. CASE /\ jobs' = jobs \/ (\E i \in Instance : Exit(i)) \/ \E j \in jobs : ReadStatus(j)
             /\ inbox' = inbox \/ (\E i \in Instance : LinkDrops(i) \/ Shutdown(i))
             /\ UNCHANGED <<buffer, told>> \/ Flush \/ \E i \in Instance : Open(i)
    <3>1. Awaited(c)' => Awaited(c)
      BY <2>8, JobMoves DEF Awaited, Exit
    <3>2. \A i \in Instance : inbox'[i] = inbox[i] \/ inbox'[i] = <<>>
      BY <2>8 DEF LinkDrops, Shutdown, Types, NotesOK
    <3>3. (\E i \in Instance : Open(i)) => told'[c] = 0
      BY DEF Open
    <3>4. ~(\E i \in Instance : Open(i)) =>
             told' = told /\ (conn' = "open" => conn = "open" /\ at' = at)
      BY <2>8, Touches DEF Flush, CloseSockets, AttemptFails, Close, GoDead, NoticeDead
    <3> QED
      BY <2>2, <2>3, <3>1, <3>2, <3>3, <3>4, NothingNew
  <2> QED
    BY <2>4, <2>5, <2>6, <2>7, <2>8, Touches
<1> QED
  BY <1>2, <1>3, <1>4, <1>5 DEF Counted

-----------------------------------------------------------------------------
(* Fresh: where the newest status goes, step by step.                      *)

\* What the proofs of Fresh need of the types.
LEMMA Basics ==
  ASSUME Types
  PROVE  /\ truth \in Nat /\ newest \in Nat /\ NoNews \notin Nat /\ loadSeq \in Nat
         /\ \A j \in jobs : j.by \in Instance /\ (j.st # "read" => j.v \in 0..truth)
         /\ \A l \in loads : l.n \in 1..loadSeq /\ l.st \in {"sent", "read", "degraded"} /\ (l.st # "sent" => l.v \in 0..truth)
         /\ conn \in {"closed", "open", "dead"} /\ (conn = "open" => at \in Instance) /\ backedOff \in BOOLEAN
         /\ buffer \in (0..truth) \cup {NoNews} /\ seen \in (0..truth) \cup {NoNews}
BY Bounds DEF Types, JobsOK, Job, LoadsOK, Load, ServersOK, SocketOK, ShownOK

\* A step that takes no reason away, no load and no socket to be reopened.
LEMMA Expectation ==
  ASSUME Expected', gaps \subseteq gaps', Awaits' => Awaits, WillReload => WillReload'
  PROVE  Expected
BY DEF Expected

\* Nothing newer than what was handed out is in an inbox or in the buffer.
LEMMA NotHandedOut ==
  ASSUME Types, HandedOut, newest < truth
  PROVE  ~Arriving
<1>1. \A i \in Instance : ~EndsWell(i)
  <2>1. SUFFICES ASSUME NEW i \in Instance, inbox[i] # <<>> PROVE inbox[i][Len(inbox[i])].v < truth
    BY Basics DEF EndsWell
  <2>2. Len(inbox[i]) \in 1..Len(inbox[i])
    BY <2>1, EmptySeq, LenProperties DEF Types, NotesOK
  <2> QED
    BY <2>2, Basics DEF HandedOut, Types, NotesOK
<1>2. buffer # truth
  BY Basics DEF HandedOut
<1> QED
  BY <1>1, <1>2, Basics, FeedAssumption DEF Arriving

LEMMA FreshServers ==
  ASSUME Types, HandedOut, Connected, Fresh, Expected', NEW i \in Instance,
         LinkDrops(i) \/ LinkReturns(i) \/ Shutdown(i) \/ CloseSockets(i) \/ Exit(i) \/ Boot(i)
  PROVE  OnItsWay'
<1>1. /\ UNCHANGED <<truth, seen, loads, loadSeq, buffer>>
      /\ gaps \subseteq gaps' /\ (Awaits' => Awaits)
  BY DEF LinkDrops, LinkReturns, Shutdown, CloseSockets, Exit, Boot, Awaits, Newest,
         pageVars, socketVars, loadVars, history
<1>2. stage \in [Instance -> {"up", "closing", "closed", "down"}] /\ \A k \in linked : stage[k] = "up"
  BY DEF Types, ServersOK
<1>3. LoadBrings => LoadBrings'
  BY <1>1 DEF LoadBrings, Newest
<1>4. CASE CloseSockets(i) \/ Exit(i) \/ Boot(i) \/ LinkReturns(i)
  <2>1. UNCHANGED <<conn, at, backedOff>>
    BY <1>4 DEF CloseSockets, Exit, Boot, LinkReturns, Expected, WillReload, pageVars, socketVars
  <2>2. WillReload => WillReload'
    BY <1>2, <1>4, <2>1, Basics DEF CloseSockets, Exit, Boot, LinkReturns, WillReload, Expected, Connected
  <2>3. OnItsWay /\ inbox' = inbox
    BY <1>1, <1>4, <2>2, Expectation DEF Fresh, CloseSockets, Exit, Boot, LinkReturns
  <2>4. jobs' = jobs
    BY <1>4 DEF CloseSockets, Exit, Boot, LinkReturns, Expected
  <2> QED
    BY <1>1, <1>3, <2>1, <2>3, <2>4 DEF OnItsWay, Broadcasting, Arriving, EndsWell
<1>5. CASE LinkDrops(i) \/ Shutdown(i)
  <2>1. UNCHANGED <<conn, at, backedOff, jobs>> /\ inbox' = [inbox EXCEPT ![i] = <<>>]
    BY <1>5 DEF LinkDrops, Shutdown, pageVars, socketVars
  <2>2. \A k \in Instance \ {i} : inbox'[k] = inbox[k]
    BY <2>1, TypesAre, Emptied DEF Types
  <2>3. WillReload => WillReload'
    BY <1>2, <1>5, <2>1, Basics DEF LinkDrops, Shutdown, WillReload
  <2>4. OnItsWay
    BY <1>1, <2>3, Expectation DEF Fresh
  <2>5. inbox[i] = <<>> \/ (conn = "open" /\ at # i)
    <3>1. conn # "dead" /\ (conn = "closed" => ~backedOff)
      BY <2>1 DEF Expected, WillReload
    <3>2. "channelDown" \notin gaps' /\ "beforeFirstOpen" \notin gaps'
      BY DEF Expected
    <3>3. stage[i] = "up" /\ (Shutdown(i) => stage' = [stage EXCEPT ![i] = "closing"])
      BY <1>2, <1>5 DEF LinkDrops, Shutdown
    <3>4. Shutdown(i) => ~(conn = "open" /\ at = i)
      BY <1>2, <2>1, <3>3 DEF Expected, WillReload
    <3>5. inbox[i] # <<>> /\ conn # "open" => Missed(i) \subseteq gaps'
      BY <1>5 DEF LinkDrops, Shutdown
    <3>6. inbox[i] # <<>> /\ LinkDrops(i) => Missed(i) \subseteq gaps'
      BY DEF LinkDrops
    <3> QED
      BY <1>5, <3>1, <3>2, <3>3, <3>4, <3>5, <3>6, Basics DEF Missed
  <2>6. inbox[i] = <<>> => inbox' = inbox
    BY <2>1 DEF Types, NotesOK
  <2>7. Arriving => Arriving'
    BY <1>1, <2>1, <2>2, <2>5, <2>6, Basics DEF Arriving, EndsWell
  <2> QED
    BY <1>1, <1>3, <2>1, <2>4, <2>7 DEF OnItsWay, Broadcasting
<1> QED
  BY <1>4, <1>5

\* What Publish and DeliverLocally leave of it, but for what j carries.
LEMMA HandOver ==
  ASSUME Types, HandedOut, Fresh, Expected', NEW j \in jobs, Publish(j) \/ DeliverLocally(j)
  PROVE  /\ UNCHANGED <<truth, seen, loads, loadSeq, conn, at, backedOff, stage>>
         /\ newest <= j.v /\ j.v \in 0..truth
         /\ OnItsWay
         /\ (seen = truth \/ LoadBrings \/ \E k \in jobs \ {j} : k.st = "read" \/ (k.st = "publish" /\ k.v = truth)) => OnItsWay'
<1>1. UNCHANGED <<truth, seen, loads, loadSeq, conn, at, backedOff, stage>>
  BY DEF Publish, DeliverLocally, pageVars, socketVars, loadVars
<1>2. gaps \subseteq gaps' /\ "overtaken" \notin gaps'
  BY DEF Publish, DeliverLocally, Expected
<1>3. newest <= j.v /\ j.v \in 0..truth
  BY <1>2, Basics DEF Publish, DeliverLocally, Overtaken
<1>4. OnItsWay
  BY <1>1, <1>2, Expectation DEF Fresh, Awaits, Newest, WillReload
<1>5. jobs \ {j} \subseteq jobs'
  BY DEF Publish, DeliverLocally, Published
<1> QED
  BY <1>1, <1>3, <1>4, <1>5 DEF OnItsWay, LoadBrings, Newest, Broadcasting

LEMMA FreshPublish ==
  ASSUME Types, HandedOut, Connected, Fresh, Expected', NEW j \in jobs, Publish(j)
  PROVE  OnItsWay'
<1>1. /\ UNCHANGED <<truth, conn, at, backedOff, stage>> /\ newest <= j.v /\ j.v \in 0..truth /\ OnItsWay
      /\ inbox' = [k \in Instance |-> IF k \in linked THEN Append(inbox[k], Message(j)) ELSE inbox[k]]
  BY HandOver DEF Publish
<1>2. CASE j.v # truth
  <2>1. newest < truth
    BY <1>1, <1>2, Basics
  <2> QED
    BY <1>1, <1>2, <2>1, NotHandedOut, HandOver DEF OnItsWay, Broadcasting, Publish
<1>3. CASE j.v = truth
  <2>1. \A i \in linked : i \in Instance
    BY DEF Types, ServersOK
  <2>2. \A i \in linked : EndsWell(i)'
    <3>1. \A i \in linked : Len(inbox[i]) \in Nat /\ Shaped /\ j.v \in Nat /\ Message(j).v = truth
      BY <1>3, <2>1, Basics, TypesAre, Lengths DEF Types, Message
    <3>2. \A i \in linked : Len(inbox'[i]) # 0 /\ inbox'[i][Len(inbox'[i])].v = truth
      BY <1>1, <2>1, <3>1, Handed
    <3> QED
      BY <1>1, <3>2 DEF EndsWell
  <2>3. ~WillReload' /\ \A i \in Instance \ linked : Missed(i) \subseteq gaps'
    BY DEF Expected, Publish
  <2>4. CASE conn = "open"
    <3>1. at \in linked
      BY <1>1, <2>3, <2>4, Basics DEF Missed, Connected, WillReload, Expected
    <3> QED
      BY <1>1, <2>2, <2>4, <3>1 DEF OnItsWay, Arriving
  <2>5. CASE conn = "closed"
    <3>1. \A i \in Instance : i \in linked
      BY <1>1, <2>3, <2>5, Basics DEF Missed, WillReload, Expected
    <3> QED
      BY <1>1, <2>2, <2>5, <3>1 DEF OnItsWay, Arriving
  <2> QED
    BY <1>1, <2>3, <2>4, <2>5, Basics DEF WillReload
<1> QED
  BY <1>2, <1>3

LEMMA FreshLocal ==
  ASSUME Types, HandedOut, Connected, Fresh, Expected', NEW j \in jobs, DeliverLocally(j)
  PROVE  OnItsWay'
<1>1. /\ UNCHANGED <<truth, conn, at, backedOff, stage, inbox>> /\ newest <= j.v /\ j.v \in 0..truth /\ OnItsWay
      /\ buffer' = IF conn = "open" /\ at = j.by THEN j.v ELSE buffer
  BY HandOver DEF DeliverLocally, DeliverSeats, Coalesced
<1>2. CASE j.v # truth
  <2>1. newest < truth
    BY <1>1, <1>2, Basics
  <2> QED
    BY <1>1, <1>2, <2>1, NotHandedOut, HandOver DEF OnItsWay, Broadcasting, DeliverLocally
<1>3. CASE j.v = truth /\ j.st = "local"
  <2>1. Arriving => Arriving'
    BY <1>1, <1>3 DEF Arriving, EndsWell
  <2> QED
    BY <1>1, <1>3, <2>1, HandOver DEF OnItsWay, Broadcasting
<1>4. CASE j.v = truth /\ j.st # "local"
  <2>1. ~WillReload' /\ j.by \notin linked /\ j.by \in Instance
    BY <1>4, Basics DEF Expected, DeliverLocally, Ready
  <2>2. \A k \in Instance : k # j.by \/ conn # "open" => Missed(k) \subseteq gaps'
    BY <1>4 DEF DeliverLocally
  <2>3. conn = "open" /\ at = j.by
    BY <1>1, <2>1, <2>2, Basics DEF Missed, Expected, WillReload, Connected
  <2> QED
    BY <1>1, <1>4, <2>1, <2>3 DEF Connected, OnItsWay, Arriving
<1> QED
  BY <1>2, <1>3, <1>4

LEMMA FreshDeliver ==
  ASSUME Types, Fresh, Expected', NEW i \in Instance, Deliver(i)
  PROVE  OnItsWay'
<1>1. /\ UNCHANGED <<truth, seen, loads, loadSeq, conn, at, backedOff, stage, jobs>> /\ gaps \subseteq gaps'
      /\ inbox[i] # <<>> /\ inbox' = [inbox EXCEPT ![i] = Tail(@)]
  BY DEF Deliver, loadVars
<1>2. OnItsWay
  BY <1>1, Expectation DEF Fresh, Awaits, Newest, WillReload
<1>3. conn = "open" /\ at \in Instance
  <2>1. conn # "dead" /\ (conn = "closed" => ~backedOff)
    BY <1>1 DEF Expected, WillReload
  <2>2. "beforeFirstOpen" \notin gaps'
    BY DEF Expected
  <2> QED
    BY <2>1, <2>2, Basics DEF Deliver, Missed
<1>4. /\ \A k \in Instance \ {i} : inbox'[k] = inbox[k]
      /\ Len(inbox[i]) \in Nat \ {0} /\ Len(inbox'[i]) = Len(inbox[i]) - 1
      /\ \A k \in 1..Len(inbox[i]) - 1 : inbox'[i][k] = inbox[i][k + 1]
      /\ Head(inbox[i]) = inbox[i][1] /\ inbox'[i] \in Seq(Note)
  BY <1>1, TypesAre, Taken DEF Types
<1>5. buffer' = IF at = i THEN Head(inbox[i]).v ELSE buffer
  BY <1>3 DEF Deliver, DeliverSeats, Coalesced
<1>6. Arriving => Arriving'
  <2>1. CASE at # i
    BY <1>1, <1>3, <1>4, <1>5, <2>1 DEF Arriving, EndsWell
  <2>2. CASE at = i /\ Len(inbox[i]) = 1
    <3>1. inbox'[i] = <<>>
      BY <1>4, <2>2, EmptySeq
    <3> QED
      BY <1>1, <1>3, <1>4, <1>5, <2>2, <3>1 DEF Arriving, EndsWell
  <2>3. CASE at = i /\ Len(inbox[i]) # 1
    <3>1. \A n \in Nat : n # 0 /\ n # 1 => n - 1 \in 1..(n - 1) /\ (n - 1) + 1 = n /\ n - 1 # 0
      OBVIOUS
    <3>2. inbox'[i][Len(inbox'[i])] = inbox[i][Len(inbox[i])] /\ inbox'[i] # <<>>
      BY <1>4, <2>3, <3>1, EmptySeq
    <3> QED
      BY <1>1, <1>3, <2>3, <3>2 DEF Arriving, EndsWell
  <2> QED
    BY <2>1, <2>2, <2>3
<1> QED
  BY <1>1, <1>2, <1>6 DEF OnItsWay, LoadBrings, Newest, Broadcasting

\* A load that was just sent brings whatever is true when it is read.
LEMMA NewLoadBrings == ASSUME NewLoad PROVE LoadBrings'
<1> DEFINE new == [n |-> loadSeq + 1, v |-> NoNews, st |-> "sent"]
<1>1. new \in loads' /\ new.n = loadSeq' /\ new.st = "sent"
  BY DEF NewLoad
<1> HIDE DEF new
<1> QED
  BY <1>1 DEF LoadBrings, Newest

LEMMA FreshOpen ==
  ASSUME Types, Fresh, Expected', NEW i \in Instance, Open(i)
  PROVE  OnItsWay'
<1>1. CASE backedOff
  BY <1>1, NewLoadBrings DEF Open, Resync, OnItsWay
<1>2. CASE ~backedOff
  <2>1. /\ UNCHANGED <<truth, seen, loads, loadSeq, jobs, inbox, buffer, gaps>>
        /\ conn = "closed" /\ conn' = "open" /\ at' = i
    BY <1>2 DEF Open, Resync, serverVars, loadVars
  <2>2. OnItsWay
    BY <1>2, <2>1, Expectation DEF Fresh, Awaits, Newest, WillReload
  <2>3. Arriving => Arriving'
    BY <2>1 DEF Arriving, EndsWell
  <2> QED
    BY <2>1, <2>2, <2>3 DEF OnItsWay, LoadBrings, Newest, Broadcasting
<1> QED
  BY <1>1, <1>2

LEMMA FreshFlush == ASSUME Types, Loading, Fresh, Expected', Flush PROVE OnItsWay'
<1>1. UNCHANGED <<truth, loads, loadSeq, conn, at, backedOff, stage, jobs, inbox>> /\ buffer \in 0..truth
  BY Basics DEF Flush, serverVars, loadVars
<1>2. (LoadBrings => LoadBrings') /\ (Broadcasting => Broadcasting') /\ (Awaits' => Awaits)
  BY <1>1 DEF LoadBrings, Newest, Broadcasting, Awaits
<1>3. Arriving => Arriving' \/ buffer = truth
  BY <1>1 DEF Arriving, EndsWell
<1>4. CASE seen = NoNews
  <2>1. gaps \subseteq gaps' /\ \A l \in loads : l.st = "read" => ~(l.v < buffer)
    BY <1>4 DEF Flush, Expected
  <2>2. Expected /\ OnItsWay
    BY <1>1, <1>2, <2>1, Expectation DEF Fresh, WillReload
  <2>3. CASE buffer = truth
    <3>1. PICK l \in loads : Newest(l)
      BY <1>4, <2>2 DEF Loading, Awaits, Expected
    <3>2. l.st \in {"sent", "degraded"} \/ l.v = truth
      BY <2>1, <2>3, <3>1, Basics
    <3> QED
      BY <1>2, <3>1, <3>2 DEF OnItsWay, LoadBrings
  <2> QED
    BY <1>2, <1>3, <1>4, <2>2, <2>3, Basics DEF OnItsWay
<1>5. CASE seen # NoNews
  <2>1. seen' = buffer
    BY <1>5 DEF Flush
  <2>2. CASE buffer # truth
    <3>1. gaps \subseteq gaps' /\ ~(buffer < seen)
      BY <1>5, <2>2 DEF Flush, Repaired, Expected
    <3>2. OnItsWay /\ seen # truth
      BY <1>1, <1>2, <2>2, <3>1, Expectation, Basics DEF Fresh, WillReload
    <3> QED
      BY <1>2, <1>3, <2>2, <3>2 DEF OnItsWay
  <2> QED
    BY <1>1, <2>1, <2>2 DEF OnItsWay
<1> QED
  BY <1>4, <1>5

LEMMA FreshLoad ==
  ASSUME Types, Loading, Fresh, Expected', NEW l \in loads, ReadMap(l) \/ FinishLoad(l) \/ LoadFails(l)
  PROVE  OnItsWay'
<1>1. UNCHANGED <<truth, loadSeq, conn, at, backedOff, stage, jobs, inbox, buffer>>
  BY DEF ReadMap, FinishLoad, LoadFails, serverVars, socketVars
<1>2. (Arriving => Arriving') /\ (Broadcasting => Broadcasting') /\ (WillReload => WillReload')
  BY <1>1 DEF Arriving, EndsWell, Broadcasting, WillReload
<1>3. CASE ReadMap(l)
  <2>1. l \in Load /\ truth \in Nat
    BY Basics DEF Types, LoadsOK
  <2>2. PICK read \in loads' : IsRead(read, l) /\ loads' = (loads \ {l}) \cup {read}
    BY <1>3, <2>1, LoadOn
  <2>3. (Awaits' => Awaits) /\ (LoadBrings => LoadBrings')
    BY <1>1, <2>2 DEF Awaits, Newest, LoadBrings, IsRead
  <2>4. UNCHANGED <<seen, gaps>>
    BY <1>3 DEF ReadMap, history
  <2> QED
    BY <1>1, <1>2, <2>3, <2>4, Expectation DEF Fresh, OnItsWay
<1>4. CASE ~ReadMap(l) /\ ~Newest(l)
  <2>1. loads' = loads \ {l} /\ UNCHANGED <<seen, gaps>>
    BY <1>4 DEF FinishLoad, LoadFails
  <2>2. (Awaits' => Awaits) /\ (LoadBrings => LoadBrings')
    BY <1>1, <1>4, <2>1 DEF Awaits, Newest, LoadBrings
  <2> QED
    BY <1>1, <1>2, <2>1, <2>2, Expectation DEF Fresh, OnItsWay
<1>5. CASE ~ReadMap(l) /\ Newest(l)
  <2>1. ~Awaits' /\ gaps' = {}
    BY <1>1, <1>5 DEF FinishLoad, LoadFails, Loading, Awaits, Newest, Expected
  <2>2. FinishLoad(l) /\ seen' = l.v /\ l.v \in 0..truth
    BY <1>5, <2>1, Basics DEF FinishLoad, LoadFails
  <2>3. CASE l.v # truth
    <3>1. gaps \subseteq {"loadFailed"} /\ (seen = NoNews \/ ~(l.v < seen)) /\ l.st # "degraded"
      BY <1>5, <2>1, <2>2, <2>3 DEF FinishLoad
    <3>2. gaps = {} \/ gaps = {"loadFailed"}
      BY <3>1
    <3>3. OnItsWay
      BY <1>2, <1>5, <3>2 DEF Fresh, Expected, Awaits
    <3>4. seen # truth
      BY <2>2, <2>3, <3>1, Basics
    <3>5. ~LoadBrings
      BY <1>5, <2>2, <2>3, <3>1 DEF LoadBrings, Loading, Newest, FinishLoad
    <3> QED
      BY <1>2, <3>3, <3>4, <3>5 DEF OnItsWay
  <2> QED
    BY <1>1, <2>2, <2>3 DEF OnItsWay
<1> QED
  BY <1>3, <1>4, <1>5

LEMMA NextFresh ==
  ASSUME Types, HandedOut, Connected, Loading, Fresh, Next
  PROVE  Fresh'
<1> SUFFICES ASSUME Expected' PROVE OnItsWay'
  BY DEF Fresh
<1>1. ASSUME NEW i \in Instance, Change(i) PROVE OnItsWay'
  <2> DEFINE x == [change |-> truth + 1, by |-> i, v |-> NoNews, st |-> "read"]
  <2>1. x \in jobs' /\ x.st = "read"
    BY <1>1 DEF Change
  <2> HIDE DEF x
  <2> QED
    BY <2>1 DEF OnItsWay, Broadcasting
<1>2. ASSUME NEW j \in jobs, ReadStatus(j) PROVE OnItsWay'
  <2>1. PICK k \in jobs' : GoneOn(k, j, truth, "publish")
    BY <1>2, ReadOn DEF Expected
  <2>2. truth' = truth
    BY <1>2 DEF ReadStatus
  <2> QED
    BY <2>1, <2>2 DEF OnItsWay, Broadcasting, GoneOn
<1>3. CASE Silent \/ AttemptFails \/ Close \/ GoDead \/ NoticeDead
  BY <1>3 DEF Silent, AttemptFails, Close, GoDead, NoticeDead, Expected, WillReload
<1>4. CASE TryAgain
  BY <1>4, NewLoadBrings DEF TryAgain, OnItsWay
<1> QED
  BY <1>1, <1>2, <1>3, <1>4, FreshServers, FreshPublish, FreshLocal, FreshDeliver, FreshOpen,
     FreshFlush, FreshLoad DEF Next

-----------------------------------------------------------------------------
(* The invariant and the theorems.                                         *)

LEMMA StartsFresh == Init => IInv
<1> SUFFICES ASSUME Init PROVE IInv
  OBVIOUS
<1> DEFINE first == [n |-> 1, v |-> NoNews, st |-> "sent"]
<1>1. loads = {first} /\ first \in Load /\ first.n = 1 /\ first.st = "sent"
  BY DEF Init, Load, Versions
<1> HIDE DEF first
<1>2. /\ truth = 0 /\ newest = 0 /\ faults = 0 /\ jobs = {} /\ conn = "closed" /\ seen = NoNews /\ gaps = {}
      /\ buffer = NoNews /\ loadSeq = 1
      /\ \A i \in Instance : inbox[i] = <<>> /\ Len(inbox[i]) = 0
      /\ \A c \in 1..MaxChanges : told[c] = 0
  BY DEF Init
<1>3. JobsOK /\ HandedOut
  BY <1>2, Bounds DEF JobsOK, HandedOut
<1>4. NotesOK
  BY <1>2 DEF NotesOK, Init
<1>5. LoadsOK
  BY <1>1, <1>2 DEF LoadsOK
<1>6. ServersOK /\ SocketOK /\ HistoryOK
  <2>1. ServersOK
    BY <1>2, Bounds DEF Init, ServersOK
  <2>2. SocketOK
    BY FeedAssumption DEF Init, SocketOK
  <2>3. HistoryOK
    BY Bounds DEF Init, HistoryOK
  <2> QED
    BY <2>1, <2>2, <2>3
<1>7. ShownOK
  BY <1>2, Bounds DEF ShownOK
<1>8. Connected /\ Loading
  BY <1>1, <1>2 DEF Connected, Loading, Awaits, Newest
<1>9. Counted
  BY <1>2 DEF Counted, OnceOnly, Awaited, InboxHas
<1>10. Fresh
  BY <1>1, <1>2 DEF Fresh, OnItsWay, LoadBrings, Newest
<1>11. TypeOK /\ Shaped
  BY <1>3, <1>4, <1>5, <1>6, <1>7, TypesAre DEF Types
<1> QED
  BY <1>3, <1>8, <1>9, <1>10, <1>11 DEF IInv

LEMMA StaysFresh == IInv /\ [Next]_vars => IInv'
<1> SUFFICES ASSUME IInv, [Next]_vars PROVE IInv'
  OBVIOUS
<1>1. Types
  BY TypesAre DEF IInv
<1>2. CASE Next
  <2>1. Types'
    BY <1>1, <1>2, NextTypes
  <2>2. TypeOK' /\ Shaped'
    BY <2>1, TypesAre, PTL
  <2>3. HandedOut' /\ Connected' /\ Loading' /\ Counted' /\ Fresh'
    BY <1>1, <1>2, NextHandedOut, NextConnected, NextLoading, NextCounted, NextFresh DEF IInv
  <2> QED
    BY <2>2, <2>3 DEF IInv
<1>3. CASE UNCHANGED vars
  BY <1>3 DEF vars, serverVars, pageVars, socketVars, loadVars, history, IInv, TypeOK, Shaped,
     HandedOut, Connected, Loading, Awaits, Newest, Counted, OnceOnly, Awaited, InboxHas,
     Fresh, Expected, WillReload, OnItsWay, LoadBrings, Broadcasting, Arriving, EndsWell
<1> QED
  BY <1>2, <1>3

LEMMA FeedInvariance == Spec => []IInv
<1>1. IInv /\ [Next]_vars => IInv'
  BY StaysFresh
<1> QED
  BY <1>1, StartsFresh, PTL DEF Spec

\* Broadcasts, messages, sockets, loads and the map are always what hub.js,
\* seatChannel.js, useSeatEvents.js and the page's load keep.
THEOREM FeedTypeCorrect == Spec => []TypeOK
<1>1. IInv => TypeOK
  BY DEF IInv
<1> QED
  BY <1>1, FeedInvariance, PTL

\* Whatever the instances, faults and loads: a page with nothing on its way
\* to it shows what the server stores, unless news went missing for one of
\* the reasons the model names.  Until then the newest status is in the
\* newest load, in a broadcast, at the end of the inbox of the socket's
\* instance, or in the buffer.
THEOREM NothingElseIsMissed == Spec => []FreshUnlessMissed
<1>1. IInv => FreshUnlessMissed
  <2> SUFFICES ASSUME IInv, Quiet PROVE seen = truth \/ gaps # {}
    BY DEF FreshUnlessMissed
  <2>1. Types
    BY TypesAre DEF IInv
  <2>2. ~WillReload /\ ~LoadBrings /\ ~Broadcasting
    BY DEF Quiet, WillReload, LoadBrings, Broadcasting
  <2>3. ~Arriving
    BY <2>1, Basics DEF Quiet, Arriving, EndsWell
  <2> QED
    BY <2>2, <2>3 DEF IInv, Fresh, Expected, OnItsWay
<1> QED
  BY <1>1, FeedInvariance, PTL

\* A socket is never told the same change twice, unless the change was
\* published by a call whose reply was lost: a change is in one broadcast,
\* then once in each inbox, then told.
THEOREM NothingIsToldTwice == Spec => []ToldOnce
<1>1. IInv => ToldOnce
  BY DEF IInv, ToldOnce, Counted, OnceOnly
<1> QED
  BY <1>1, FeedInvariance, PTL

=============================================================================
