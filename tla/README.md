# Verification of show-rush

TLA+ models of show-rush, a seat-booking service (Node/Express over Postgres
and Redis, with a React seat map), checked with TLC on small instances; every
safety property of a passing run is also proved with TLAPS, for every instance.
Paths below are relative to the repository.

## 1. The system

Several server instances (`server/src/index.js`) share one Postgres and one
Redis. Every request is an async handler; between two `await`s any other
request, on the same or on another instance, can act. There is no in-process
lock: what orders concurrent requests is Postgres (row locks, unique indexes,
READ COMMITTED) and Redis (each command or Lua script is atomic).

| Component | State | Operations | What makes it correct | Model |
|---|---|---|---|---|
| Booking creation `services/bookingService.js` | `bookings`, `booking_seats` with UNIQUE (show_id, seat_id) | read availability; insert the booking and its seats in ascending order; commit, or 409 on the constraint; the naive path does the same without a transaction | no seat sold twice; all seats or none; no deadlock | `BookingCore`, `GroupBooking` |
| Payment `services/paymentService.js` | `payment_events` with UNIQUE event_id, `bookings.status` | pre-read the event, charge outside any transaction, lock the row, insert the event, pay / conflict / take the seats back / owe a refund | money and status agree; an event counts once; a late payment gets all seats or none | `BookingCore` |
| Cancellation `cancelBooking`, `cancellationPolicy.js` | the same, `released_booking_seats` | lock the row, check policy, archive, delete, set status | a cancelled booking blocks no seat; paid becomes a refund owed | `BookingCore` |
| Reconciliation `services/reconcileService.js`, `reconcile.js` | the same | candidates past the TTL, SKIP LOCKED, archive, delete, cancel | never takes the seats of a paid booking; every overdue booking is reached; a booking outlasts the holds of its time | `BookingCore`, `BookingLifetime` |
| Seat holds `services/holdService.js`, hold routes of `routes/shows.js` | `hold:<show>:<seat>` with a TTL, `holdowner:<show>:<user>` | acquire all or roll back, release, forget, release the unbooked remainder | a hold is taken from nobody; all or nothing; competing requests do not all lose | `SeatHolds` |
| Availability `services/availabilityService.js` | none | booked from Postgres merged with held from Redis | advisory: every caller must survive its answer being stale | in both, as what it reads |
| Waiting room `services/waitingRoomService.js` | start, sequence and ticket keys | join, status, the gate of the holds | places are distinct, and kept by later retries; no more are let in than are due; an estimate is enough, but for a rounding error at its very end | `WaitingRoom` |
| Hold rate limit `middleware/rateLimit.js` | counter with a TTL | count, refuse | bounded in every stretch of time; never locks a user out for ever; says truly how long to wait | `HoldRateLimit` |
| Group rule `services/groupBookingRules.js` | none (pure) | stranded seats of a selection | no booking strands a seat, unless it was overtaken | `GroupBookingRules`, `GroupBooking` |
| Realtime `realtime/hub.js`, `seatChannel.js` | rooms, sockets, subscriptions | read the status, publish, deliver, fall back to the local sockets, shut down | nobody told twice; news goes missing only for known reasons | `SeatFeed` |
| Live map `seatmap/useSeatEvents.js`, `seatIndex.js` | socket, buffer, loaded map | open, back off, coalesce, apply, reload | the map catches up with the server | `SeatFeed`, `SeatMapPage` |
| Page `SeatMapPage.jsx`, `useSeatSelection.js`, `useSeatHolds.js` | selection, pending clicks, holds, countdown, booking, payment event | clicks, calls in flight, answers in any order, refresh, login, checkout, payment retries | what is shown as selected is held; nothing pends for ever; a booking is decided by one payment event | `SeatMapPage` |
| Canvas `SeatCanvas.jsx`, `geometry.js`, `viewport.js` | view, frame, pointers, cursor | repaint, resize, reload, pan, zoom, keys, remount | the picture follows; the plan cannot be lost; a drag selects nothing | `SeatCanvas` |
| Quadtree `quadtree.js` | the tree | insert, query by point and by rectangle | exact on every boundary | `Quadtree` |
| Best seats `recommend.js` | none (pure) | the best seats together | agrees with its definition | `BestSeats` |
| Auth, catalog, metrics, configuration, migrations, seed, other pages | - | - | - | not modelled (section 7) |

Interactions. A hold is only a courtesy: the booking path consults it through
the availability read, and Postgres decides. After a commit the booking path
gives back, without waiting, the holds it did not book; after a payment the
holds of the booking are released. Every change ends in a broadcast that reads
the status again and publishes it through Redis to all instances. The sweep
meets a late payment only in the tables: `released_booking_seats` is what the
one leaves for the other.

Hard behaviours, and where they are modelled: check-then-insert races of two
creations; a payment at the provider while its booking is cancelled or expires;
two deliveries of one payment event; overlapping sweeps; servers lost inside a
transaction; lock and index waits (`BookingCore`). Holds that expire or change
hands between two commands; a rollback against another request of the same
user; commands that fail with or without having taken effect (`SeatHolds`).
Broadcasts, deliveries, sockets and loads of the map that overtake one another,
instances that lose Redis or shut down, reads that leave the holds out, changes
nobody announces (`SeatFeed`). Calls of one page in flight together, their
answers in any order, lost, or after the page was left, a refresh or a login in
between, releases seat by seat (`SeatMapPage`). Joins of one token that overlap,
tickets that expire, clocks that disagree, floating-point products beside the
whole number they are (`WaitingRoom`). `PROJECT.json` lists every hazard at its line,
with the property that covers it or the reason none does.

## 2. The modules

| Module | What it is |
|---|---|
| `SeatLedger` | What the booking service promises, one step per request |
| `BookingCore` | The transactions that keep the promise, statement by statement where they can interleave; properties, inductive invariant, refinement |
| `BookingCoreMC` | Symmetry for TLC |
| `BookingCoreProofs` | Type correctness, the safety invariants, freedom from deadlock; `BookingCore` implements `SeatLedger` |
| `SeatHolds` | Holds, rollbacks, releases, TTLs, failures; properties and inductive invariant |
| `SeatHoldsAge` | `SeatHolds` with how long a hold has been left behind |
| `SeatHoldsMC` | Symmetry for TLC |
| `SeatHoldsProofs` | All safety properties of `SeatHolds` |
| `GroupBookingRules`, `GroupBooking` | The rule against stranded seats, and bookings under it: safe or naive, with or without the unique constraint |
| `WaitingRoom` | Queue, tickets and gate, Redis command by Redis command |
| `HoldRateLimit` | The hold limiter |
| `BookingLifetime` | A seat's hold and its pending booking on one clock |
| `ServerEdgesProofs` | All safety properties of `WaitingRoom`, `HoldRateLimit`, `GroupBooking` and `BookingLifetime` |
| `SeatFeed` | From a change of a seat to the map on a page |
| `SeatFeedProofs` | All safety properties of `SeatFeed` |
| `SeatMapPage`, `SeatMapPageMC` | The page and what it waits for; symmetry and constraint for TLC |
| `SeatMapPageProofs` | All properties of `SeatMapPage` |
| `SeatCanvas` | The canvas: one animation frame at a time against pointers and keys |
| `SeatCanvasProofs` | All properties of `SeatCanvas` |
| `Quadtree`, `BestSeats` | The two algorithms, one call or one turn of a loop at a time, with their reference definitions |
| `SeatSearchProofs` | All properties of `Quadtree` and `BestSeats`; what is proved of a part holds of `EdgesMC` |
| `EdgesMC` | `WaitingRoom`, `HoldRateLimit`, `GroupBooking`, `BookingLifetime`, `SeatCanvas`, `Quadtree` and `BestSeats`, which share no state, checked side by side |
| `Highest` | A finite non-empty set of numbers has a highest and a lowest member |

### BookingCore

| Variable | In the code |
|---|---|
| `status` | `bookings.status`; "none" while the row is not committed |
| `wants` | the `seat_ids` of the request, and so what the archive should give back |
| `seatRows`, `payments` | `booking_seats`, `payment_events`, committed rows |
| `archive` | `released_booking_seats`, one batch per release, with its reason |
| `overdue` | older than `PENDING_BOOKING_TTL_SECONDS` |
| `windowOpen` | the cancellation window of the show |
| `req[w]` | one request or sweep: where it is, the rows it has inserted and not committed, what it decided to charge, the candidates a sweep has left |

One action is what a transaction does between two points where somebody else
can be seen or waited for. So a creation is `CreateBooking` (the read outside
the transaction), one `ClaimSeat` per row of the INSERT (each can wait on the
unique index), and `CommitBooking` or `RefuseBooking`; a payment is
`ConfirmPayment`, `Charge`, `LockBooking` (`FOR UPDATE`), the event insert with
the outcome the status asks for, and for a cancelled booking `BeginReclaim`,
again `ClaimSeat` per seat under the savepoint, and `ReclaimPaid`, or
`LoseReclaim` (the refused insert and the rollback to the savepoint) and, as
statements of their own, `OweRefund` (`refund_pending` and the commit). Between
the two the seat that refused it may become free. Cancelling and expiring a booking take the lock, archive, delete
and commit in one step: nothing in them waits after the lock. Postgres is
modelled by what it gives the code: a row lock has one holder
(`RowFree`), an uncommitted index entry makes a second insert wait
(`SeatInFlight`, `EventInFlight`), a committed one refuses it (`SeatTaken`,
`EventStored`), and a lost connection rolls back (`Crash`). Prices, names,
references, validation and response texts are left out. A seat list is a set:
`seatIdList` refuses duplicates.

`SeatLedger` says the same with one step per request: `Sell`, `Settle`,
`SettleLate`, `Miss`, `OweRefund`, `Forget`, `Release`, `HandBack`. The
refinement maps `owned` to the committed rows, `settled` to the successful
payments on record and `missed` to the bookings whose payment has lost its
reclaim. A late payment is honoured only when all seats are free *at its
commit* (`SettleLate`), although the code inserts them one at a time. When one
of them is sold it is missed (`Miss`), and what is decided then stands: the refund is
owed in a later step (`OweRefund`), also when the seats have become free in
between, unless the server is lost first (`Forget`).

### SeatHolds

`hold` and `left` are a seat's key and its TTL in ticks; `hint` is the owner
set; `req[w]` is a request with the seats it still has to take or release and
those it created (`acquired` in the code). Two history variables exist for the
properties: `told`, the holds an answer has reported to their owner and that
were not asked back, and `leftBehind`, those a failed step abandoned. Each Lua
script is one action: `TakeSeat` / `MeetConflict` (ACQUIRE_SCRIPT), `UndoSeat`
and `ReleaseSeat` (RELEASE_SCRIPT), `FreeTogether` (RELEASE_MANY_SCRIPT).
`GrantHold` and `Forget` write the hint and may fail to, as the code swallows
the error. `BeginRelease` is the DELETE route and the release after a payment;
`Book` stands for a booking that has committed, whose seats are arbitrary here
because the availability read degrades to "no holds" when Redis does not
answer. `LoseReply`, `UndoFails` and `Abort` are the failures. The hint's own
TTL is not counted: it may vanish at any time, which allows more than the code.
Sold seats play no part (`acquireHolds` does not look at Postgres).

### GroupBooking

One row of a screen. `Check` is the availability read with the rule on what it
saw; `BookSafely` the whole transaction, `BookNaively` and `SeatNaively` the two
statements of the naive path, between which a server may stop (`Crash`). The
configuration is chosen at the start: mode, migration 002, rule. `late` records
that the seating changed between a request's check and its insertion. Redis is
down here: no hold keeps the requests apart.

### WaitingRoom, HoldRateLimit

A request to the waiting room is a record that goes through the Redis commands
of its handler one at a time: `Open` (SET NX, GET), `FindTicket` / `MissTicket`
(GET), `Count` (INCR), `Store` (SET with an expiry), `Answer`. Each reads a
clock of its own server, up to `MaxSkew` ahead. A tick is a millisecond, and the
code's quotients are floating point: where one is a whole number it may come out
beside it (`FallsShort`, `RoundsUp`: the times and positions at which it does are
constants, any set of them). 123 seconds at 60 a minute, for one, count as 122
admissions. `brought` says that a request brought its token; `had`, a history
field, is the ticket that token had when the join arrived. `passed` are those let
through to the holds. The limiter counts in quarter seconds, because what Redis answers to
TTL is rounded to seconds; its one script is one action, and `LoseReply` is the
script whose reply is lost, after which the code lets the request through.

### BookingLifetime

One seat: `holder` and `runsOut` are its key in Redis, `booking` its row in
Postgres with `created_at` and whether a sweep has chosen it. `SeatHolds` and
`BookingCore` let expiry come when it pleases, which is safe for what they
show; here both lifetimes are counted on one clock. `TakeHold` is the acquire
script, which knows no bookings; `Choose` is the query of candidates and
`Expire` the transaction after it, between which a payment or the owner can
come first. `takenAt` is a history variable.

### SeatFeed

A seat's status is the number of changes it has been through; 0 is free. A
change is announced (`Change`) or not (`Silent`: a hold runs out in Redis or is
rolled back, or the sweep runs from the command line, where nothing broadcasts).
A read, of a seat for a broadcast or of the map for a page, may be made without
Redis: `mergeHolds` then shows the seat as it was before it was held and reports
no error (`Degraded`). A broadcast is a job: `ReadStatus`, then `Publish` or `DeliverLocally`. `inbox[i]` is what the
subscriber of an instance has not delivered, `conn` and `at` the browser's
socket, `buffer` the updates waiting for a frame, `seen` the map, `loads` the
fetches of it. `gaps` is a history variable: each action adds the reason for
which the page will not hear what it does, or will hear it wrong, and whatever
brings the stored status empties it. A connection attempt may fail as often as it
likes (`AttemptFails`); everything else that fails counts towards `MaxFaults`. `told` counts what one socket is told.

### SeatMapPage

One visitor in one tab. Each call to the server is a record in `reqs`: served and
answered in separate steps, in any order. A hold call is served seat by seat
(`TakeSeat`), and when a seat is refused what it has newly taken is rolled back
(`RefuseHold`, `UndoSeat`), comparing the user only, as `holdService.js` does: a
newer click's hold can go with it. A booking leaves behind a call of its own,
the `remainder`, which after the commit gives back every other hold of the
visitor it finds (`ServeRemainder`). The server is otherwise reduced to who holds
and who bought each seat; others hold, buy and give back. Holds and the countdown
run out when they please. One delay of React's is kept: `heldRef`, what was held
at the last render, beside `heldIds`. `Suggest` drops what is selected with one
`release` per seat (`LetsGo`), each computed from that same `heldRef`, so the
last one decides what is listed, and any of them may have stopped the countdown.

The page is left in two ways (`Unmounts`). A refresh forgets the calls in flight
(`Forgotten`). On the way to the login page they go on (`StillAwaited`): their
answers still rewrite the list in `sessionStorage`, and a 401 among them still
ends the session (`LeftAnswer`). What is handed over to the login page is the
selection at the moment Pay or Proceed was pressed (`LoggedOut`), not at the
moment of the answer. `parted`, a history variable, collects the seats for which
the page cannot know better, for the reasons named at `SelectionIsHeld`. A seat
leaves it when a hold of it is granted, unless the seat was clicked again since
that hold was asked for: such a grant says nothing about what the visitor wants
now.

### SeatCanvas, Quadtree, BestSeats

`SeatCanvas` has one axis, since the other obeys the same formulas. `raf` is the
frame asked for, `stale` that the screen is behind, `press` the page's idea of
a gesture and `down` what the fingers really do.

`Quadtree` builds a tree of cells put in any order. A node goes by the path to
it. The code's `insert` calls itself for a child and, when a node splits, for
each cell the node gives down; here every call that has begun is in `calls`, and
one step does what one call does: `GoDown` to the child that contains the cell,
`Push` it where it is, or `Split`. A query is an operator on a finished tree:
it sees the nodes all of whose way it enters. `BestSeats` runs the search loop
by loop: `EnterRow` or `SkipRow`, `ScanSeat` (the next seat goes on with a run or
begins one), `TryWindow` (the next window of the nearest run), `EndRun`,
`EndRow`. Neither module uses recursion, which is what allows both to be proved
about.

## 3. What is checked

| Run | Properties | Shows |
|---|---|---|
| `booking_core_safety` | `TypeOK` `SeatSoldOnce` `SeatsFollowStatus` `MoneyFollowsStatus` `EventRecordedOnce` `CancelledIsReclaimable` `NoWaitCycle` `ImplementsLedger` | no interleaving sells a seat twice, splits a booking, loses or doubles a payment, leaves an archive a late payment cannot use, or deadlocks; every commit, and every late payment that finds a seat sold, is a step of `SeatLedger` |
| `booking_core_liveness` | `OverdueIsSettled` `EveryRequestEnds` | a booking nobody pays for gives its seats back; requests and sweeps end |
| `seat_holds_safety` | `TypeOK` `NoRefusalCycle` `NothingLeftBehind` `HoldsKeepToOwner` | a hold ends only by expiry or by its own user's request; requests competing for seats do not all refuse each other; a refusal gives everything back, and only a failure can strand a hold |
| `seat_map_page_safety` | `TypeOK` `PendingIsAwaited` `CountdownGoesWithHolds` `BookingDecidedOnce` `SelectionIsHeld` | answers in any order, lost calls, refreshes, logins and other buyers leave no seat pending for ever, no countdown that runs for nothing or stops with a selected seat on the list, one payment decision per booking, and a settled selection that is held, but for the exceptions named there |
| `seat_feed` | `TypeOK` `FreshUnlessMissed` `ToldOnce` `CatchesUp` | a page at rest shows the stored status unless news went missing for one of twelve named reasons; nobody is told twice, but for a lost reply; a page that lost its socket catches up, though further attempts, a load or an instance fail |
| `edges_safety` | `EdgesTypeOK`; `AdmitsNoMore` `PlacesDistinct` `EtaIsEnough` `LaterRetryKeepsPlace`; `TwiceTheLimit` `WaitingIsEnough`; `NoHalfBooking` `StrandsOnlyWhenOvertaken`; `HoldsOfItsTimeAreOver`; `PictureFollows` `PlanReachable` `DragSelectsNothing` `CursorInView`; `HitTestIsExact` `CullingIsExact`; `BestTogether` | waiting room; limiter; bookings under the group rule; hold and booking on one clock; canvas; quadtree; suggestion, each on an instance of its own |
| `nobody_accused`, `owner_cancellation`, `replay_charges`, `retry_place`, `rollback_spares`, `left_behind_runs_out` | one each | disagreements between the code and its own text (section 6) |

Each property has a mutant in `PROJECT.json`: a plausible bug in one mapped
definition (a lock not taken, seats inserted unsorted, the archive written after
the delete, a DEL without the comparison, a swapped result code) that makes TLC
find the property violated under the same configuration.

**Bounds.** `BookingCore` safety: two workers, two bookings of up to two seats
out of two, two payment events, sweep batches of one (1.2 million states).
Two is what the hazards need: each of them is a conflict between two
transactions over one seat, one row or one event, deadlock needs two seats in
opposite orders, a partial refusal needs the second of two seats, and a batch
smaller than the number of bookings makes the sweep come back. Bookings reach
every status, including paid again after an expiry and refund after a lost
reclaim. What three parties could add is left to the proofs, which bound
nothing. Liveness uses one seat and one event, because strong fairness makes
the graph expensive; in that instance no payment meets a booking already paid
by another event, a case the safety run covers. `SeatHolds`: two users, two
seats, two requests, a TTL of two ticks, so that one hold can expire while
another stays and a refresh prolongs one (1.2 million states); failures are not
bounded. Workers, events and users are interchangeable and symmetric in the
safety runs; seats and bookings are ordered and are not.

In these the ids of an instance are used up and requests about finished
bookings stay possible, so that no state is final, no counter needs a cap and
deadlock checking stays on. The runs below bound counters, and there a
behaviour may end when the bounds are used up: deadlock checking is off.

`SeatMapPage`: four seats, a selection of up to two, up to four calls and one act
of somebody else, expiry, loss or refresh (1.8 million states). Two of the seats
are `Followed`: they tell a call about one from a call about all, and two are
what `Suggest` needs to drop one after the other. The other two are sold from
the start, or untouched and there to be suggested instead, then with nothing
booked and nothing upset (`Seats`). Three calls are two clicks that cross and a
third that overtakes both, or hold, booking and payment. The constraint `Calls`
follows the third call after an upset, and the fourth without one, only where
they add something: in the life of one seat (the second press of Pay is such a
fourth call), with seats handed over or restored, while a booking is not known
of, and where both seats were let go for others. Two upsets at once are not
covered. `nobody_accused` needs one seat and two calls.

`SeatFeed`: two instances, two changes, one fault, three loads (1.6 million
states): two changes can overtake each other on every way, one instance can
publish while the other is cut off or shutting down, and three loads are the
first, a reconnect's and one more. The fault is left for what happens after a
socket is down, since an attempt that fails costs none. Instances are not
symmetric for TLC, as the run has a liveness property.

`EdgesMC` (1.1 million states): every behaviour moves one part, the others stay
at their beginning, so that the parts' state spaces add up and do not multiply.
Waiting room: two tokens, two requests, three numbers, two ticks to a second and
time for one, tickets that live as long, clocks up to one tick ahead, four
admissions in twelve ticks and one at once. Two joins of one token overlap, a
ticket expires between two commands of one, the divisions have remainders, and
six ticks, which admit two, admit one (`FallsShort`): that is what the estimate
meets at its very end. The position at which the estimate comes out a second
long (`RoundsUp`) is beyond the run's numbers and left to the theorem.
`retry_place` runs the waiting room alone. Limiter: two
requests per two seconds, fourteen quarter seconds: three windows meet. Hold
and booking: holds of two seconds, bookings of four, twelve seconds, so that a
booking, its expiry and another booking follow one another and a hold can be
renewed in any second; two customers, since somebody else may hold the seat.
Bookings: three requests, a row of three, up to two seats: the middle seat can
be stranded and a third request can overtake the second. Canvas: a row of two
seats with an aisle, one width wider and narrower than the plan at the two
zooms, two points further apart than the drag threshold, two fingers, one
reload. Quadtree: every subset and order of eight cells in a world of 16 by 16,
nodes of one cell, two levels: some cells straddle the middle of the world, some
that of a quadrant, and two end in one node of the deepest level, which may
overflow. Suggestion: three rows of different length, one with a gap, every set
of free seats, one to three seats asked for.

**Fairness** (`FairSpec`). `SF(StartSweep)`: the interval timer of
`server/src/index.js` keeps starting sweeps on some instance, also when a
candidate is only there intermittently. `SF(Continue(w))`: a handler's promise
continues once what it awaits is granted, and Postgres queues waiters in order,
so one that could be granted again and again is granted. `SF(ExpireBooking(w))`:
SKIP LOCKED lets a sweep pass a row that is locked just then; it is assumed not
to find it locked every single time. `<>[][no Crash]`: servers do not fail for
ever. Nothing is assumed about clients: no request need ever be made.
`SeatFeed` (`Fairness`) is weak throughout, and only what `CatchesUp` needs: a
load once begun is answered, by the map or an error; an instance that shuts down
exits and the next process starts; the browser's retry timer opens a socket; TCP
notices a dead peer. Broadcasts, deliveries and the Redis clients are not
assumed to make progress. No change, deployment or press of "Try again" need ever
come.
For `FairSpec` the strong forms are needed: a payment that fails and is retried takes and
leaves the row lock for ever, and weak fairness would let the sweep lose to it.

## 4. What is proved

The following holds for every value of the constants satisfying the named
assumptions (those of the other modules follow at their theorems): ids are
naturals, 0 is no booking, `NoEvent` and `NoUser` are nobody's
(`BookingsAssumption`, `SeatsAssumption`, `EventsAssumption`, `UsersAssumption`,
`HoldSeatsAssumption`), limits and the TTL are positive (`BoundsAssumption`,
`TtlAssumption`), and a show's seats, the bookings and the requests in flight
are finitely many (`FiniteAssumption`).

`BookingCoreProofs`: `TypeCorrect`, `NoDoubleSale`, `SeatsWhole`,
`MoneyAccounted`, `EventsUnique`, `AlwaysReclaimable`. None of the invariants is
inductive alone: that `SeatSoldOnce` survives a commit depends on what the
committing transaction claimed, and that depends on what the others have in
flight. `IInv` adds three facts. *Each of a booking row's lock, a seat's index
entry and an event id's index entry belongs to one transaction* (`PairOK`).
*What a transaction read under its lock is still true*: one taking seats back
still has a cancelled booking and an event nobody stored, and its claims are
free and precede what it has still to claim (`RequestOK`). *A booking still
pending has released nothing* (`NothingReleased`), which is why an archive
never lists a seat twice. The proof has a lemma per action, and lemmas for what
actions share: a step that touches no table (`QuietStep`), one that commits
(`CommitStep`), one that releases (`ReleaseStep`).

Also there: `DeadlockFree`. In a circle of waits everybody who waits for a row
lock waits for a payment, and a payment waits for one inserting seats, so the
circle contains inserters only; the one whose next seat is the highest waits
for a seat below those its blocker has still to insert, and the blocker's next
seat is higher still.

The refinement is there too, `Implementation`. Commits map to ledger steps, and
so does the statement in which a reclaim loses; the rest stutters. The reclaim
needs `CancelledIsReclaimable` (the claimed seats are all that was asked), the
loss that the refused seat is owned by another booking then, and the refund that
the booking is still cancelled and nobody else has lost a reclaim of it: the row
lock is held from one to the other.

`SeatHoldsProofs`: `HoldTypeCorrect` (with: no hold without a TTL),
`AllOrNothing`, `HoldsAreKept` (an action property), `SomebodyIsNotRefused`.
The invariant says that what a request has taken lies below what it has still
to take and that only a request taking, undoing or releasing has seats in hand.

`ServerEdgesProofs`, waiting room (`RoomAssumption`: positive rate, minute and
lifetime; the absent token and start are nothing else): `RoomIsNotOverrun`,
`OnePlaceEach`, `EstimateIsEnough`, `LaterRetriesKeepTheirPlace`, `RoomTypeCorrect`.
What makes it inductive: a ticket's number was issued to its token
(`Numbered`), so two tokens cannot share one; a number waiting to be stored is
nobody's ticket and no other join came with it (`Fresh`); a join takes a number
only when the ticket it came with is gone (`Lost`). Whoever passed has a number
among those admitted by the latest clock (`LetIn`), and those are at most as
many. A join that came with a ticket never comes to store a number over it.
What overlapping joins do to each other's is not excluded, but shown by
`retry_place` (section 6). The estimate is arithmetic: rounded up it is never
below the time that admissions, rounded down, need. A product that falls short of
the whole number it is costs one admission and only at that instant, so whoever
has waited longer is admitted; the theorem holds for every set of such times.

Hold and booking on one clock (`LifetimeAssumption`: a hold lasts some time, and
a booking longer, which is what the check at start makes sure of):
`CheckAtStartSuffices`, `LifetimeTypeCorrect`. A live hold is younger than
`HoldTtl`, because a renewal sets the expiry and does not add to it (`HoldRuns`);
a candidate is older than `PendingTtl`, also after the time between query and
lock (`BookingAge`).

Limiter (`LimitAssumption`: limit and window positive):
`WorstCase`, `WaitingPays` (of `NobodyLockedOut` and `RetryAfterIsClose`),
`LimiterTypeCorrect`. The
invariant says that between a pass and the one `Limit` places later a window
began (`Separated`); two windows begin a window apart, so `2 * Limit` passes
later a window's length has gone by.

Group rule (`GroupAssumption`: seat numbers are integers): `GroupTypeCorrect`,
`BookingsAreWhole`, `RuleHoldsUnlessOvertaken`. What a request saw holds until it
inserts unless it is late (`Seen`). The rule's seats-and-neighbours definition
is reduced to which numbers are occupied (`OrphansAre`), so that inserting a
booking and judging it beforehand come to the same set.

`SeatFeedProofs` (`FeedAssumption`: finitely many instances, at least one; a
page loads its map at least once): `FeedTypeCorrect`, `NothingElseIsMissed`,
`NothingIsToldTwice`. `FreshUnlessMissed` speaks of a page at rest, so what is
inductive is where the newest status can be before that (`Fresh`): in the
newest load, in a broadcast that has still to read or publish it, at the *end* of the
inbox of the socket's instance or alone in the buffer, or, before the first
open, at the end of every inbox; or else one of the twelve reasons is on record. The end matters: a message behind it may carry
an older status and would win. That nothing handed out is newer than the
newest status read (`HandedOut`) is what lets a later broadcast overtake
safely. For `ToldOnce` a change is followed through the places it can be in: in
its broadcast, then at most once in each inbox, then told (`OnceOnly`), except
where the reply to a publish was lost (`doubled`).

`SeatCanvasProofs` (`CanvasAssumption`: lengths are naturals, zooms and widths
positive, the zooms finitely many; a plan has a row, and a row a cell):
`CanvasTypeCorrect`, `NoPictureIsLost`, `PlanIsNeverLost`, `DragsNeverSelect`,
`CursorStaysInView`.
The invariant: a repaint owed has its frame asked for, and the frame remembered
is pending in the browser (`Framed`); of all fingers down at most one is alone,
and the press is that finger's or a drag already (`Fingers`). Clamping is
proved to keep the plan on the screen whatever it is given. `CursorInView` needs
one hypothesis, `RoomForASeat`: at every zoom a seat and the reveal margin before
it fit in the width. It is a fact about the constants (true in the run); on a
narrower screen the margin itself pushes the far edge of the seat off.

`SeatMapPageProofs` (`PageAssumption`: finitely many seats; limit and bounds are
naturals): `PageTypeCorrect`, `EveryPendingSeatIsSettled`,
`CountdownFollowsHolds`, `PaymentIsDecidedOnce`, `SettledSelectionIsHeld`. The
bounds on calls and upsets are arbitrary here, and so cover what the run leaves
out (two upsets at once, any number of calls and of seats). `SelectionIsHeld` is about a page
at rest and says nothing while a call is in flight; what is inductive is
`Backed`: every selected seat is held, excused, or has a hold still asking for
it, that of its newest click or the one after a login. It needs

- `Numbered`: calls have numbers of their own, in order, and a seat's newest click
  is at least as new as every hold of it; so the answer that `useSeatSelection`
  drops as overtaken is never the last one;
- `Asked`: a seat whose newest click asks for it and waits is selected, so that a
  refusal, which toggles, takes it out and does not put it in;
- `LetGo`: a seat whose newest click gives it back is not selected, so that its
  release takes nothing from the selection;
- `ConfirmedIsHeld`: seats the page believes held and never clicked are held;
- `Mounted`: before the page has asked for the last visit's holds it has made no
  other call, so that a refresh starts from nothing; what the page that was left
  still awaits is marked as such and answers to no click of this one.

A seat that a hold call has already taken while it goes on with the next counts
as held (`Granted`), until the call is refused; then the rollback accounts for it.

`CountdownFollowsHolds` is an action property: besides the three things a step may
not do it needs only that a countdown that runs has a seat listed (`Counted`), and
that a seat a suggestion drops is no longer selected.

`LetGo`, `Asked`, `ConfirmedIsHeld` and `Backed` each except the seats in
`parted`, which have a reason that `SelectionIsHeld` names: a release served
after a newer hold, or a refused click that puts a seat back after Clear, breaks
them in the code.

`SeatSearchProofs`, quadtree (`TreeAssumption`: the cells do not overlap and lie
in the world, as `buildGeometry` lays them out, and the world can be halved as
often as there are levels): `ClicksAreExact`, `CullingExact`,
`TreeTypeCorrect`, for any cells, depth and node size and every point and
rectangle. The invariant says that every cell put in is in exactly one place, a
node or one call of `insert`, and that the cell lies within the rectangle of
each node on its way there. So a query that prunes a node prunes nothing it
asks for: a point within a cell is within all nodes above it, and a rectangle
that touches the cell touches them too. That no cell is in two nodes is what
makes the culling draw each once.

Suggestion (`BestAssumption`: finitely many seats to a row; distances divide the
unit of scores): `SuggestionIsBest`, `BestTypeCorrect`. While a row is scanned
the runs are exactly the longest stretches of free seats among those looked at;
while windows are tried, every window of the rows before, and every window of
this row before the place the search has reached, scores no better than the
best so far, and when it scores the same it was reached later. The runs left
contain every window still to come, so none is passed over.

`EachPart` says that a behaviour of `EdgesMC` is one of each of its parts, so
that all these theorems hold of what `edges_safety` runs; `EdgesTypeCorrect` is
the type correctness of the whole.

## 5. What is only model-checked

Liveness: `OverdueIsSettled`, `EveryRequestEnds`, `CatchesUp`. The prover handles
neither fairness nor ENABLED.

Every other property of a passing run is also a theorem. The inductive
invariants were checked with TLC on the runs' bounds before they were proved.

## 6. Where the code and its text disagree

1. `OwnerCancellationStands`: `RECLAIM_SEATS` does not look at the archive's
   reason. A payment that was under way when the owner cancelled takes the seats
   back and the booking is paid, though `cancellationPolicy.js` calls the status
   terminal.
   For the same reason `refund_pending` with an archive of reason 'cancelled'
   can also mean a lost race, which the comment at `cancellationPolicy.js:95`
   says the reason tells apart.
2. `ReplayChargesNothing`: two simultaneous deliveries of one event both pass
   the pre-read and both charge; the README promises that a duplicate charges
   nothing. (Only one is recorded: `EventRecordedOnce`.)
3. `RetryKeepsPlace`: "a client that retries, or reloads, keeps its place"
   (`waitingRoomService.js:133`), unless the retry overlaps the first try: both
   find no ticket, both take a number, and the later `SET` overwrites a place
   already answered. `LaterRetryKeepsPlace` is what holds.
4. `RollbackSparesTold`: a hold request's rollback deletes a hold that another
   request of the same user refreshed and was told of in the meantime.
5. `LeftBehindRunsOut`: a hold left behind by a failure is renewed by each
   refused retry of its owner, so it outlasts the `HOLD_TTL_SECONDS` the
   comment bounds it by. (The comment speaks of a rollback whose delete failed;
   the run's trace starts from an acquire whose reply was lost, which leaves
   the same hold behind.)
6. `NobodyAccused`: the hold taken for seats handed over from the login page is
   not marked as still confirming, so its own broadcast, arriving before its
   answer, makes the page say the seat was taken by someone else and drop it.

Others were met while modelling. They have no run: a property that holds is
stated around them, or names them.

- `reconcileService.js:32`: "a booking must not be able to expire while its own
  hold is still alive" is checked at start by comparing the two lifetimes, which
  excludes it for holds taken before the booking. `POST /:id/holds` looks at no
  booking, so an owner who takes the hold again (another tab) can have it alive
  when the sweep comes (`HoldsOfItsTimeAreOver` names it).
- `SeatMapPage.jsx:412`: an answer to a payment marks whatever booking the page
  shows by then as paid, also one made after the paid one was dismissed.
- `SeatMapPage.jsx:421`: after a failed payment the page says "try again", but
  it sends the same event, whose stored failure answers it for ever.
- `SeatMapPage.jsx:298`: after a login one call asks for all seats handed over;
  when one of them is gone the others stay selected and are not held.
- `useSeatHolds.js:224`: a suggestion that drops several seats releases each by
  itself from one stale list. With one seat held and another's hold in flight the
  first release stops the countdown and the next lists the first seat again:
  given back at the server, listed without a countdown.
- `bookingService.js:333`: after the commit a booking gives back the visitor's
  other holds, also one taken by a click while the booking was under way; if the
  booking's answer is lost the page shows that seat selected, and it is not held.
- `holdService.js:218`: a call for several seats that is refused, as after a login,
  rolls back by user, and takes with it a hold granted to a click since.
- `useSeatHolds.js:189`: answers that arrive on the login page still rewrite
  `sessionStorage`, so what a later visit restores may be what an abandoned call
  made of the list.
- `SeatMapPage.jsx:252`: Clear while a hold is in flight, then its refusal, puts
  the seat back into the selection.
- `useSeatEvents.js:133`: the first open never reloads, so a change between the
  first load and the first open is not heard of; the comment at 10-12 promises
  a resync on every reconnect only. A socket that dies silently is noticed by
  the server's heartbeat, not by the page.
- `availabilityService.js:112`: without Redis held seats read as available, with no
  error, in a broadcast and in the map alike; `reconcileService.js:170`: seats
  freed by the sweep from the command line, like holds that run out, are
  announced by nobody. Nothing corrects the page until it hears or loads again.
- `hub.js:262`: "no way for a socket to be told the same thing twice", except
  when the reply to a publish is lost (`ToldOnce` names it).
- `rateLimit.js:87`: in the last half second of a window Retry-After names a whole
  window, because a TTL rounded to 0 is taken for a lost one.
- `SeatCanvas.jsx:434`: a silent reload makes a new layout object, and the view is
  fitted again: the visitor's zoom is lost. `SeatCanvas.jsx:673`: a second finger
  resets the press, and the finger that was dragging selects when it lifts
  (`DragSelectsNothing` is about a finger that is alone).
- `recommend.js:79`: the distance from the middle is that of the seats that can be
  taken, the comment says the row's own extent.
- `waitingRoomService.js:62`, `:88`: products in floating point can miss the whole
  number they are, so that a visitor told 123 seconds at 60 a minute is still
  waiting after exactly 123 seconds, for a millisecond.
- `waitingRoomService.js:167`: a ticket may run out before its turn; asking does not
  refresh it.
- `bookingService.js:182`: on the naive path with migration 002 a lost seat is
  answered as an internal error, and the booking stays, without seats, payable.

## 7. What is not modelled

Authentication, catalog and metrics keep no state these components share
beyond the user id; the routes validate and call one service. Configuration is
the CONSTANTS. The migration runner is a script run before the server starts.
Seeds, load tests, styles, the pixels of a frame and the pages that only render
what they fetch are not part of the running service's logic. `extendHolds` is
called by nothing, `getHoldOwner` and `getHoldTtl` only read. A Redis that
restarts and loses keys is not modelled for the holds: it is an expiry of all
of them. In the waiting room a call without Redis is answered as admitted and
keeps nothing; those let through that way are not counted by `AdmitsNoMore`.
`SeatCanvas` leaves out the vertical axis, `SeatMapPage` the prices, and
`BestSeats` computes exactly where the program uses floating point, which may
break a tie.

## 8. What could follow

1. Two tabs of one visitor: what the remainder release of a booking, and
   rollbacks that compare the user only, do to the other tab's selection.
2. Two upsets at once in the run of `SeatMapPage` (its proofs cover them), and
   the page over `SeatFeed` instead of over updates that
   simply arrive.
3. The other pages of the client, which keep little state of their own.
