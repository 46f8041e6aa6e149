# BidBlaze in TLA+

A verification project for BidBlaze, a live-stream auction: a Go server
(`server-go`), a mobile client (`mobile-h5`) and an admin front end
(`admin-web`).  The modules are written from the code; where the documents
under `docs/` say otherwise, the module follows the code and the difference is
listed under "What the documents promise otherwise".

`tlc -config X.cfg M` checks an instance, `tlapm M.tla` a proof.  The runs,
what each property is tested against, and which lines each definition stands
for are in `PROJECT.json`.

## The system

### Inventory

| Component | State | Operations | Hard because | Correct when |
|---|---|---|---|---|
| Bid service (`internal/bid`) | rows `auctions`, `bids`, `orders`, `idempotency_keys`, `event_outbox`; Redis key `bid_lock:<id>` | `Place`: read the idempotency row, pre-check, lock in Redis, transaction (claim key, lock row, validate, conditional update, bid, events, order, finalize), release | handlers of several instances interleave between every two statements; the Redis lock expires; transactions fail, processes die; clocks differ; prices are 64-bit | bids climb, each is announced once, in order; a key buys once; the answer is true; there is time to respond |
| Lifecycle worker (`internal/worker`) | the same rows; a list of due auctions | `StartDue`, `ListDueEndIDs`, `EndOne` with `ensureOrder` | acts on a list read earlier; one runner per instance; races with bids and with the seller | every auction is over some day, once, with one order for its leader |
| Auction administration (`internal/auction`) | the rules in the row | `Create`, `Update`, `Cancel`, `Status` | validates what it read earlier, outside the statement that writes | rules freeze at the start; bids are within the rules |
| Outbox publisher (`internal/outbox`) | `event_outbox.status`, `retry_count`, `next_retry_at`; a channel | `ProcessNext`: lock, publish, mark | a publication cannot be rolled back; several instances; retries and giving up | per auction in order, at least once, settled some day |
| Realtime hub (`internal/realtime`) | rooms, clients, a send buffer per client | register, unregister, publish, replay or snapshot, `GET events` | goroutines that block on each other's channels; a client joins while events are published | a client in a room gets the room's events in order or is cut off |
| Server wiring (`main.go`) | goroutines, contexts | start, forward, shut down | parts stop in no order | nothing blocks a shutdown |
| Orders (`internal/order`) | `orders.status` | list, get, pay | a payment repeated, its answer lost | charged once, by the winner |
| Authentication, upload, configuration, HTTP, storage | rows of users, files | mock login, look-up, store a file, wiring | - | - |
| Mobile store (`store/auctionStore.ts`) | copy of the auction, `lastSeq`, seen events, modal | apply event, snapshot, bid response | events and three kinds of answers in any order | it shows what was so; it is in step with the events |
| Mobile socket hook (`hooks/useAuctionSocket.ts`) | - (awaits) | gap, compensate, refresh | handlers overlap at every `await` | gaps are closed |
| Mobile connection manager (`lib/connection-manager.ts`) | socket, three timers, attempts | start, stop, reconnect, open, close | callbacks after `stop`; two `start` under way | it never gives up, never has two ways on, polls in long outages |
| Mobile session, pages and bid button (`App.tsx`, `pages/`, `lib/auth.ts`, `hooks/useBidButton.ts`) | token, page, phases, one store for all rooms | login, enter, leave, bid, pay, reload | answers of a page that was left; a payment or bid without an answer | nobody is inside without a token; the button tells of the bid under way; an order is charged once |
| Mobile alerts and server time (`hooks/useAuctionAlerts.ts`, `useServerTime.ts`) | refs of what was alerted, timers, the clock's offset | look at the latest event, count down, calibrate | the store is set back by late answers; several events per render; the device's clock is wrong | an event alerts once; no alert stays; the countdown is not ahead |
| Console session and pages (`admin-web/src/lib/auth.tsx`, `pages/`) | token, session, address, lists, the monitor's last answer | login, lists, tabs, cancel, poll | a 401 or a look-up of an earlier session; answers out of order | a seller's stored token signs the calls; spinners end; only ends are celebrated, no cancellations |
| Console mock server (`mocks/handlers.ts`) | users, auctions, orders in the tab | the routes, a simulator of bids | a cancellation next to the end; a reload starts it anew | orders are the sales |
| Auction form and uploader (`AuctionForm.tsx`, `ImageUploader.tsx`) | fields, pictures, the dialog for files, preview | fill, choose files, upload, preview, confirm | uploads overlap, some arrive while a dialog is open; the row and the clock move on | only files chosen too late are too many; a refusal has one of the listed reasons |

### How the parts interact

A bid, a transition by a worker and a cancellation each commit a change of the
auction's row together with its events in `event_outbox`; the row's `version`
numbers the events.  A publisher per server instance takes the rows one at a
time and hands them to a channel of its own process; `forwardOutboxEvents`
takes them from there to the hub, and the hub to the clients of the auction's
room.  A client follows the numbers: at a gap it asks `GET events`, too far
behind it asks `GET status`, and without a connection it polls `GET status`.
So the chain of promises is

    BidService         numbers 1, 2, 3, ... without a gap, in the order of the rows
    OutboxPublisher    sends them in that order, some of them twice, or gives up
    ClientRoom         follows the numbers through loss, duplicates and late answers
    ConnectionManager  keeps the client trying, and polling meanwhile
    RoomAlerts         makes alerts and a countdown of whatever the store becomes
    MobileApp          puts rooms, session, bids and payments around the store

and each module assumes of the one before it just what that one is shown to
guarantee: `OutboxPublisher` identifies the order of event numbers with the
order of row ids (`SeqContiguous`), `ClientRoom` takes the events as a log
numbered from 1 that the room hears in order, with repetitions and, where the
publisher gave an event up, with holes; `RoomAlerts` takes from `ClientRoom`
that the store is moved by single events, pages, statuses of any moment and bid
answers; `MobileApp` takes from `BidService` what a bid does to the row.

The console talks to the same REST interface.  It is developed and shown on a
mock server that runs inside its tab, so its session and lists are modelled
against that one (`AdminConsole` extends `MockServer`), and its form against
the checks of the real one (`SellerForm`).

## Modules

| Module | Models | Role |
|---|---|---|
| `AuctionRules` | `bid/rules.go`, the SQL of `ConditionalAccept` | pure operators on a row |
| `BidService` | `bid/service.go` and `repository.go`, `worker/`, cancellation | state machine |
| `BidServiceProps` | - | its properties and the refinement mapping |
| `AuctionSpec` | - | the abstract auction |
| `OutboxPublisher` | `outbox/`, the channel and forwarder of `main.go` | state machine and properties |
| `AuctionAdmin` | `auction/service.go` and `repository.go` | state machine and properties; instantiates `AuctionRules` |
| `ClientRoom` | `auctionStore.ts`, `useAuctionSocket.ts`, `realtime/` and `Status` as one client sees them | state machine and properties |
| `ConnectionManager` | `connection-manager.ts` | state machine and properties |
| `RoomAlerts` | `useAuctionAlerts.ts`, `useServerTime.ts`, the countdown of the room page | state machine and properties |
| `MobileApp` | `App.tsx`, the pages, `auth.ts`, `useBidButton.ts`, `order/` | state machine and properties |
| `MockServer` | `mocks/handlers.ts` | state and handlers, extended by `AdminConsole` |
| `AdminConsole` | `auth.tsx`, `AuthGate.tsx`, the pages of the console | state machine and properties |
| `SellerForm` | `AuctionForm.tsx`, `ImageUploader.tsx`, the validation in `auction/service.go` | state machine and properties |
| `BidServiceProofs`, `OutboxProofs`, `AdminProofs`, `ClientRoomProofs`, `ConnectionProofs`, `AlertsProofs`, `MobileProofs`, `ConsoleProofs` (with the form) | - | TLAPS proofs |
| `MC*` | - | symmetry sets and values for TLC |

In every module an operator named `Wrong...` is a broken variant of the
definition of (nearly) the same name after it.  It is no part of the model;
`PROJECT.json` puts it in that definition's place to see the property fail.

### BidService

One auction.  `auction` is its row; `bids`, `orders`, `idem`, `outbox` are
tables; `lock` is the Redis key.  `pc[p]` says where handler `p` stands in
`Place`:

| pc | next statement | action |
|---|---|---|
| idle | - | `Receive` |
| read | `readIdempotency` | `ReadIdempotency`, `ReadFails` |
| check | `GetAuction`, `validateAuction` | `Precheck`, `ReadFails` |
| acquire | `locker.Acquire` | `Acquire` |
| claim | `ClaimIdempotency` | `Claim`, `Rollback` |
| claimed | `LockAuction`, `validateAuction` | `LockAuction`, `Rollback` |
| locked | `ConditionalAccept` ... `COMMIT` | `Accept`, `Rollback` |
| release | deferred `Release`, the answer | `Release` |

Row locks are not variables: who holds the row of a key or of the auction
follows from `pc` (`KeyHeld`, `RowHeld`).  What a transaction writes is seen by
nobody before it commits, and it writes after its last read under its locks, so
its writes and its commit are the one action `Accept`; that it may fail at any
statement is `Rollback`, and that a commit may succeed and be reported as
failed is in `Accept`.  `Crash` ends a handler at any label and leaves the
Redis lock.  `LockExpire` may come at any time, also while the holder goes on.
The process's clock is off the database's by at most `Skew`, anew at each
reading (readings of one instance are therefore allowed to step back; the
properties hold nevertheless).

Workers and the seller are one transaction each that locks the row first, so
one action each, possible while no handler holds the row.  `ListDue` reads
without a lock and `EndOne` acts on that list later.

The numbers are those of Go and MySQL: `Add64` wraps, and where the database
would compute a sum out of range the statement fails.

`AuctionSpec` is the auction the contract describes, with no handler, lock or
retry in it: an English auction whose deadline late bids push back and whose
ceiling sells at once.  `BidService` implements it under the mapping at the end
of `BidServiceProps`, checked as a property of `bid_core` and proved.

### OutboxPublisher

`rows` is the table, an event is its row's index.  `held[p]` is the row that
the transaction of instance `p` has locked, `outcome[p]` what the sink said.
`NextRow` is the WHERE clause of `lockNext`.  `Publish` is a step between
`LockNext` and `Mark` as it cannot be undone: `Rollback` and `Crash` after it
leave the event in the channel, or lose it with the process.  A back-off is a
row in `resting`; `Rested` ends it at any later time, whatever its length.

### AuctionAdmin

A request reads and judges in one step (`BeginCreate`, `BeginUpdate`) and
writes in a later one (`Insert`, `Update`); `todo` holds the columns it is
going to write.  `rules` are the columns only the seller writes, `auction` the
others, so that the bid's rules of `AuctionRules` can be used as they are, by
an INSTANCE whose constants are the row's columns.  Bids and worker are single
steps here.  `Update` compares the start with the time at which it writes; MySQL
does with that of the statement's start, which is earlier by a wait for the row.

### ClientRoom

One client, one auction.  The events are the constant `Log`, `committed` of
them have happened, `View[n]` is the row after n of them.  The store is `room`.
`task` holds the requests under way, one per slot: a handler that awaits a
compensation, or a refresh.  Each `await` is a point where other handlers run:
`GET status` is sent, its row is read, its last number is read (two statements
of `Service.Status`), its answer arrives - four steps; `GET events` is asked,
answered (the two queries of `EventsAfter` are one step) and applied, page by
page.  `conn` follows a connection from `dialled` through `replayed`, when the
missed events or the snapshot have been sent, to `open`, when the room knows
it.  Events on the wire are lost with the connection, may come twice, or never
(`Lose`).  `answered`, `whole` and `overtaken` are history variables.
`answered` holds the own bids whose answers were shown; `whole` says that the
copy came from one moment of the server and was moved on by events only;
`overtaken` that it came from a status that arrived behind the cursor of a
compensation under way.  The code has no guard against the last: the
compensation goes on from its cursor and the events in between are skipped.
`InStep` is therefore about copies that are whole and not overtaken, and
`NoEventSkipped`, which lacks the second condition, is refuted (below).

### ConnectionManager

The fields of the class, with the timers as seconds left.  `starting` counts
the `start()` calls that still await their refresh: it may be two, after
`stop()` and `start()`.  `dark` is a history variable, the outage as a user
would measure it.  `Disconnected(made, down)` and `Connect(made, down)` take
the counters as parameters because `reconnect()` resets them just before.
`ConnectTimeout` is the browser's: an attempt fails or succeeds within it.

### RoomAlerts

One step is what the browser does without a pause: a change of the store, the
render it causes, and the effects of that render in their order.  That order
matters: `Rendered` runs the countdown's effect with the remaining time of the
frame before, as the code does, so a new end first meets an old frame.  `page`
holds the states and refs of the two hooks and is `None` while the room is not
mounted; the store survives it.  `due` are alerts whose `setTimeout` has not
fired, `alerts` those on the screen, `timers` the ones that will take them
away.  How the store moves is the summary of `ClientRoom`: the next event, a
page of events of which one render sees the last (`Receive`), a status of any
moment (`StatusArrives`), an answer to an own bid (`BidAnswer`).  `asked` are
the moments of which calibration answers on their way tell.  `raised` is a
history variable, the alerts of events in this visit.

### MobileApp

The whole app around the store: `app` is what `App.tsx` keeps, `view` the
states of the mounted page, `store` what all rooms share.  A request is in a
slot of `calls` with who waits for it: the page that made it, the app (the page
was left, but the answer still reaches the store), or nobody (the tab was
reloaded or the call given up, but the server may still serve it).  So a bid or
a payment is made, served and answered in three steps, any of which may not
come, and `Fails` may precede or follow the second.  `auctions`, `orders` and
`charged` are the server; the last is a history variable, the payments executed.
What the API client does to refusals is modelled: its interceptor throws on
every code but 0, so a refused bid is a failure to the button.

### AdminConsole and MockServer

`MockServer` has the handlers of the mock as operators: what each answers, and
what it does to the tables; `Simulate` is one period of its timer.
`AdminConsole` extends it with the tab: `token` in the browser's storage,
`auth` of the provider, `path` and `from` of the router, `view` of the mounted
page, `calls` as above.  `Load` starts the tab, and with it the server, anew;
`Unauthorized` does it for every answer 401 outside the login page.  `Land` is
a change of session or address with what `AuthGate` makes of it: the page is
mounted anew only if another one is shown.  `loaded` is a history variable, the
token that was stored when the tab was loaded, which the provider looks up.  Its
answer may come after another seller's login, and then the one is shown beside
the token of the other: `SessionSigns` says whose name can be shown and that the
stored token, a seller's, signs, and `ShownIsSigner`, that it is the shown one's,
is refuted (below).

### SellerForm

`fields` and `images` are the form, `preview` what is shown before it is sent,
`call` what was sent; `initial` is what the form was opened with, to which
`Reset` goes back.  `Accepts` are the rules of the form by the clock of the
device, `ServerTakes` those of `Create` and `Update` by the server's clock on
the row as it is by then, with the binding of the request before them: `Binds`
is what `ShouldBindJSON` makes of fields that are int and int64.  The two are
written from the two sources, and `RefusalsExplained` is the comparison.  The
form sets no precision to its seconds, so they are counted in `Second` parts of
one, and only whole ones bind.

An upload is three things.  `OpenDialog` needs room, because the button is
hidden without; `ChooseFiles` takes the pictures of that moment as the `base`
and does not count again; `UploadArrives` appends to the base.  Uploads may
arrive between any two of them.  `late` is a history variable, the files that
were chosen when there was no room any more.  The row moves meanwhile: another
tab saves, the worker starts it.

## Runs

State counts and fired actions are in the output of TLC; every run is finite
and exhaustive.

| Run | Checks | Instance |
|---|---|---|
| `bid_core` | `SeqContiguous`, `BidsAnnounced`, `PriceLadder`, `OrderIffSold`, and that `AuctionSpec` is implemented | two bidders, two handlers, one worker, three requests, ceiling 3 = MaxInt64 |
| `bid_retry` | `IdempotentOnce`, `RepliesTrue`, `ResponseWindow`, `NoLateBid`, `LockedBidStands` | one bidder with two keys, two handlers, two workers, clocks that differ by one, no ceiling, prices next to MaxInt64 = 5 |
| `bid_live` | `EventuallyOver`, `HandlersReturn` | two handlers with one key and any request ids |
| `outbox` | `SentInOrder`, `OneHolder`, `PublishedWasSent`, `RetryBudget`, `EveryEventSettles` | two instances, two events of two auctions, channels of two, two failures |
| `admin_core` | `RulesFrozen`, `PriceWithinRules` | two concurrent requests over two prices, two starts |
| `room_core` | `InStep` | start, bid, extension; two requests at a time; loss, duplicates, failures; pages of one event |
| `room_live` | `NothingInvented`, `CountExplained`, `PollingCatchesUp` | start, own bid, end; one request at a time; pages of two |
| `conn` | `OneWayOn`, `StoppedIsQuiet`, `ToldTrue`, `PollsAtLast`, `Recovers` | the delays of the code, 1, 2, 5, 10 and 15 seconds; attempts of up to 3; two overlapping starts |
| `alerts` | `ClockBehind`, `AlertsTimed`, `EventAlertsOnce` | a bid, an outbid, an extension and the end; room for one alert; a clock one second ahead |
| `mobile` | `SignedInHasToken`, `ButtonTells`, `ChargedOnce` | two auctions, one of them free at the start; two calls under way |
| `console` | `OrdersAreSales`, `SessionSigns`, `CelebratesTrue`, `LoadingEnds` | two sellers, one of whom the mock forgets on a reload, a buyer; an active auction beside a sold one |
| `form` | `OnlyLateTooMany`, `RefusalsExplained` | a new auction or an edited one, two files, half seconds, clocks that differ by one |

What they show.  The server's runs: bids, events, orders and keys agree through
every interleaving, failure and crash of the instance, and the auction ends.
The publisher's: events leave in order, one holder at a time, and every one is
settled.  The client's: through loss, duplicates and overlapping requests a copy stays
in step with the events unless a status came behind a compensation; what is
shown was so at some time; an end is shown at last, and one way to the server is
always on.  The app's and the console's: answers that come late, never or to
another page do not charge twice, do not stick a button or a spinner, do not
sign a page's calls with another token than the stored one and do not celebrate
a cancellation.  The form's: what it lets through and the server refuses is
known.

The type invariants, one per module as `TypeOK` (`FormTypeOK` in `SellerForm`),
are listed by no run: they are proved, and TLC finds them to hold on the
instances above.  Nor are `TerminalIsLast`, `StartedIsFirst` and
`ChannelInOrder`, which are proved too, and `EndOnlyRecedes`, which restates a
part of the refinement.

Each property is also run against a plausible bug in the code it is about
(`mutants` in `PROJECT.json`) and found violated there.

### Bounds, and why they are enough

- *Two handlers, two workers, two instances.*  Row locks, the Redis lock, SKIP
  LOCKED and the stale list are about pairs; a third actor can only do what
  one of the two may do.  The invariants proved (below) hold for any number.
- *Three requests, `MaxRequests`.*  A first bid, a second one and one that
  repeats or overtakes; with the ceiling at 3 a sale needs no more.
- *`MaxClock`.*  Runs one or two instants past the first end, so that an
  extension, a bid in the threshold and one after the end all happen.
- *`MaxInt64`* is 3 or 5: small enough that a price step leaves the range, as it
  does near the real one.  It does so in `bid_retry`; in `bid_core` the ceiling
  keeps the sums in range, so that `PriceLadder` meets a wrap in its theorem only.
- *`MaxRows` = 2.*  Both auctions may get one event, or one of them two: with
  two the order, a hold-up and an overtaking can be seen.
- *`Slots`, `MaxWire`.*  Two compensations that overlap are what the code has
  to survive; one message on the wire means the room and the client
  alternate, and duplicates and reordering against answers still happen.  A
  log of three events has room for a gap of two, more than a page.  The log of
  `room_core` has an extension, that of `room_live` a bid of the client and the
  end, which its properties are about; it has one request at a time, as an
  answer can be late with one, too.
- *`Window`* is 2 or 3, so that a client may be too far behind in `room_core`.
- *`MaxStarts` = 2.*  A `start()` whose refresh is late and a second one.
- *`alerts`: `MaxShown` = 1, `Urgent` = 1, `Lasting` = 1, `Delay` = 1,
  `MaxDue` = 1, `MaxTime` = 3.*  The second alert already pushes one off the
  screen; each of the urgent seconds is the last before the end; the log has
  one event of each kind, with the two bids an outbid needs and an extension
  that reopens the countdown.  The time bound stops the instance, so deadlock
  is not checked there.
- *`mobile`: two auctions, two slots.*  A late answer needs a call of the room
  before and one of this room; a third would be one of the two.  `MaxPrice` = 1
  lets a rival outbid the client once, `Typed` = {2} is an amount of the user's
  own above all others.
- *`console`: two slots, `MaxClock` = 3.*  Two answers out of order; an auction
  bid on, extended, ended and sold takes three periods.  A pending auction is
  not in the instance: the console treats it as an active one it cannot monitor.
- *`form`: two files, `MaxImages` = 2, `RowImages` = {1}, `Second` = 2,
  `MaxInt64` = 2, `LastInstant` = 1.*  With one picture there, one file that
  arrives while the dialog is open takes the last room and the other is late;
  two chosen together would pass the limit if they did not lose each other.  The
  start passes while the form is open.  The fields that are typed have a price
  above a ceiling and one below, half a second with a ceiling the server has no
  integer for, and an odd text, so that each listed reason of a refusal occurs,
  and alone, but that the auction can be edited no more comes with its start.
  After the form is left nothing happens, so deadlock is not checked there.

Symmetry is used for handlers, bidders, workers, requests, uploads and slots, in
runs that check no liveness.

### Fairness

- `BidService`: a handler that can go on goes on; workers list again and again
  and their `EndOne` succeeds if it can again and again (strong fairness: bids
  lock the row in between and statements may fail); time passes; Redis expires
  its key.  No fairness for requests, cancellation, failures, crashes.  That an
  error of `StartDue` skips the listing of the same round is not in the model.
- `OutboxPublisher`: each publisher polls for ever and its transactions do not
  fail every time (`Run` backs off and repeats); back-offs end.  Nothing is
  assumed of the forwarder: with a full channel events are given up, which is
  one way to be settled.
- `ClientRoom`: the auction goes on; without a connection the client polls
  (`startPolling`, every two seconds); a request does not fail each time.
- `ConnectionManager`: a refresh settles (`void refreshStatus().finally`),
  timers fire, time passes, and of the attempts to make and open a socket that
  are repeated for ever one succeeds.  `Recovers` is about a client that is
  left alone, that is, not stopped for ever after.
- The other modules state no fairness and claim no liveness: what moves them is
  a user.

## Proofs

| Theorem | Statement |
|---|---|
| `BidServiceProofs!TypeCorrect` | `Spec => []TypeOK` |
| `BidServiceProofs!OneOrderPerSale` | `Spec => []OrderIffSold` |
| `BidServiceProofs!EventsContiguous` | `Spec => []SeqContiguous` |
| `BidServiceProofs!LadderHolds` | `Spec => []PriceLadder` |
| `BidServiceProofs!ValidWhenWritten` | `Spec => []LockedBidStands` |
| `BidServiceProofs!TimeToRespond` | `Spec => []ResponseWindow` |
| `BidServiceProofs!NoneTooLate` | `Spec => []NoLateBid` |
| `BidServiceProofs!KeysBuyOnce` | `Spec => []IdempotentOnce` |
| `BidServiceProofs!AnswersAreTrue` | `Spec => []RepliesTrue` |
| `BidServiceProofs!BidsAreAnnounced` | `Spec => []BidsAnnounced` |
| `BidServiceProofs!Implements` | `Spec => ImplementsAuction` (refinement) |
| `BidServiceProofs!StoryEnds` | `Spec => [](TerminalIsLast /\ StartedIsFirst)` |
| `OutboxProofs!EventsLeaveInOrder` | `Spec => []SentInOrder` |
| `OutboxProofs!OnePublisherPerEvent` | `Spec => []OneHolder` |
| `OutboxProofs!PublishedAtLeastOnce` | `Spec => []PublishedWasSent` |
| `OutboxProofs!RetriesAreCounted` | `Spec => []RetryBudget` |
| `OutboxProofs!ChannelsInOrder` | `Spec => [](TypeOK /\ ChannelInOrder)` |
| `AdminProofs!TypeCorrect` | `Spec => []TypeOK` |
| `AdminProofs!PriceStartsAtStart` | `Spec => []PriceIsStart` |
| `AdminProofs!BidsObeyTheRow` | `Spec => []PriceWithinRules` |
| `AdminProofs!NoLateRules` | `Spec => RulesFrozen` |
| `ClientRoomProofs!RoomTyped` | `Spec => []TypeOK` |
| `ClientRoomProofs!StaysInStep` | `Spec => []InStep` |
| `ClientRoomProofs!ShowsWhatWas` | `Spec => []NothingInvented` |
| `ClientRoomProofs!CountsAreExplained` | `Spec => []CountExplained` |
| `ConnectionProofs!TypeCorrect` | `Spec => []TypeOK` |
| `ConnectionProofs!NeverStranded` | `Spec => []OneWayOn` |
| `ConnectionProofs!StopEndsAll` | `Spec => []StoppedIsQuiet` |
| `ConnectionProofs!TheTruthIsTold` | `Spec => []ToldTrue` |
| `ConnectionProofs!OutagesArePolled` | `Spec => []PollsAtLast` |
| `AlertsProofs!NeverAhead` | `Spec => []ClockBehind` |
| `AlertsProofs!AlertedOnce` | `Spec => EventAlertsOnce` |
| `AlertsProofs!EveryAlertTimed` | `Spec => []AlertsTimed` |
| `AlertsProofs!AlertsTyped` | `Spec => []TypeOK` |
| `MobileProofs!MobileTyped` | `Spec => []TypeOK` |
| `MobileProofs!SessionsHold` | `Spec => []SignedInHasToken` |
| `MobileProofs!ButtonsTell` | `Spec => []ButtonTells` |
| `MobileProofs!PaymentsCount` | `Spec => []ChargedOnce` |
| `ConsoleProofs!GateKeeps` | `Spec => []SessionSigns` |
| `ConsoleProofs!OrdersFit` | `Spec => []OrdersAreSales` |
| `ConsoleProofs!CelebrationsTrue` | `Spec => []CelebratesTrue` |
| `ConsoleProofs!SpinnersEnd` | `Spec => []LoadingEnds` |
| `ConsoleProofs!ConsoleTyped` | `Spec => []TypeOK` |
| `ConsoleProofs!PicturesFit` | `FormSpec => []OnlyLateTooMany` |
| `ConsoleProofs!RefusalsAreExplained` | `FormSpec => RefusalsExplained` |
| `ConsoleProofs!FormTyped` | `FormSpec => []FormTypeOK` |

They hold for any number of handlers, workers, instances, auctions, keys,
requests, starts, calls, users and uploads, any log, rules, delays, buffer and
page sizes and clocks, under the named assumptions on the constants, which TLC
evaluates on every run: `PriceAssumption`, `ExtendAssumption`,
`BidderAssumption`, `ClockAssumption` (`BidService`); `OutboxAssumption`;
`AdminAssumption`; `LogAssumption`, `BoundAssumption`, `NamesAssumption`
(`ClientRoom`); `TimerAssumption`, `GrowingAssumption` (`ConnectionManager`);
`TypesAssumption`, `NumberAssumption` (`RoomAlerts`); `PriceAssumption`,
`NoneAssumption` (`MobileApp`); `MockAssumption`, `FixtureAssumption`,
`CallAssumption` (`MockServer`, `AdminConsole`); `FormAssumption`,
`BlankAssumption` (`SellerForm`).  Most give a constant its type or the range
the code gives it.  Two need a word:

- `LogAssumption`: what a client follows is a log in which a start comes first
  only and an end last only.  It is what the server promises, and `StoryEnds`
  proves of it: `TerminalIsLast`, `StartedIsFirst`.
- `MockAssumption` has an extension no shorter than its threshold.  All
  fixtures of the mock have 30 and 30, and no other auction of it becomes
  active.  Without it a bid could bring the end nearer, as it counts the
  extension from now, and `CelebratesTrue` needs ends that only recede.

*BidService.*  Types come first.  `NextTables` then reduces the twenty actions
to the five ways the tables can change: not at all, by an accepted bid, by a
start, an end or a cancellation.  `OrderIffSold` and `SeqContiguous` are
inductive relative to the types: an order appears only in the step that leaves
`active`, and each step appends as many events as it raises the version.
`PriceLadder` is inductive too: the condition in the WHERE clause of the UPDATE
is what makes the next bid high enough, not what a handler has validated
before; the proof uses nothing of the Redis lock.  That is the point of the
statement: the ladder would stand without it.  `BidsAnnounced` follows the same
way, from the one step that writes both.

`LockedBidStands` needs the row lock: `OneHoldsRow` says that two handlers are
never past `LockAuction` together, so that the row a handler validated is the
row it writes.  From it the windows of time follow: `TimeInv` says that as long
as the ceiling did not sell the auction, each bid was stored before the end and
seen more than the window before it.  It is kept by a bid because the new end
is judged on the locked row, by a start because there are no bids yet
(`OpenAtBottom`), and by all else because the end does not move.
`IdempotentOnce` and `RepliesTrue` rest on `KeysStep`, that the tables `bids`
and `idempotency_keys` name each other, and on `BidsKept`, that a bid on record
stays: an answer that was true stays true, through any crash after it.

The refinement puts these together: `CommitRefines` shows that an accepted bid
is the abstract bid or the sale at the ceiling, from `TypeOK`, `OrderIffSold`,
`PriceLadder` and `LockedBidStands`; the start, end and cancellation map to
their abstract namesakes, all other steps stutter.

`StoryEnds` needs what the status says of the events (`Story`): a pending
auction has none, an active one has some and none of them ends it, a finished
one has the event of its status last.  So a start, which leaves `pending`, is
written first, and after the last nothing is written.

*OutboxPublisher.*  `SentInOrder` alone is not inductive: an event may be
published by a transaction that took it before.  The invariant `IInv` adds
`HeldInOrder` (what a transaction holds stands behind settled events only, and
they stay settled), `OneHolder`, and `OkWasSent` (a sink that said yes has the
event).  `Settled` rows never become pending again, which carries it through.
`ChannelInOrder` follows with `Channels`: what is in a channel was accepted, so
what came before it is settled and held by nobody, and cannot enter behind it.

*AuctionAdmin.*  What a request is about to write was judged on a row that may
be gone, so the invariant `IInv` says what is left: each value is valid by
itself (`Writable`), before the INSERT only complete creations are under way
(`Creations`), and nobody has bid on an auction that has not started
(`NoEarlyBid`).  The last is what carries `PriceIsStart` and
`PriceWithinRules` over a late update; that a ceiling is above the start price
is not in it, and is not true (`CeilingNotBelowStart`).

*ClientRoom.*  A copy that is in step is more than `InStep` says (`Follows`: a
count may be unknown, but only as long as nobody has bid or when the log is at
its end), and it stays so only if what is under way cannot move it: the
invariant `IInv` adds to the types `Timely` (the row a status answer tells of
is no later than its number, an answer without a next page ends at its event or
after it), `InTouch` (as long as the copy is `Steady`, whole and not overtaken,
no page under way begins after what the copy has) and `Good`, that is, `Truthful` (a price and a
status were the row's at some moment) and `Counted` (a count exceeds the row's
by no more than the own bids answered).  `View` and `ApplyPage` are recursive
functions.  As the library's induction cannot be used, they are reached by
counting: the numbers up to which a function with the defining equation exists,
or up to which a fact holds, are a set with 0 and with the successor of each
member, and a set of numbers that lacks one lacks a least one (`LeastNumber`).

*ConnectionManager.*  `OneWayOn`, `StoppedIsQuiet` and `ToldTrue` are inductive
together.  `PollsAtLast` needs `Overdue`: a client that does not poll yet has
its outage counted in full by `downFor`, waits for an attempt that comes within
`PollingAfter + LastBackoff`, or makes one, and each `start()` that was late
may have broken one attempt off; `Late(s)` counts how many of those are left.
The bound is what the code gives: with its delays, 15 + 10 seconds and the
attempts in between, not 15.

*RoomAlerts.*  `Goes(p, q)` is what the effects of one render may do to a page:
alerts are only appended, each for an event that was not looked at before and
is now.  It is transitive, so a render with three effects is three steps of it.
The invariant is that what was raised was looked at (`LookedAt`), and that the
offset of a calibrated page is late by what an answer took (`Behind`), for which
`AskedInv` bounds the age of an answer by the timeout of the client.
`AlertsTimed` is inductive in the shape `Timed` (the alerts shown are a sequence
over the timers): an alert is shown together with its timer, and to take one
away, which filters the sequence, leaves the others; the latter is by counting.

*MobileApp.*  `IInv` is the types of calls and views, and five parts: `Places`
(on which page a call of a kind can be answered, and that there is one look-up
at most), `Inside`, `Money` (charged as often as paid; no order before the
end), `Told` (an answer or a list that says paid is right, as paid is never
taken back) and `Button` (pending means one slot has the page's bid, else none
has).  `Places` is what makes the others inductive: without it a look-up could
fail with a user inside.

*AdminConsole.*  `OneSession` relates the stored token and the provider's.  It
proves that the token behind the gate is a seller's whatever the answers do,
because nothing but a login writes it and every 401 clears it.  `Signed` adds
who is meant: a look-up is signed by the token the tab was loaded with, a call
of a page by the one stored now, and the user is one of the two; it is kept
because a change of session leaves the calls of the page behind with it.
The mock has `Fit` (each sold row has its one order, each order a row) and
`Onward` (no end comes nearer, what ended stays so), the latter of every step
but a reload.  `OrdersAreSales` is in `Fit`.  The views have `PagesOK`, of which
`CallsOK` is the part that carries the rest: a call waits on the page that made
it and for the row it asked about (`Belongs`), so that an answer that celebrates
is about the auction shown and tells of a moment that was (`Earlier`), a spinner
has a call under way, and there is one login at a time.

*SellerForm* (its proofs are in `ConsoleProofs`).  `Fits` of the pictures and of
what was sent is the property; `RoomFor` of what an upload remembers says that
its file may be added, because there was room or because it counts as late.
`FormInv` has them of every upload under way at once, which is what carries them
through uploads that overlap.  `SoundRow` (a row once passed the server's checks, so that its pictures
are `Short`) and `SoundDraft` (what was sent passed the form's at some time)
leave the listed reasons of a refusal as the only ones.

Only model-checked, not proved, is liveness: `EventuallyOver`,
`HandlersReturn`, `EveryEventSettles`, `PollingCatchesUp` and `Recovers`, as the
prover has no rule for ENABLED.  Every other property of a run is a theorem.

## What the documents promise otherwise

Each of these is a named property of a module that its run does not list; a
copy of the cfg that names it (as the INVARIANT or PROPERTY it is) instead of
the run's own makes TLC print the counterexample.

| Property, module | What the code does | What is promised |
|---|---|---|
| `DuplicateAnswered`, `BidServiceProps` (`BidCore.cfg`) | a duplicate that overlaps its original may be told that its own accepted bid is too low | contract-v2.md:336 |
| `PublishedReachesRoom`, `OutboxPublisher` (`Outbox.cfg`) | an event is marked published when a channel has it, and a restart loses it for the rooms | contract-v2.md:874-875 |
| `CeilingNotBelowStart`, `AuctionAdmin` (`AdminCore.cfg`, with `Prices = {1, 2}`) | two updates that are right each, together leave a ceiling below the start price | contract-v2.md:205 |
| `ReconnectShowsStatus`, `ClientRoom` (`RoomLive.cfg`) | after a reconnection the client's auction is a stub | integration-test-plan.md:274 |
| `EndingAlertTimely`, `RoomAlerts` (`Alerts.cfg`) | the urgent alert is judged with the remaining time of the frame before, so it may come for an end that has just moved away | role-B-realtime-mobile.md:193 |
| `BidFitsRoom`, `MobileApp` (`Mobile.cfg`, with `Typed = {1}`) | a late status or answer of the room before is in the store of this room, and the button bids by it | contract-v2.md:215 |
| `NoEventSkipped`, `ClientRoom` (`RoomCore.cfg`) | a status that arrives behind the cursor of a running compensation sets the copy back, the compensation goes on behind it, and the events between the two are never applied | contract-v2.md:546 |
| `RepeatedPayAnswered`, `MobileApp` (`Mobile.cfg`) | paying an order that is paid is refused | contract-v2.md:458-459 |
| `ShownIsSigner`, `AdminConsole` (`Console.cfg`) | the look-up of the token of before comes after another seller's login, and shows the one beside the token of the other | auth.tsx:2 |
| `OnlySalesCelebrated`, `AdminConsole` (`Console.cfg`) | an end without a bid is celebrated as a sale, with a dash for the winner | MonitorPage.tsx:35, WinConfetti.tsx:84 |
| `ImagesFit`, `SellerForm` (`Form.cfg`) | a file chosen in a dialog that was opened before another upload arrived is one too many | ImageUploader.tsx:2, AuctionForm.tsx:149 |
| `EmptyMeansNone`, `SellerForm` (`Form.cfg`) | an emptied ceiling is sent as null, which the update takes for not given: the old ceiling stays | AuctionForm.tsx:193, 217 against service.go:221-224 |

Met while modelling, without a property of their own.  On the server and between
it and the client:

- A key whose bid was rejected may be used with another amount; the contract
  (337) has a conflict there.  The record is rolled back with the transaction.
- An event is given up at `OUTBOX_MAX_RETRIES` and its successors overtake it;
  the contract (876) keeps it and retries.  The code's dead letters are the
  reason that `EveryEventSettles` says settled, not published.
- A new start and a new duration requested at once may leave a length outside
  30 to 86400 seconds (contract 207): the same stale read as above.
- A late answer to a bid, or a late status, sets price and number back
  (contract 545); `NothingInvented` is what remains true.
- A compensation that fails is abandoned with its event, and no status is
  asked for (contract 547).
- A bidder counts its own bid twice (contract 741); `CountExplained` bounds by
  how much.
- An event committed between replay and registration is sent to nobody, until
  the next one shows the gap (contract 525).
- The status answer has no `order_id`, so a winner who learns of the end from
  it is not offered to pay (event-contract.md:197).
- A client polls after 18 seconds, not 15 (contract 704): only a failure looks
  whether the limit is over.
- Pings are sent and no pong is waited for (`connection-manager.ts:191`), so a
  connection that is dead without a close is not given up.

In the mobile app:

- The interceptor of `lib/api-client.ts:46-53` throws on every code but 0, so
  the branch of `useBidButton.ts:93-104` that reads a refusal's least valid
  amount is never reached.
- The button asks for price plus step also before the first bid, which the
  server would take at the start price.
- The latest event survives leaving a room: entering one again alerts it anew;
  of a page of events only the last is alerted; a late answer to an own bid may
  make the next rival's event a false outbid; a late status may repeat the
  alert of the last seconds (`EventAlertsOnce` is about events).

In the console:

- A late 401, or a late look-up, of an earlier session logs the later one out
  or shows the other's name (`auth.tsx:45-70`); `SessionSigns` is what remains.
- A late answer for an older tab overwrites the newer rows and ends the spinner.
- The monitor's error is never cleared, though it goes on polling
  (`MonitorPage.tsx:41`).
- Overlapping uploads lose pictures and bring removed ones back
  (`ImageUploader.tsx:54`); `OnlyLateTooMany` is what remains true.
- A creation carries no idempotency key, though `lib/api-client.ts:29` calls it
  mandatory.
- A title of blanks, an address that is no URL, broken seconds
  (`AuctionForm.tsx:251`, 267, 275), a price beyond 64 bits and a tenth picture
  pass the form and are refused.
- In the mock an extension counts from now, so that a threshold above the
  extension would shorten the end (its fixtures have them equal); pending
  auctions never start, users who logged in are forgotten on a reload, and a
  repeated payment is confirmed, which the server refuses.

## What is not modelled

- *Hub, rooms and clients of the server as goroutines*: who blocks on whom at
  a shutdown, a pong sent into a closed channel, viewer counts.  Planned.
- *Several auctions of one worker*: batches, one auction that fails at the
  head of each.  Planned.
- *Deadlocks and lock waits of MySQL* are failed statements; isolation is as
  the statements use it: locking reads see committed rows.
- *Login, users and tokens of the server*: a nickname is made a user once by
  the unique key; there is no expiry in the code.  The clients' sides are in
  `MobileApp` and `AdminConsole`.
- Upload, outbox metrics, configuration, HTTP wiring, storage clients: no state
  that two operations share.  `RedisSink` and `ForwardEvents` are wired
  nowhere, `useUpload.ts` is used by no page.
- Lists, single reads, paging, an order's own page, formatting, audio,
  vibration, layout, the service worker generated by the mock library, scripts.
- Half-open connections, which the client does not notice.

## Plan

Done: the server's bid, lifecycle, administration, outbox and payment, the
client's store, connection, alerts and pages, the console with its mock and its
form, and the proofs above, of every safety property.

Left, in this order:

1. `RealtimeHub`: the loops of hub, room, read pump and write pump with their
   channels (unbuffered, or with a bound), contexts and the shutdown of
   `main.go`.  Properties: no send on a closed channel, a client of a room gets
   the room's events in order and without a hole until it is cut off, whoever
   is told to stop returns.  TLC with one or two clients and buffers of one.
2. `LifecycleWorker`: several auctions, batches in the order of their ends,
   the back-off of `Run`, failures that last; starvation behind a full batch.
3. A composition of `OutboxPublisher` and `ClientRoom` through the promises
   stated above: an abstract feed (in order, with repetitions and holes) that
   the former implements and the latter assumes.
