# HelpRide API: a verification project

TLA+ models of the HelpRide API (`src/`, an Express + Prisma + PostgreSQL
server), the TLC runs that check them on small instances, and TLAPS proofs for
every number of rides, bookings, requests, drivers, devices and overlapping HTTP
requests.

    tlc -workers 2 -config bookings_serial.cfg MCBookings.tla
    tlapm BookingsProofs.tla

## 1. The system

| component | state it keeps | operations | what makes it correct |
|---|---|---|---|
| rides (`ride.controller.ts`) | `Ride`: status, seatsTotal, seatsAvailable, price | create, update, delete, start, complete, cancel | seats add up; a ride goes through its life once; nobody travels unpaid |
| bookings (`booking.controller.ts`) | `Booking`: status, seatsBooked, paymentStatus, stripePaymentIntentId | create, confirm, reject, cancel by passenger, cancel by driver | a finished booking stays finished; nobody who cancels is left paying |
| booking payments (`payment.controller.ts`) | `Payment`: status, amounts, bookingId, unique paymentIntentId | create, reuse or replace a PaymentIntent | one intent a booking; what is recorded is what is charged |
| refunds (`lib/refunds.ts`) | none of its own; Stripe's | refund a booking, refund a JIT request | never twice |
| webhook (`stripe.controller.ts`) | writes `Payment`, `Booking`, `RideRequest` | payment succeeded, payment failed, charge refunded | the database claims no money Stripe does not have |
| ride requests (`rideRequest.controller.ts`) | `RideRequest`: status, driverId, mode, seatsNeeded | create, JIT intent, edit, cancel, accept (callback) | paid before it exists; booked once; cancelled means refunded |
| offers (`rideRequestOffer.controller.ts`) | `RideRequestOffer`: status, seatsOffered, unique (request, driver) | create or reopen, accept, reject, cancel | agree with the request; the ride gives the seats the bookings have |
| realtime client (`lib/realtime.ts`) | the dispatcher's list of live requests (external) | dispatch, cancel dispatch | a paid request is not forgotten |
| accounts (`auth.controller.ts`, password change of `user.controller.ts`) | `User`: passwordHash, emailVerified, one-time codes; `RefreshToken` | register, login, OAuth, refresh, logout, send and verify both codes, reset, change password | a session has one token; a logout is final; guesses are limited; a code resets once |
| chat (`chat.controller.ts`, `lib/pusher.ts`) | `Conversation`, `Message` | create, send, mark read, page | what is announced is stored; nothing unseen is marked read; pages miss nothing but what is created at one instant |
| drivers (`driver.controller.ts`) | `DriverProfile` (also the vehicle) | create, update, delete | a deleted vehicle stays deleted |
| pricing, fares, fixed prices (`lib/pricing.ts`, `lib/payments.ts`, `fixedRoutePrice.controller.ts`) | `FixedRoutePrice`; columns of `Ride` and `Payment` | price of a seat, fare, fee; set and drop a fixed price | the cap holds, but for rounding; fee and earnings add up |
| notifications (`lib/notifications.ts`, `notification.controller.ts`) | `Notification`, `DeviceToken` | notify one, notify a role, push in batches, drop dead tokens, register, unregister, mark read | each device once; the feed has what is pushed; live devices stay |
| rate limit (`middleware/rateLimit.ts`) | a bucket per client, in memory | let in, refuse | bounded bursts; no refusal without cause |
| driver documents, admin, tickets, user profile, middleware | single rows, or none | CRUD, checks | (not modelled, section 6) |

How they interact. Handlers never call each other; they meet in the database.
A passenger books (`pending`), the driver confirms (`ACCEPTED`, seats taken),
the passenger asks for a PaymentIntent (`PAYMENT_PENDING`) and pays Stripe
directly; only the webhook makes the booking `CONFIRMED` and `paid`. A ride
starts and completes when no accepted booking is unpaid. Cancellations refund
at Stripe first and write the database afterwards; `charge.refunded` then marks
the rows. A JIT ("just in time") request is paid before it exists: the webhook
inserts it and dispatches it to a realtime service, whose callback books a ride
of its own for it, `CONFIRMED` and `paid`. An ordinary request is answered by
the same callback, without a booking, or by an offer, whose acceptance creates
an `ACCEPTED` booking on the driver's ride. Chat and the other handlers call
`notifyUser` after their commit and ignore its errors.

What is hard. Every handler is an `async` function: read, check, perhaps call
Stripe, the dispatcher or bcrypt, then write with one Prisma call or one
`$transaction`. The transaction is atomic; the handler is not, and its writes
are, with few exceptions, by id, not conditional on what was read. So

- two handlers interleave between any two awaits, and the later write wins;
- a handler may die between the refund at Stripe and the transaction;
- Stripe delivers at least once, late and in any order, and the handler compares
  an event with the row, not with the events seen;
- seats are written as values computed from the row read, not as decrements;
- the dispatcher repeats callbacks, and its calls may fail;
- passwords and codes are compared before, and rows written after, slow hashing;
- a notice is sent in batches, with devices coming and going in between;
- a driver edits the price while passengers pay.

PROJECT.json lists the hazards one by one, each at its line.

## 2. Modules

    Custody  <.....................  (refinement mappings)  ..................
                          BookingsCustody                 RideRequestsCustody
                             |        |                        |         |
    Bookings ----------------+        |       RideRequests ----+         |
       |                              |          |                       |
    BookingsSerial -------> BookingsProofs    RideRequestsSerial --> RideRequestsProofs
       |                                         |
    BookingsClaims --> MCBookings             RideRequestsClaims --> MCRideRequests

    Accounts --> AccountsSerial --> MCAccounts      Chat --> MCChat     Push --> MCPush
                       +----------> AccountsProofs    +----> ChatProofs   +----> PushProofs
    RateLimit ---+----------------> RateLimitProofs --------+
    Fares, Drivers --> Services --> MCServices              +--> ServicesProofs
                          +---------------------------------+

`SumProofs` holds the lemmas about sums and the inductions that `BookingsProofs`
and `RideRequestsProofs` share.

| module | source | its state |
|---|---|---|
| `Custody` | (abstract) | where the money of each fare is, whether the service is granted, what the database says |
| `Bookings` | rides, bookings, payments, refunds, webhook | the rows, Stripe's intents and events, which `client_secret`s are out |
| `RideRequests` | requests, offers, realtime client, JIT half of refunds and webhook | the rows, trips booked, Stripe's intents and events, the dispatcher's live requests and callbacks |
| `Accounts` | accounts and sessions | user rows, codes with their attempts, refresh tokens |
| `Chat` | one conversation | messages with their createdAt, what was announced, an app paging through |
| `Push` | notices | device tokens, feed, the handler of each notice |
| `Fares` | prices, fares, fees | a ride, fixed prices, intents and payment rows in cents |
| `Drivers` | one driver's profile | the profile and the driver's rides |
| `RateLimit` | the middleware | a clock, buckets, the history of requests let in |

In all of them:

- A variable is a table (or the columns of it that a property can tell apart),
  an external party's state, or `req`, the handler in flight in each slot of
  `Handlers`.
- An HTTP operation is an action named after its handler (`ConfirmBooking`), with
  the handler's guards on the row it reads, which records in `req[h]` the values
  the rest of the handler still uses (`seen`, `restore`, `was`...), and an action
  `Commit...` that is its transaction and writes from them. A handler with
  several awaits has a stage `pc` for each: `StartRide`, `CheckPaidToStart`,
  `CommitStartRide`.
- Operations that are one statement (`CreateRide`, `Logout`) are one action, and so
  are those whose earlier read has no influence on the write (`DELETE
  /rides/:id`, which the foreign key guards; `SendOtp`, as users are never deleted).
- `Fail(h)` ends a handler anywhere: a query that fails, a 502 of Stripe, a
  later check that does not pass, a crash. What was committed or done at Stripe
  stays; a transaction not committed is rolled back.
- `Handlers = {h1}` means that requests are served one at a time (still with
  crashes and late events), `{h1, h2}` that any two overlap.
- `events` never shrinks: an event may be delivered at any time, again too.
- Guards that refuse a request (400, 404, 409, 429) leave nothing changed; they
  are the absence of a step. (429 changes the bucket, and is `Refuse`.)

State correspondence. `ride[r]`, `booking[b]`, `request[q]` and `offer[q][d]` are
the rows by id, status `"none"` before the insert. `payment[b]` is the row unique
by `paymentIntentId`; a booking has one intent, because the idempotency key is
`booking:<id>:intent`, and so one row. `intent` is Stripe's view; Stripe calls a
refunded intent `succeeded`, and so does `PaymentStatusOf`. `secret` is the set of
bookings whose `client_secret` was answered: nobody can pay without it. In
`RideRequests`, `needed[q]` is seatsNeeded, `offered[q][d]` an offer's
seatsOffered, `trips[q]` the sequence of the bookings made for a request and
`payment[q].trip` the one its Payment row points to; `live` and `callbacks` are
the dispatcher. In `Accounts` an account is the row of an e-mail address, a code
is absent, fresh or stale, and whether the code typed is the right one is the
caller's choice. In `Chat`, `at` is createdAt, a clock reading that is not unique
and does not follow the order in which transactions commit. In `Push`, `gone` is
what Firebase refuses for good. The full table of definitions and lines is `map`
in PROJECT.json.

### Custody

`Custody` is what the two halves of the payment code promise alike: the money of a
fare is taken at most once and returned at most once; the service (a confirmed
seat, a search for a driver) is granted only for money that was taken; and the
database may lag behind the money, and fall back, but is never ahead of it.
`BookingsCustody` reads it off Stripe's intents, the booking's status and
`paymentStatus`, and the Payment row; `RideRequestsCustody` off the intents, the
requests in `JIT` mode and the trips. `KeepsCustody == C!Spec` says that the
module implements it: every step moves the money of one fare, or is a record of
any number of fares, or changes nothing of this. It is checked and proved for both.

### History variables

Some promises hold until two requests overlap. Where the instance has two
handlers anyway, `AccountsSerial` and `Services` (for fares) have a variable
`overlapped` that remembers whether two were ever in flight together, and state
these promises as `overlapped \/ ...`. `AccountsSerial` has a second, `spent`,
the accounts whose present reset code was used. They constrain nothing.

`Services` puts three parts that share no state into one specification: the
initial state chooses in `service` which of them runs, and the others keep their
initial states. Each part has all the behaviours it has alone.

## 3. What is checked

| run | instance | shows |
|---|---|---|
| `bookings_serial` | 1 ride of 2 seats, resized to 2, 3 or -1, bookings of 1 and 2 seats, one handler | `SeatsStayBalanced`, `RideLifecycle`, `TerminalStays`, `PaidIsConfirmed`, `RefundBeforeCancel`, `RidesRunPaid` |
| `bookings_concurrent` | 1 ride of 2 seats, resized to 1, 1 booking of 2 seats, two handlers | `TypeOK`, `BooksFollowStripe`, `NoFreeRide`, `NoOrphanPayment`, `KeepsCustody` |
| `requests_serial` | 1 JIT request and 1 ordinary one whose seatsNeeded is edited from 1 to 2 and for which 1 or 2 seats are offered, 2 drivers of 2 seats and 1, one handler | `BookedOnce`, `OffersAgree`, `SeatsAccounted`, `ClosedStaysClosed` |
| `requests_concurrent` | 1 JIT and 1 ordinary request, 1 driver, two handlers | `TypeOK`, `PaidBeforeRequest`, `CancelledIsRefunded`, `TripsFollowStripe`, `KeepsCustody` |
| `requests_liveness` | 1 JIT request and 1 that cannot be inserted, 1 driver, two handlers | `PaidRequestAppears` under `FairSpec` |
| `accounts` | 1 account, 2 passwords, 3 tokens, codes that survive 2 wrong guesses, two handlers | `TypeOK`, `AttemptsBounded`; until requests overlap `OneTokenPerSession`, `RevokedIsFinal`, `OneResetPerCode` |
| `chat` | 2 messages, 2 instants, pages of 1, two handlers and a reader | `TypeOK`, `ToldIsTrue`, `ReadWasListed`, `PagesComplete` |
| `push` | 2 notices, 2 users, 2 devices, batches of 1 | `TypeOK`, `PushedOnce`, `PushedIsInFeed`, `LiveDevicesStay` |
| `services` | a limit of 2 in 3 ticks over 8 ticks, up to 2 refusals in a window; a ride of 10.05 or 60 km with 2 or 3 seats, a fixed price of $8, a booking of 2 seats; a profile of 2 fields and a ride; two handlers | `AllTypesOK`, `BurstBound`, `RefusedForCause`, `RecordedAsCharged`, `DeletedStaysDeleted`; until edits overlap `PriceWithinCap` |
| `claim_*` | the smallest instance that refutes the claim | one statement of a document or message each, refuted |

The split between serial and concurrent is the main result. What the database
says of money is true under every interleaving (and proved, section 5). What it
says of seats, of the life cycle and of who was booked is true only as long as
two requests do not overlap. Sessions are the same: guesses stay bounded, but a
logout is final and a session has one token only while requests do not overlap.
Chat and notifications hold under every interleaving.

Every property of a passing run has a mutant, a plausible bug in one definition
that makes TLC refute it; mutants stand in the modules just before the definition
they change, marked "Mutant".

### Bounds

There is nearly no counter to cap: identifiers are finite, statuses are finite,
seats are bounded by `SeatTotals`, `UpdateTotals` and `EditSeats`, an append to
`trips` needs a handler that read the request open, and each message and notice
is sent once. Wrong guesses are bounded by the very property about them. Time
is `Horizon` in `RateLimit`: 8 ticks see two full windows of 3 and the start of a
third. `Patience` bounds how often a client asks in vain in one window: with 2
there is a first refusal and one while the count goes on. `Instants` are the
values of createdAt: 2 give messages of one instant, in order, and out of order.
`Units` is how finely distances are measured: with 20 a kilometre, 10.05 km is
one at which rounding goes beyond the cap. `UpdateTotals`, `EditSeats` and
`OfferSeats` are what bodies ask for; a negative total is among the first in the
serial run of bookings. `Unstorable` are JIT requests that can be paid and not
inserted (see Fairness).

The larger runs have 2,490,978 distinct states (`chat`), 1,745,001
(`requests_serial`), 1,255,512 (`bookings_serial`), 959,443
(`requests_concurrent`) and 532,416 (`services`); `requests_liveness` has 33,447.

One ride is enough because no operation touches two; two bookings are what it
takes to compete for its seats; two requests and two drivers what it takes to
compete for an offer's ride or for a request. Three tokens are a sign-in, its
refresh and a second sign-in, or two rival refreshes. Two messages give pages of
one a first, a next and an empty one, and a message that arrives in between, or
has the createdAt of the cursor. Two devices in batches of one give a second
batch, whose positions differ from those in the list. The distances of `Fares` lie
on both sides of the ceiling (50 km) and of the protected minimum (55 km), the
seats on both sides of its limit of 2. All races in the code are between a read
and the write of one handler with the write of another, so two handlers show each
of them; the proofs are for any number. The concurrent booking run has one
booking, which a two-seat ride shrunk to one seat makes compete with the update.
`SYMMETRY` permutes model values that no definition tells apart, in runs without
liveness only.

Deadlock is not checked in any run: a system without requests is at rest.

### Fairness

`FairSpec` (RideRequests) assumes that a handler that has begun goes on or fails
(the Node event loop; failed awaits reject), that Stripe sends an event until it
is answered 200 (its retry policy; strong fairness, since the slot it needs is
taken and freed), and that an insert tried again and again does not fail every
time (else the database is down). The last is not assumed of `Unstorable`
requests: the handler of the intent lets pass a fractional seatsNeeded
(`rideRequest.controller.ts:390`) and a blank city or type (360), and the webhook
then throws on every delivery, because the column is an `Int` (304) or metadata is
missing (`stripe.controller.ts:116`). `CommitJitRequest` never happens for them:
their money is taken for nothing. `PaidRequestAppears` leaves them out by name,
and the run has one of them beside a request that does appear. It does not assume
that dispatch succeeds, that drivers take requests, or that a passenger pays. The
other components promise no progress that does not come down to "the client tries
again".

## 4. Where code and documents disagree

Three sentences are refuted by runs:

- `claim_confirm_oversell`: "Not enough seats available to confirm this booking"
  (`booking.controller.ts:767`). Two confirmations overlap and sell a seat twice.
- `claim_refund_completed`: "If payment was already completed, initiates Stripe
  refund automatically" (`README.md:799`). A passenger who cancels between paying
  and the webhook is not refunded.
- `claim_first_callback`: "First accepted callback wins"
  (`docs/HelpRide_API_README.md:1547`). The later of two overlapping ones does.

The same causes (writes by id from a stale read, events compared with the row
only) have more effects than there are runs. Replace `{h1}` by `{h1, h2}` in a
serial run, or drop `overlapped \/`, and TLC shows them: a confirmation that
reopens a cancelled ride, a webhook that confirms a booking just cancelled, a ride
started over a booking accepted meanwhile, a request booked twice or booked
after its cancellation, two live tokens of one session, a token refreshed after
its logout, two resets by one code. Further:

- Lowering seatsTotal below the seats taken clamps seatsAvailable at zero and
  forgets the deficit (`ride.controller.ts:455`); raising it again sells seats
  that are taken, against the check of `booking.controller.ts:767`, without any
  overlap. `SeatsStayBalanced` says what remains.
- `payment_intent.succeeded` delivered again after `charge.refunded` marks the
  refunded booking paid, against `docs/HelpRide_API_README.md:1007`.
- A `charge.refunded` of an intent without a Payment row is answered 200 and
  dropped. If the cancellation of a JIT request dies after its refund, the request
  stays open; a callback then books it, and its row says `succeeded` of refunded
  money.
- A failed dispatch is swallowed; `README.md:652` says the request is dispatched.
  It also says that a successful webhook creates the request; of a fractional
  seatsNeeded or a blank city or type it never does, and the money stays taken
  (`Unstorable`, section 3).
- `docs/HelpRide_API_README.md:303`: "final price ≤ distance × $0.30". The price
  is rounded to cents after the cap (`pricing.ts:118-125`): 10.05 km are sold at
  $3.02. `PriceWithinCap` allows the half cent that rounding adds, and no more.
- Pages of messages are ordered by createdAt alone (`chat.controller.ts:203`),
  which is not unique (`schema.prisma:321`). What follows the cursor among rows of
  its instant is left to each query, so that one of them may be missed, or come
  again. `PagesComplete` says that no other message is.
- `README.md:614`: updating a ride "Leaves `seatsAvailable` unchanged for now";
  `updateRide` moves it with seatsTotal.
- `README.md:780`: confirming "Marks `status = "confirmed"`"; the code writes
  `ACCEPTED`.
- `README.md:328` and `342`: registration and login send a code, and tokens come
  with its verification; the code issues tokens at once.
- `README.md:387`: OAuth sign-ins mark `emailVerified`; an account that exists
  keeps its mark.
- `README.md:840`: `readCount` and `messageIds` are of the messages updated; two
  overlapping calls list, and report, the same messages.
- `docs/HelpRide_API_README.md:294-303`: the price is resolved on update; only an
  edit that names a price is priced, so that one that only moves the ride keeps a
  price beyond the cap.
- `PUT /ride-requests/:id` asks for no status: a passenger may raise seatsNeeded
  after paying for a JIT request, and the callback then books more seats than
  were paid for. An edit between an offer and its acceptance does no harm to the
  seats (`SeatsAccounted`): the booking and the ride both go by the offer.
- A JIT request accepted through an ordinary offer gets an unpaid booking,
  although its intent was captured.

Behaviour seen while modelling of which no document says that it should be
otherwise: seatsTotal is not validated by the update (`ride.controller.ts:449`),
and with a negative one a later cancellation writes a negative seatsAvailable
(`booking.controller.ts:516`); buckets are per process, so that the limit of a
deployment of several instances (`README.md:17` names a serverless one) is as many
times what `BurstBound` says; completing a ride leaves its pending bookings
pending (662); with the fixed idempotency key a canceled intent cannot be replaced
until Stripe forgets the key (`payment.controller.ts:245`); a request whose
creation dies between its two writes stays `PENDING` and undispatched
(`rideRequest.controller.ts:239`); buckets of clients that never return are kept
(`rateLimit.ts:13`); an edit that names the price it already had is uplifted again
(`pricing.ts:107`); a route may have several active fixed prices, of which any
applies (`fixedRoutePrice.controller.ts:49`); of two overlapping messages the
earlier may end as the conversation's preview (`chat.controller.ts:275`); a device
registered by another user stops getting its first user's notices
(`notification.controller.ts:71`).

## 5. What is proved

Constants are arbitrary sets and functions that satisfy the named assumptions,
which TLC evaluates in the runs: bookings have a ride and a positive number of
seats, requests need and offer positive numbers, `NoDriver` and the like are not
members of the sets they complete, `PATCH /rides/:id` is given integers (a
fraction is refused by the column), limits, batch and page sizes are positive,
prices and rates are natural numbers, distances whole numbers of a fraction of a
kilometre that may be any, and handlers (in `Accounts`) and devices are finitely
many. Two theorems about sums assume of their own that the ids of bookings, or of
requests, are finitely many.

`BookingsProofs`: `Spec => []TypeOK`, `[]BooksFollowStripe`, `[]NoFreeRide`,
`[]NoOrphanPayment`, `KeepsCustody`. The properties are not inductive, because a
handler commits what it read: the strengthening says of each handler in flight
what it may rely on. A webhook that will write `paid` holds a true event (`events`
only ever contains what happened at Stripe); a reuse that will write `succeeded`
read a captured intent, and captured is for ever; a cancellation that will write
seats read a row that was well typed and had enough of them; an intent that Stripe
holds open but nobody can pay may lack its row, one whose secret is out may not.
`TypeOK` says that totals and seats left are of `SeatCount`, the natural numbers
if all totals patched are, and the integers if not. So `SeatsNeverNegative`, which
follows from it, assumes `UpdateTotals \subseteq Nat`: then seats never go below
zero, however confirmations race, because each writes a value computed from a row
that had enough. A negative total, which the code does not refuse, makes them
negative. The refinement follows: a step that changes an intent is `Capture` or
`GiveBack` and changes no row, any other is a `Record`, whose condition is the
invariant in the next state.

`RideRequestsProofs`: `Spec => []TypeOK`, `[]PaidBeforeRequest`,
`[]CancelledIsRefunded`, `[]TripsFollowStripe`, `KeepsCustody`. The inductive
invariant is `TypeInv /\ SafeInv`. `TypeInv` adds to the types that an acceptance
in flight read enough seats for the seats it will give (which an edit of
seatsNeeded in between must not change: they are those of the offer, which the
driver named or which were needed then) and that
Payment rows and refund webhooks point to an existing trip. `SafeInv` adds that
events are true, that Payment rows belong to JIT requests, and that each handler
in flight may do what it is about to: an insert follows a capture, a
cancellation of a JIT request follows its refund. Both need that some facts are
never undone (a captured intent stays captured, a trip stays booked and its way
of booking stays the same, a request that exists is never removed); `Onward`
states them once for every step. A webhook in flight acknowledges only when it
returns from the dispatch, after its insert, which is the other half of
`PaidBeforeRequest`: an event that is not resent has its request.

`AccountsProofs`: `Spec => []TypeOK`, `[]AttemptsBounded`. The count of attempts
alone is no measure, since it is incremented later than it is compared: what stays
bounded is the count together with the wrong guesses in flight at the same code
(`GuessInv`). When a guess passes the comparison the count is below the limit
and the handlers in flight are at most all of them, itself included.

`RateLimitProofs`: `Spec => []BurstBound`, `Spec => RefusedForCause`, the latter of
every refusal, since each counts and so is a step of its own. The history
says of each request let in which one opened its window. Windows open at least
`Window` after the one before opened (`Spaced`), hold at most `Max` requests
(`InWindows`), and the bucket counts the requests of the last one (`Counts`). Of
`2 * Max` requests in a row, the last is in a window that opened after the window
of the first one was over.

`PushProofs`: `Spec => []TypeOK`, `[]PushedOnce`, `[]PushedIsInFeed`,
`Spec => LiveDevicesStay`. For every batch size, what was sent is the list up to
the next batch (`SentOK`); rows are inserted exactly when a notice leaves the
stage before (`RowsOK`); and tokens found invalid are of devices that are gone,
for good (`invalid \subseteq gone`), so that it does no harm to delete them late.

One request at a time, in the same modules. `BookingsProofs`: `PaidIsConfirmed`,
`TerminalStays`, `RideLifecycle`, `RefundBeforeCancel`, `RidesRunPaid`,
`SeatsStayBalanced`; `RideRequestsProofs`: `BookedOnce`, `OffersAgree`,
`ClosedStaysClosed`, `SeatsAccounted`. With two handlers they are false (the runs
`claim_*` show some of it), so each theorem assumes `OneAtATime`: the set
`Handlers` has at most one element. Everything else stays arbitrary, crashes
halfway and late, repeated, reordered events included. The invariant says what a
handler in flight still knows of the rows it will write (`HandlersFit`): a
confirmation that the booking is pending and the ride open, a start that no
booking blocks it, a cancellation of a ride that the bookings no longer in `todo`
are refunded, a webhook that the row is the one it read. It is kept because
Stripe, the dispatcher and the passenger's app write no row, and because the
insert and the delete of a ride touch only rides without bookings. The same
lemmas give the action properties, as `[][LifeStep]_vars` and `[ClosedStep]_vars`.

The seats. `SeatsStayBalanced` and `SeatsAccounted` compare a column with a sum
over bookings, or over trips, of any number and size. What the invariant needs on
top of the one above is that a handler about to write seats read them from the
ride as it is (`SeatInv` in both modules: `HandlersKnow`, `HandlersSee`). A step
then moves one booking, or none, in or out of the set that is summed, and
`SumAdd`, `SumRemove` and `SumSame` of `SumProofs` say what becomes of the sum. A
booking cannot move when it is not of the ride, and a delete finds no booking.

`SumProofs` proves these lemmas of the library's `SumFunctionOnSet`, which is
defined through a `CHOOSE` of a recursive function. That there is such a function
and only one on the subsets of a finite set is an induction over finite sets; the
theorems of the library that state induction for any predicate cannot be used
here, and `SetInduction` and `NumberInduction` state it for a set of the data,
from the well-founded orders of the library.

Until requests overlap, in `AccountsProofs`: `WatchedSpec => []OneTokenPerSession`,
`RevokedIsFinal`, `OneResetPerCode`. As long as a handler is alone, the token it
read is still unreplaced and the code it read has reset nothing (`Holds`), so that
a refresh takes one end of a chain away and adds one, only a sign-in adds
another, a revoked token is neither refreshable nor about to be refreshed, and a
code that was used is not fresh (`CodesInv`) until a new one is sent.

`ChatProofs`: `Spec => []TypeOK`, `[]ToldIsTrue`, `[]ReadWasListed`,
`[]PagesComplete`. A handler past its transaction works on a stored message, one
that marks on stored and listed ones (`TaskTrue`), and no two transactions write
the same new message (`OneSender`), so that a crash takes back a row nobody was
told of. For the pages, nothing is assumed of the order of messages of one instant:
a page is the first rows of any order by createdAt behind the cursor (`Pages`).
`WalkInv` says that no message seen is older than the cursor and that what was
there at the start and was not seen is `ToCome`, older than the cursor, or `Split`
from it by its instant. A page of positive size is empty only if nothing is older
(`PageFacts`), and its last message is not newer than those it leaves out, so that
each of these is to come or split (`PageStep`); nothing at all is assumed of
createdAt, so that an insert at any time, and a rollback, leave this as it is
(`RowsStay`).

`ServicesProofs`: `ServicesSpec => []AllTypesOK`, `[]RecordedAsCharged`,
`PriceWithinCap`, `DeletedStaysDeleted`. A booking with a charge or a link has an
intent, which Stripe never changes, and a handler about to record one knows its
amount (`FaresInv`); that is why the fee, which is worked out before Stripe
answers, is the fee of Stripe's amount. The cap holds of the price in an edit for
the distance the ride will have with it, since nobody moved the ride since it was
priced (`CapInv`), and rounding exceeds the cap by half a cent at most, whatever
the fraction of a kilometre in which distances are measured.

Every safety property that a passing run checks is stated by a theorem. Only
model-checked is liveness, `PaidRequestAppears`, which is out of the prover's
reach together with `ENABLED`. No module declares a `RECURSIVE` operator.

## 6. Not modelled, and why

- Authentication, ownership and e-mail verification of a request (`middleware/`):
  stateless checks before a handler; the callers are those the handler accepts.
- `driverDocument.controller.ts` (an insert and a presigned URL), administration,
  support tickets, the profile of a user: single rows without interaction.
  `SosEvent` is a table nothing writes.
- Routes, server start, e-mail, the Prisma client: wiring and I/O.
- Lists, searches, details, summaries and the ledger of earnings: they only read.
- In each module the data its properties do not tell apart: places, times and
  texts; amounts outside `Fares`. `Fares` computes exactly, with distances
  in fractions of a kilometre (`Units`): the floating point of JavaScript, and the
  distance from coordinates, are left out.
- The lower-case legacy statuses: no handler writes them, each treats
  them as their successors.
- Stripe drops an idempotency key after 24 hours; the models keep it for ever.
- The memory of other instances of the server: `RateLimit` is one process.
- How Prisma finds a cursor with `skip: 1` is a library's; the model lets each
  query put the rows of the cursor's instant before or behind it.
- What of a body makes a JIT request unstorable: the models only know which are.
- In `initiate...Refund` the read of the Payment row and the refund call are one
  step: the row becomes refunded only after Stripe has refunded, which makes the
  two orders the same to Stripe.
- The ride a driver offers stays open in `RideRequests`, and a trip is not
  operated on after it is booked but by its refund: its later life is that of a
  booking of `Bookings`.

## 7. Plan

Done: the two payment modules with their runs, proofs and refinement of
`Custody`; liveness of paid requests; edits of requests; accounts, chat, push,
fares, drivers, the rate limit; a theorem for every safety property the runs
check, sums of seats and pages of messages among them.

Left, in this order:

1. Compose: the trips of `RideRequests` as bookings of `Bookings` (a JIT trip
   starts `CONFIRMED`, shares the Payment row, may be cancelled and refunded from
   both sides), with the proof that the composition implements both.
2. Liveness of `Bookings`: a captured payment is recorded; a refund is recorded
   when the booking is not paid again.
3. The seats of a ride under any interleaving: what remains of the account when
   requests overlap (never below zero, which is proved; never above seatsTotal).
