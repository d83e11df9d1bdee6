# A TLA+ model of stripe-mock-server

stripe-mock-server is a stateful HTTP server that imitates the parts of the
Stripe API a billing system is tested with: customers, products, prices,
checkout sessions, subscriptions with their invoices and charges, and webhooks.
This directory holds a model of its core logic, the configurations that check it
with TLC, and proofs that TLAPS checks.

Paths below are relative to the repository; `gateway.go` is
`pkg/gateway/gateway.go`, `server.go`, `stripe_handlers.go` and `api_helpers.go` are in
`pkg/server/`, `repository.go` is in `pkg/storage/`.

## The system

| Component | State | Operations | Hard behaviours | Module |
|---|---|---|---|---|
| In-memory repository (`repository.go`) | JSON documents by type and id, one read-write lock per type, made on first use | Create, CreateWithID, Get, Update, Delete, List, Exists, Clear | two-level locking, check then write | `Repository`, `Store` |
| Subscription operations (`gateway.go`, `stripe_handlers.go`) | the subscription documents | create, renew, pause, resume, cancel, expire, update | read-modify-write without a lock around it; answers and events that show later states; sections saved before a later one is refused | `SubscriptionDocs`, `AtomicSubscriptions`, `Subscriptions` |
| Billing goroutines (`server.go`) | invoices and charges | lifecycle, renewal, checkout and plan-change waterfalls | steps interleave with a reset; failures half way | `Billing` |
| Checkout (`gateway.go`, `stripe_handlers.go`) | sessions and their link to a subscription | create, complete | double completion, a sleep in place of an order | `Checkout` |
| Plan changes (`proration.go`, `gateway.go`, `server.go`) | items with prices and periods | item updates, proration, invoiced amounts | rounding, several items, other intervals | `PlanChanges` |
| Webhook delivery (`webhook_service.go`, `server.go`) | endpoints, the worker pool with its queue | trigger, filter, deliver, retry, Drain, Close, Wait | ordering, retries, shutdown, silent receivers | `WebhookDelivery` |
| Event stamps (`webhook_service.go`) | one atomic counter | buildWebhookEvent | counter and clock are read at different times | `EventSequence` |
| Request dispatch (`server.go`) | none of its own | authentication, parameters, handler, status, answer | errors half way, a panic on a null body, what a handler's status becomes | `Requests` |
| Customers, products, prices; billing portal (`gateway.go`, `stripe_handlers.go`) | their documents | create, update, retrieve, list | read-modify-write, events made after the answer | `Resources`, `Requests` |
| Expander (`pkg/expander`, `api_helpers.go`) | objects on the heap, shared by handler and goroutine | expansion for events, expansion for `expand[]` | shallow copies, the order of `expand[]` | `Resources`, `Requests` |
| Reset (`gateway.go`, `server.go`) | clears all repositories but the endpoints | POST /v1/reset | not atomic, waits for nobody | in `Subscriptions`, `Billing`, `Checkout`, `Requests` |
| OpenAPI specification and validation, mock data, ids, parameter helpers, command line | none, or the specification | pure functions of a request | data, hardly control | not modelled |

How they interact: net/http runs each request in a goroutine. A handler calls the
gateway, the gateway the repositories, and the handler then starts a goroutine
and answers. The goroutine calls the gateway again, and for every event lists the
webhook endpoints and puts one task per interested endpoint into the pool. The
pool's single worker posts the events. Nothing but the locks inside the
repositories, the channels inside the pool and a wait group that only some
goroutines join orders any of this; that is where most hazards lie.

What makes each part correct:

* the repository behaves like an atomic store, no two goroutines touch a map at
  once in conflicting ways, and every call returns;
* a subscription's fields fit together at all times, successful changes are
  announced and refused ones are not, canceled subscriptions stay canceled,
  new ones become active;
* an invoice advances draft, open, paid, with a charge, announced in order and
  only after it is stored, and a reset makes no goroutine hang or leave
  a half-done invoice where it did not interfere;
* a checkout session brings one subscription, and links to one that exists;
* invoices of plan changes add up to the difference the changes made;
* deliveries reach every subscribed endpoint in order, a bounded number of
  times, never one that was deleted, and none is lost when the server drains;
* event stamps are unique and sort events by time;
* a request that is refused leaves nothing, one that succeeds is announced with
  what it was answered with, and what is expanded in an object never gets into a
  repository.

## The modules

Each module is one component, with VARIABLES, `Init`, one action per operation or
step, `Next` and a specification. Definitions marked `Faulty` are variants of the
definition after them with one bug; none of the specifications uses them. They
document which mistake each property notices.

**`SubscriptionDocs`** holds what the operations do to one document, as
functions: `CanApply` are the checks an operation makes on its copy and `Apply`
the fields it sets. Times are counted in billing periods; items are a function
on the positions of the request that created them.

**`AtomicSubscriptions`** is the abstract specification: an operation checks and
changes the stored document in one step.

**`Subscriptions`** splits each operation as `gateway.go` does: a handler reads
the document (`Read`), checks and changes its copy, writes the whole copy
back (`Write`) and reads again what it answers with (`Reread`). An
update makes up to three such operations, in the order of
`handleUpdateSubscription`. The handler then starts a goroutine (`task`) which
fetches, announces and, for a lifecycle, bills and activates. Requests are
numbered in the order they arrive, and a subscription has the number of the
request that created it. A reset clears subscriptions and then invoices, so a
goroutine may find one gone and not the other.

**`Billing`** has one goroutine per job. Each of its repository accesses and
events is an action; `kind` selects the path, which follows the four functions
`triggerSubscriptionLifecycle`, `triggerSubscriptionRenewal`,
`triggerInvoicePaidForSubscription` and `triggerInvoiceWaterfall`. `ClearNext`
is the reset, one repository a step. `told` is the history of a goroutine's events.

**`Checkout`** has, per request, the handler with its four accesses (`Read`,
`CreateSubscription`, `ReadSubscription`, `Save`) and the two goroutines it
starts.

**`PlanChanges`** computes amounts. Cents are integers, a quotient of durations
is rounded to one part in `Scale`, as the decimal package rounds to sixteen digits, and
`IntPart` truncates towards zero. A price may be unknown, or stored without an amount, and
then counts with a default that is not the same for an old price and a new one
(`AmountOr`); a subscription created directly has the periods its client gives, empty
and inverted ones included (`Subscribed`). Requests are atomic here; their interleaving
is the subject of `Subscriptions`.

**`WebhookDelivery`** models triggers (list, filter, submit), `UpdateWebhook`,
creation and deletion of endpoints, the pool's worker with its attempts, what
receivers do (answer, fail, or lose the answer), and `Drain`, `Close` and `Wait`. The
pool may be drained or closed at any time, also while goroutines still trigger events,
and a submission to it afterwards ends the process (`crashed`). `waited` is history: it
tells whether `Wait` has returned and no goroutine that it counts began since.

**`Resources`** holds what one request does to one document: creating, merging or
replacing metadata, expanding a reference. A field holds the number of the
request that set it last, so a document tells whose changes it shows, and a
reference is empty, an id, an object, or a placeholder.

**`Requests`** is the path of a request. `Refuse` is authentication and the parsing of
parameters, with the panic on a null body; `Create`, `Reread`, `Read`, `Write`,
`Retrieve`, `ExpandAsked` and `List` are the accesses of handlers to repositories;
`Finish` turns an error into a status as the dispatcher does, and `Answer`
marshals the object. `obj` is the heap: goroutine r works on the very object the
handler answers with (`Cell`), but for that of a new subscription, which fetches
its own. `Marshal`, `ExpandCustomer` and `ExpandProduct` make the copy for
the event, `Number` and `Stamp` are the two steps of `EventSequence`, which
`Requests` instantiates and implements, and `Save` is the lifecycle's write. The
answer of a subscription may be marshalled while the expander writes to its items
(`Marshalled`), and then shows anything. `read`, `serial` and `clashed` are history.

**`EventSequence`** has the two steps of `buildWebhookEvent`: take a number, read
the clock.

**`Store`** is an atomic map with calls and replies. **`Repository`** implements it with
`getLock` (look under the read lock, look again under the write lock, make the
lock) and the operations under the type's lock. The read-write lock is modelled
with a writer that announces itself, after which new readers wait, and then
drains the readers inside, as sync.RWMutex does.

`MC*` modules give the constants their values for TLC. `*Proofs` modules hold theorems.

## What is checked

Each component has one passing run, and the subscriptions have two, because the
properties of clients that wait need other bounds.

| Run | Bounds | Shows |
|---|---|---|
| `Subscriptions_all` | 3 requests, 2 at work at once with their goroutines, 1 reset, fair | `DocumentsCoherent`, `EventsOfSuccessOnly` and `CreatedAnnouncedFirst` hold in every interleaving; `SuccessIsAnnounced`, `LifecycleCompletes` |
| `Subscriptions_serial` | 4 requests, one at a time, two items, 1 reset | `OperationsAreAtomic` (refinement of `AtomicSubscriptions`), `LastEventIsCurrent`, `CanceledStaysCanceled`: what clients may rely on when they wait until nothing is at work |
| `Billing_all` | 2 goroutines of all six kinds, 1 reset, fair | `NothingHalfBilled`, `EventsFollowStore`, `StoriesAreTold`, `InvoicesAdvance`, `ResetForgets`, `JobsEnd` |
| `Checkout_all` | 2 requests for 1 session, 1 reset, fair | `RefusedStaysSilent`, `LinksLead`, `CompletionIsFinal`, `CompletionIsAnnounced`, `PurchaseIsBilled` |
| `Plan_all` | 2 items of one interval or 1 yearly one, 5 prices of which one is unknown, one yearly and one without an amount, periods given by the client, 2 changes, 1 renewal, 8 days of a period of 7 | `DueIsBounded`, `DifferenceIsPaid`, `ChangingBackRefunds` |
| `Delivery_all` | 2 endpoints, one of them created and twice updated, or updated and deleted, in the course; 2 event types, 2 triggers, 2 attempts; `Drain`, `Close` and `Wait` at any time; fair | order (`DeliveredInOrder`), accounting (`TasksAccountedFor`, `EachSubscriberOnce`), deletion (`DeletedIsSilent`), retries (`AcknowledgedIsFinal`), shutdown (`DrainCompletes`, `DrainEnds`), `TasksEnd` |
| `Repository_all` | 2 goroutines, 2 ids, 2 bodies, all calls, fair | `NoDataRace`, `Linearizable` (refinement of `Store`), `CallsReturn`, no deadlock |
| `Requests_all` | 3 requests of which the first is any of 19, the second one that meets it and the third a reset; 2 at work at once with their goroutines; 1 tick of the clock; fair | `RefusedLeavesNothing`, `EventTellsAnswer`, `StoreStaysBare`, `UpdatesAccumulate`, `ExpandedAsAsked`, `EventsSort` (the events of `EventSequence`), `SuccessIsTold` |

Each module has one type invariant, `TypeOK`, which also says what no type
does: that no one writes or announces a missing document, assigns to a map that was
never made, or bills twice. They are proved for all values of the constants, so no
run checks them again.

Four runs find a violation. Each checks one statement of a comment or of the
documentation that the code does not keep; `PROJECT.json` quotes it.

| Run | Statement | What happens |
|---|---|---|
| `Race_canceled` | `CanceledStaysCanceled` | the lifecycle goroutine's last write reactivates a subscription canceled meanwhile (`server.go:410`) |
| `Checkout_twice` | `OneSubscription` | two requests that both read an open session complete it: two subscriptions, one of which nothing links to (`gateway.go:338`) |
| `Delivery_drain` | `NoSubmitAfterStop` | `Wait` returns, the pool is stopped, and a goroutine outside the wait group submits to it, which panics; none that is counted began after `Wait` (`stripe_handlers.go:615`) |
| `Sequence_unique` | `Unique` | two events have the same stamp and id, when the clock ticks between a goroutine's number and its reading of the clock (`webhook_service.go:297`) |

Each of them needs things to overlap, and for each a theorem says what it takes for
the statement to hold after all: no two about to write one subscription at once
(`SubscriptionsProofs!OneByOneStaysCanceled`), no two requests at one session at once
(`CheckoutProofs!OneByOneBuysOnce`), no goroutine outside the wait group
(`DeliveryProofs!UntrackedIsToBlame`), one event made at a time
(`EventSequenceProofs!OneByOneUnique`).

### Other disagreements met while modelling

The models follow the code in these, too; none has a run of its own.

* An update that sets `cancel_at_period_end` and has bad items is refused after
  the first section was saved, and the saved part is never announced
  (`stripe_handlers.go:775`). `LastEventIsCurrent` holds only without such updates,
  which is what `ItemsComeAlone` says in `SerialLastEvent`: no property sees this loss.
* Two operations on one subscription that overlap lose one of the two writes
  (`gateway.go:584`), as do two updates of a customer, product or endpoint
  (`stripe_handlers.go:121`, `webhook_service.go:111`). No property says that this does not
  happen; `OneByOneIsAtomic` and `UpdatesAccumulate` say that nothing else goes wrong.
* The answer to an operation is read again after the write and may show another
  request's state (`gateway.go:604`); two concurrent pauses both succeed and are
  both announced (`gateway.go:681`); `subscription.created` may show a canceled
  subscription (`server.go:343`).
* A goroutine that outlives a reset stores an invoice after it (`server.go:362`).
* The charge announced for an invoiced plan change has an id that nothing
  stored has (`server.go:968`; `ChargeId` in `Billing`).
* `invoice.paid` may overtake `checkout.session.completed`: a sleep of 100 ms is
  all that orders them (`stripe_handlers.go:241`).
* A price created with `unit_amount` 0 is stored without one (`helpers.go:447`), and then
  counts 1000 cents as the old price of a change and 2000 as the new one
  (`gateway.go:1076`): changing to it and back does not refund.
* A client may give the two ends of an item's period, and nothing compares them
  (`helpers.go:885`): a period may be empty or inverted, and is then not prorated.
* The creation of an endpoint or a subscription ignores the metadata it is sent
  (`stripe_handlers.go:1166`; `SetByNew` in `Resources`).
* Of two items changed in one request only the last is prorated
  (`gateway.go:1045`); a change to another interval keeps the old period
  (`gateway.go:1049`), a renewal moves the first item only (`gateway.go:752`), and
  `create_prorations` invoices the unit price embedded in the first item, not the
  proration (`server.go:879`).
* With more endpoints than the list limit of 100, a subscriber may be left out
  (`server.go:200`). One receiver that never answers keeps all others waiting,
  for there is one worker and no timeout (`webhook_service.go:60`, `README.md:118`).
* A handler returns a status with its error, and the dispatcher does not look at it:
  every 400 a handler means becomes a 500 (`server.go:155`), while
  `stripe_handlers_test.go:1110` and others expect the 400 of the handler itself.
  `Finish` in `Requests` follows the dispatcher.
* A copy is made "to avoid racing with the original resource" (`api_helpers.go:62`),
  but the items of a subscription are not copied: the expander writes into the
  object that the handler is answering with. The answer may show the product of a
  price as an id, an object, or something between the two.
* `checkout.session.completed` is sent as it is, not expanded
  (`stripe_handlers.go:206`); the test "checkout.session.completed has expanded
  subscription" (`webhook_test.go:490`) wraps it by itself.
* A product that was expanded is an id again when its price is expanded after it,
  although a comment says that it is kept (`stripe_handlers.go:971`).
  `ExpandedAsAsked` makes an exception of this order.
* A JSON body of `null` with parameters in the URL panics (`server.go:616`).
* The configuration a client is answered with has an id nothing stored has: the
  repository gives a new one (`stripe_handlers.go:347`, `repository.go:59`).
* `ListWebhookEndpoints` applies cursors to a list whose order is that of a Go map
  (`gateway.go:868`).
* The routes of the OpenAPI specification are registered with methods in lower
  case (`server.go:84`), which no ordinary request has, so the generator is not
  reached through them; `validateAndCoerceRequest` computes a schema and returns its
  input (`server.go:671`).
* "Proper event sequencing" (`README.md:121`) is of stamps only: each event is made
  by a goroutine of its own, so two updates made one after the other may be announced
  the other way round. `EventsSort` speaks of the order in which events are made.
* The quantity of an item update is read and never applied (`gateway.go:999`).

### Why the bounds are enough

The races are between two actors over one document; three requests are
enough to have one that creates and two that work on its subscription, and
goroutines count as being at work, so a request meets the goroutine of another.
A reset clears its repositories one by one, so one reset falls between any two
steps of everyone. Of three requests in
`Requests_all` the first is any, the second meets it and changes what it is about, and
a reset takes both their documents away; a subscription may be one without a customer.
Two endpoints and two triggers give two tasks to each endpoint, which is what order
needs. Two attempts have a first, which may be retried, and a last. In `Delivery_all` one
endpoint is there from the beginning and stays as it is (`MCInit`), and all changes
(`ThreeAndOne`) are for the other: being set up, its filter and status being updated, and
deleted, each between any two steps of the rest, which is enough to tell an endpoint that
changes from one that does not. With a list limit as large as the number of endpoints
nobody is left out. Two changes of a plan can undo each other, or replace the first item; the amounts and the length of a period have no common
divisor, so no proration is whole. `Scale` is 1000 to keep TLC's integers small,
which makes rounding coarser than the code's, not finer. All
bounds are constants named in the modules. `CHECK_DEADLOCK FALSE` stands in the
configurations of models whose clients eventually stop: a finished run is no
deadlock. `Repository` is checked for deadlock.

### Fairness

Weak fairness of each handler's and goroutine's own steps: the Go scheduler runs
every runnable goroutine, and none of these steps can be disabled by another
actor for ever. Arrivals, resets, endpoint changes, `Drain` and `Close` are the clients'
choice and not fair, with the exception of a reset that has begun, which ends. In
`WebhookDelivery` the receivers in `Responsive` answer in the end (the code has
no timeout of its own); `Delivery_all` takes all of them to be.
In `Repository` fairness is strong, for a step that waits for a lock is enabled
and disabled again as others come and go; sync.RWMutex gives this guarantee by
letting waiting readers in when a writer leaves and new readers wait behind an
announced writer.

## What is proved

| Theorem | Says |
|---|---|
| `SubscriptionsProofs!TypeCorrect` | `Spec => []TypeOK` for any number of requests, goroutines and resets |
| `SubscriptionsProofs!Coherence` | `Spec => []DocumentsCoherent` |
| `SubscriptionsProofs!SuccessOnly` | `Spec => []EventsOfSuccessOnly` |
| `SubscriptionsProofs!CreatedIsFirst` | `Spec => []CreatedAnnouncedFirst` |
| `SubscriptionsProofs!OneByOneIsAtomic` | `Spec /\ []OneByOne => OperationsAreAtomic`, that is, `Subscriptions` implements `AtomicSubscriptions`, for any number of requests at once |
| `SubscriptionsProofs!OneByOneStaysCanceled` | `Spec /\ []OneByOne => CanceledStaysCanceled` |
| `SubscriptionsProofs!SerialLastEvent` | if `MaxInFlight = 1` and `ItemsComeAlone`: `Spec => []LastEventIsCurrent` |
| `RepositoryProofs!RaceFree` | `Spec => []NoDataRace` for any set of goroutines |
| `RepositoryProofs!NobodyIsStuck` | `Spec => []SomebodyRuns`: while anybody waits for a lock, somebody inside a call can go on |
| `RepositoryProofs!TypeCorrect` | `Spec => []TypeOK` |
| `RepositoryProofs!Atomic` | `Spec => Linearizable`: `Repository` implements `Store` |
| `CheckoutProofs!TypeCorrect` | `Spec => []TypeOK` for any number of requests, sessions and resets |
| `CheckoutProofs!Silence` | `Spec => []RefusedStaysSilent` |
| `CheckoutProofs!Links` | `Spec => []LinksLead` |
| `CheckoutProofs!Final` | `Spec => CompletionIsFinal` |
| `CheckoutProofs!OneByOneBuysOnce` | `Spec /\ []OneByOne => []OneSubscription` |
| `EventSequenceProofs!TypeCorrect` | `Spec => []TypeOK` |
| `EventSequenceProofs!Sorted` | `Spec => []SortedByTime` |
| `EventSequenceProofs!OneByOneUnique` | `Spec /\ []OneByOne => []Unique` |
| `RequestsProofs!TypeCorrect` | `Spec => []TypeOK` for any number of requests and any inputs |
| `RequestsProofs!Refusals` | `Spec => []RefusedLeavesNothing` |
| `RequestsProofs!Events` | `Spec => []EventTellsAnswer` |
| `RequestsProofs!Bareness` | `Spec => []StoreStaysBare` |
| `RequestsProofs!Expanded` | `Spec => []ExpandedAsAsked` for `expand[]` of any length |
| `RequestsProofs!Accumulation` | `Spec => []UpdatesAccumulate` |
| `RequestsProofs!Stamping` | `Spec` implements `EventSequence` |
| `RequestsProofs!Sorting` | `Spec => []EventsSort`, from `Stamping` and `EventSequenceProofs!Sorted` |
| `BillingProofs!TypeCorrect` | `Spec => []TypeOK` for any goroutines, subscriptions and resets |
| `BillingProofs!NothingIsHalfBilled` | `Spec => []NothingHalfBilled` |
| `BillingProofs!StoreIsAhead` | `Spec => []EventsFollowStore` |
| `BillingProofs!StoriesUnfold` | `Spec => []StoriesAreTold` |
| `BillingProofs!InvoicesOnlyAdvance` | `Spec => InvoicesAdvance` |
| `BillingProofs!ResetIsFinal` | `Spec => ResetForgets` |
| `DeliveryProofs!TypeCorrect` | `Spec => []TypeOK` for any endpoints, triggers and attempts |
| `DeliveryProofs!InOrder` | `Spec => []DeliveredInOrder` |
| `DeliveryProofs!NoTaskIsLost` | `Spec => []TasksAccountedFor` |
| `DeliveryProofs!DrainIsComplete` | `Spec => []DrainCompletes` |
| `DeliveryProofs!AcknowledgedOnce` | `Spec => AcknowledgedIsFinal` |
| `DeliveryProofs!UntrackedIsToBlame` | `Spec => [](waited /\ crashed => \E k \in Untracked : trig[k].pc = "deliver")`; so `[]NoSubmitAfterStop`, if `Untracked = {}` (`TrackedIsSafe`) |
| `DeliveryProofs!DeletedForGood` | `Spec => DeletedIsSilent` |
| `DeliveryProofs!OnceEach` | if the endpoints are at most `ListLimit`: `Spec => []EachSubscriberOnce` |
| `PlanProofs!TypeCorrect` | `Spec => []TypeOK` for any prices, plans, lengths, periods and changes |
| `PlanProofs!Bounded` | `Spec => []DueIsBounded` |
| `PlanProofs!DifferencePaid` | if `SmallAmounts`: `Spec => []DifferenceIsPaid` |
| `PlanProofs!Refunds` | `Spec => ChangingBackRefunds` |

They assume what the modules assume of their constants (the `ASSUME`s, which TLC
evaluates in every run). Some state a condition besides, because without it the code
does not do what they say:

* `[]OneByOne` says of an execution that no two are at the same thing at once: about to
  write one subscription (`Subscriptions`), at one session (`Checkout`), or making an
  event (`EventSequence`). All else may overlap: readers, answers, announcements, requests
  for other subscriptions, resets. The violations of `Race_canceled`,
  `Checkout_twice` and `Sequence_unique` have no other cause. Nothing in the
  code sees to it; a client of the API can, by waiting for the `active` of a
  subscription and for the answers to its own requests about it.
* `MaxInFlight = 1` is a client that waits for everything, also for the goroutines, and
  `ItemsComeAlone` says that an update of items does not set anything else, for such an
  update may be refused when half of it is saved and announced by nobody. Only
  `SerialLastEvent` needs them. `Subscriptions_serial` makes only such updates.
* `Untracked` are the goroutines that do not join the wait group. `UntrackedIsToBlame`
  assumes nothing of them, of when the pool is drained or closed, or of when goroutines
  begin: if the process ends although `Wait` had returned and no counted goroutine began
  since, one of `Untracked` was just submitting. So the violation of `Delivery_drain`
  has one cause. Without `waited` in it `NoSubmitAfterStop` would blame the tests that drain
  without waiting, which is not what the comment of `Wait` promises.
* `Cardinality(Hooks) <= ListLimit` says that there are no more endpoints than the
  gateway lists: 100 (`server.go:200`).
* `SmallAmounts` says that no price is more cents than `Scale`, the parts a ratio
  is counted in. The code rounds a ratio to sixteen digits, so it speaks of prices
  up to 10^16 cents. Above it the error of a rounded ratio would exceed
  half a cent, and `DifferenceIsPaid` allows a cent and a half for each change.

*Coherence.* That stored documents are coherent is not inductive: a write stores
a copy a handler has held for long. `IInv` says that every copy is coherent too, in
handlers, goroutines and events, and that a copy is there where a step will use
it. The first lemmas of `SubscriptionsProofs` show that each operation turns a coherent document
it accepts into a coherent one (`ApplyCoherent`). Nothing is said of which copy is
newer, so the theorem covers all lost updates.

*Announcements.* A goroutine's place tells which of its at most two events are out
(`Accountable`), so none comes twice. `created` is first because until it is out
nothing known of the subscription, in the store or in any handler's copy, is active
or paused (`Quiet`): no call a handler makes wakes such a document (`StaysDormant`),
requests to pause or resume it are refused, and only its own goroutine activates it,
after the announcement. That a request arriving before the creation cannot name the
subscription is `NamesKnown`.

*Writes one by one.* `AtomInv` says of everybody who is about to write: the copy a
handler holds is its operation's result on what is stored now (`WritesCurrent`), and the
lifecycle's copy is the stored document, still incomplete (`Waiting`). Another writer of the
same subscription would break both, and is what `OneByOne` excludes; writers of others and
readers do not. The write is then `Operate` of `AtomicSubscriptions`, and all other steps
but creations and resets stutter. With `MaxInFlight = 1`, one thing is at work
(`OneAtWork`), which implies `OneByOne`.

For `LastEventIsCurrent`, `ToldInv` says of every subscription in the store that either
the last event about it shows it, or a request is at work that will yet announce what is
stored (`ToldOrPledged`): one that passed its checks or whose goroutine has events
left. Nobody breaks such a promise: after the first operation of an update
none can be refused (`CallsFollow`, which needs `ItemsComeAlone`), and what a
goroutine announces is what is stored (`HoldsCurrent`).

*Race freedom.* `LockInv` says that the table of locks is only written under its
write lock and only while empty (`TableGuarded`), so that there is one lock
(`OneLock`), and that whoever is past it holds it (`MapGuarded`).

*Progress at the locks.* `HeldInv` is the converse of `LockInv`: whoever has one of the
locks is between the call that took it and the one that gives it back, and holds it in
the mode of its call. So behind every lock somebody waits for there is a reader,
which waits for nobody, or a writer that waits for readers at most (`HeldRuns`).
This is absence of deadlock for any number of goroutines; that every call
returns also needs fairness, and is left to TLC (`CallsReturn`).

*Atomicity.* The refinement maps the abstract store to the resources, with a map
that was never made as the empty one, and a call takes effect at its access.
`CheckedStill` carries what an operation saw in its check over to its access:
the check cannot have become wrong, because the lock is held. Each action is
then a step of `Store` or a stutter. This is what entitles the other modules to take an
access to a repository as one step.

*Checkout.* `LinksLead` needs to know what each request in flight holds: `IInv` says
of every request that its copy links to nothing or to its own subscription, which is
there unless a repository was cleared since it arrived (`Linked`), that one about to
save a subscription session has a link (`Saving`), that only a completed one has
goroutines, and events and invoices are theirs (`Silent`), and that a session some
request completed is complete or gone (`Closed`), since nothing reopens a session. From
`Closed` follows `Final`: `Late` says what remains true of a request that arrives after
a completion, which `Read` must refuse. If requests are at a session one by one,
`OnceInv` holds too: who is past its check finds no subscription of its session but its
own (`Alone`), and once it has finished the session is closed and links to it
(`BoughtOnce`). A request that has created its subscription is refused only
when a reset took the session away, and then nobody completes it any more.

*Requests.* The properties are about what is stored and told, and what is stored was
once an object on the heap, so `IInv` follows a request all the way: which places
of handler and goroutine go together (`Flow`), what is stored under an id with which
references (`Documents`), what an object that will be written or answered with
holds (`Held`), that it shows an update of what was read (`Basis`), and that the copy
for an event, and the event, agree with the object in what expansion does not
touch (`Payloads`, `Told`). No field anywhere has the number of a request that has not
yet written (`Blanks`), nor of one that was refused (`Documents`), which is the first
property. That the number and clock of the goroutines' steps are
those of `EventSequence` is a refinement with the identity as mapping, and carries its
theorem over. For `ExpandedAsAsked`, `Expansion` keeps count: of the names in
`expand[]` the first k are done, those and no others show in the object
(`AsFar`), and the rest are to do (`LeftAfter`). A product takes two steps, its
price first, which is the exception in the middle.

*Billing.* A goroutine's kind and place determine how much of its story it has told
(`Follows`, `Pace`), and what it must have stored unless a reset took it (`InStep`,
`Whole`). These are facts of one goroutine at a time, and no step of another
disturbs them (`Others`); the resets are the only steps that touch them all. The
action properties come from the same invariant.

*Deliveries.* Tasks are numbered as they are submitted. With one worker, the
queue holds the last of them (`QueueIsRest`), the worker is at the one before
(`WorkerIsNext`), all earlier ones are acknowledged or exhausted, not both
(`RestIsSettled`), and receivers have seen only tasks that were taken, in their order
(`ReceivedTaken`). Order, accounting and completeness are corollaries.
`EachSubscriberOnce` speaks of the endpoints that nobody changed since the trigger listed
them (`steady`), whatever happens to others: such an endpoint is as it was listed, and
was listed if the limit allows (`ListedFirst`), and the trigger has queued one task
for it if it subscribed and it is through with it, and none otherwise
(`SteadyServed`). For `DeletedIsSilent`: a deleted id does not come back, for `UpdateWebhookWrite`
finds it gone, and what the worker sends is a task it began to send before
(`TasksAsSubmitted`), so what a receiver got and what is on its way to it only grow
together with a start, which looks the endpoint up. `WaitInv` says that after `Wait` and
until another begins, no counted goroutine is inside a trigger; only those inside submit.

*Plan changes.* Bounds need that a quotient of what is left by the whole is at most
`Scale` parts (`RatioBounds`, `PartBounds`) and that finitely many prices have a dearest
one (`GreatestAmount`, by a least set without one). Refunds need that an update
that deletes nothing leaves items in their places (`UpdatedInPlace`), that the price
prorated last is then the one that changed (`WhatIsProrated`), that the proration back
has the opposite sign (`ProrationBack`), and that truncation treats both signs alike
(`IntPartIsOdd`). This is for prices with an amount (`AllPriced`), as the defaults of
old and new price differ. `DifferenceIsPaid` adds up what items cost with a recursive function,
`CostOf`; what the proof needs of such sums, that changing one item changes the sum by
the difference, follows from the least number for which it would fail. What a change
is invoiced with is then off by what rounding its quotient and truncating its amount
cost, a cent and a half at most (`ChangeOff`). Items that could be prorated exactly so far
are monthly and in their first period (`PlainItems`).

*Stamps.* `SortedByTime` needs that all stamps are at most the clock plus their
number (`StampsArePast`) and that a number taken later is greater (`NumbersGrow`). If
events are made one by one every event is later than all before it (`AllBefore`), so
their stamps, being sorted, differ.

Only model-checked: the liveness properties, for fairness and ENABLED are out of the
prover's reach. These are `SuccessIsAnnounced` and `LifecycleCompletes`, `JobsEnd`,
`CompletionIsAnnounced` and `PurchaseIsBilled`, `TasksEnd` and `DrainEnds`,
`CallsReturn`, and `SuccessIsTold`. Every invariant, action property and refinement
that a passing run checks is stated by a theorem. No module of the project
declares a RECURSIVE operator.

## What is not modelled

* OpenAPI validation, the mock data generator, the routes generated from the
  specification, start-up: sequential code about data, and most of it not reached
  by any request, as described above.
* Parameter helpers (`helpers.go`): nine hundred lines that copy fields of a request into
  a document, one by one. `Resources` keeps which request set a field, not its value.
* `gen.go` holds 143798 of the 149969 lines of the implementation. They are
  generated structures with their unmarshalling, have no behaviour of their own, and
  are represented by the fields the models keep.
* Sessions of the billing portal: generated for the answer, stored nowhere.
* The expanders of invoices, charges and sessions: they work like that of
  subscriptions, on objects nobody else holds.
* Cursors of `ListWebhookEndpoints`: nothing is promised that they keep.
* Day and week intervals, interval counts, quantities (which
  `UpdateSubscriptionItems` reads and never applies), currencies, signatures
  of deliveries, and JSON.
* Items created without a price, negative unit amounts, and the empty period of
  `current_period_start` 0, which the code takes for one not given.
* Receivers that never answer: they are in the model (`Responsive`), but no run has one,
  for the one worker then waits for ever, as described above.
* Ids are fresh: ten random characters do not collide.

## Plan

Done: all components that have state, and theorems for all that is safety.

Next: a composition of `Billing` and `WebhookDelivery`, for the order in which
receivers get the events of one waterfall. It would follow from `StoriesAreTold` and
`DeliveredInOrder`, with a trigger for each event of a story.
