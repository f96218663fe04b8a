# Health checks of a load balancer: TLA+ models and proofs

The repository is a load balancer's health checking in two halves:

* **nginx** (tengine) with the `ngx_healthcheck_module`: worker processes check
  the servers of every upstream, over http or stream, and keep the result of
  each peer in shared memory. A status page publishes it.
* **the controller** (`controllers/lbhc`), one per node of a Kubernetes cluster:
  it polls `/status?status=down`, keeps what is down in a custom resource
  (`Lbhc`), moves the addresses of `Endpoints` objects between `Addresses` and
  `NotReadyAddresses` accordingly, and writes the upstream files of nginx from
  the Endpoints and reloads it.

Together they form a loop: Endpoints -> upstream files -> nginx's checks -> status
page -> Lbhc -> Endpoints. This directory models the parts of the loop, checks
them with TLC on small instances and proves the main safety properties with
TLAPS for every value of the constants.

In what follows **H** is `ngx_http_upstream_check_module.c`, **S** is
`ngx_stream_upstream_check_module.c`, **ST** is `ngx_healthcheck_status.c` (all in
`src/tengine-master/ngx_healthcheck_module/`) and **C** is
`src/controllers/lbhc/lbhc_controller.go`.

## Parts and modules

| part | source | module |
|---|---|---|
| check of a peer by the http workers | H | `HttpUpstreamCheck`, proofs in `HttpUpstreamCheck_proofs` |
| the same for stream | S | `StreamUpstreamCheck`, proofs beside those of http |
| counters and status of a peer | H, S `status_update` | `PeerStatus` (abstract), `StatusHistory` (documented meaning), proofs in `HttpAnswers_proofs` |
| workers implement the counters | H | `HttpStatusRefinement`, `HttpStatusRefinement_proofs` |
| the http parser, and checks over kept connections | H, `ngx_healthcheck_common.c` | `HttpParse`, `HttpAnswers`, `HttpParse_proofs`, `HttpAnswers_proofs` |
| zones and reloads | H, S `init_shm*` | `ShmReload`, proofs in `SharedRecords_proofs` |
| status page, json | ST | `StatusPage`, proofs in `SharedRecords_proofs` |
| poll, Lbhc, Endpoints | C | `LbhcSync`, `LbhcSync_proofs` |
| services, pods and the addresses of Endpoints | C | `VsEndpoints`, `VsEndpoints_proofs` |
| upstream files, nginx control | C | `NginxConf`, `NginxConf_proofs` |

`MC*` modules hold what an instance needs: sets of configurations, answers and
symmetry, and the histories that properties speak of: in `MCLbhcSync` what nginx has
reported and how the lease moved during a poll, in `MCLbhcWithdraw` what the event filter
let pass, in `MCShmReload` which records changed after they were copied.

Not modelled (reasons in `PROJECT.json`): the directives and the merging of
configurations, the fastcgi, ssl, mysql and ajp parsers, the html, csv and
prometheus pages, several subsets of an Endpoints, the search for the leader of an
address (C:2498-2537), `main.go`, the HTTP client, generated clients, manifests, and
the vendored web server, whose event loop, timers and process control appear only as
steps of the modules that lean on them. That web server is about 200,000 of the repository's
205,000 lines, so the models cover little of the whole: what they cover is the
health check module and the controller, some 10,000 lines of which most of the
rest is reading directives and formatting pages.

## The models

### HttpUpstreamCheck and StreamUpstreamCheck

One peer and the workers that share its record (`owner`, `access_time`, the
counters, `down`). Peers share no state, so one stands for all. A handler runs to
its end in its worker but other workers run beside it, so it is cut at every
access to shared memory whose order matters: `begin_read` (H:951, the interval is
read without the lock), `begin_lock` (H:959-984), `begin_return`; the three
steps `status_load`, `status_store`, `status_publish` of `status_update`, which takes
no lock; `clean_event`. The network decides what peek, send and receive return; a
protocol parser is one of the outcomes ok, error, again. Workers die anywhere
outside the lock, quit (`clear_all_events`), and are replaced.

Time is kept as ages in ticks of half a check interval, the period of the
timer. `lag` is how far a worker's cached `ngx_current_msec` is behind: the
unsigned difference at H:951 then wraps and looks like a very long interval, and
the model treats it so. Ages and counters saturate where no comparison of the
code can tell further values apart. The test of the generation at H:961 is left
out, because it never fails: `init_shm` sets the counter and `http_peers_ctx` together
(H:3523, H:3544), both are private to a process, and a worker compares the counter
with the number in the zone of the very peers it was forked with. After a rejected
reload the master's counter is one higher, but its `http_peers_ctx` then points to the
peers of the rejected configuration, whose pool is gone: a worker it starts before the
next reload reads freed memory (H:3544 in the list of hazards). The models of the
checks therefore speak of workers that are not started in between.

`StreamUpstreamCheck` defines a handler that equals its http counterpart by it, and
writes out the ones that differ: `connect_handler` without clean-up after a
connection that fails at once (S:712), udp, whose timeout is a success, and no
kept connection for tcp.

### PeerStatus, StatusHistory, HttpStatusRefinement

`PeerStatus` is `status_update` as one step. `StatusHistory` adds the results of
all checks and states the README's definition of rise, fall and default_down over
them. `HttpStatusRefinement` maps the workers' record to `PeerStatus`: a result
counts from the moment it is loaded. Its `PunctualSpec` is the specification of the
workers with event loops that handle every timer in the tick in which it expires.

### HttpParse and HttpAnswers

`HttpParse` is the receive buffer of `recv_handler`, the state machine that parses the
status line and the header, and `http_parse`, which judges code, Content-Length and
body. Characters are the classes the parser tells apart; a Content-Length header is
one character, the text the body expression matches another. `Scan` is the parser's loop, as
a recursive function of how much of the buffer it is done with. Three oddities of the
code are kept: a full buffer is replaced by a larger one and the position goes back
to its start (H:1314), `found_body_len` is not initialised (H:1460), and a length that
cannot be read is the largest number there is (H:1466).

`HttpAnswers` runs checks of one worker with it. The peer answers with a response (any
code, length and body of `Responses`, in a header as servers write it) or with another text, in
which no header ends (`OtherTexts`: a response cut short, or no http). An answer comes in any
pieces, the
peer may close at any time, sends and reads fail, the timer expires; the connection
is kept or not as in `clean_event`, and what was not read of an answer is still to come
on a kept one, where `discard_handler` throws it away if it comes before the next
check. The results are counted as in `StatusHistory`, which it extends.

### ShmReload

The master's generation counter, the running configuration, its zone and its
records. `reload` numbers a zone and lets each peer inherit the record
`find_shm_peer` finds in the zone before; `start_worker_processes` switches to the zone
that was built. Between the two the old workers check on (`check_peer`), and what they
write to their records is not in the copy. A record is copied, and a check counted, in one
step. `reload_rejected` is a configuration that fails after `init_shm`. `ByUpstream` tells the stream module (search by
upstream and address) from the http one (address alone). The branch for an
unchanged zone is never taken, as no two generations share a name.

### StatusPage

The two passes of the json page over the http and stream peers, while workers
change them. The page is its two lists; what a server line holds is left out, the
comma after it is kept.

### LbhcSync

The poll (`SyncHealthCheck`, `eventOpt`, `noneEventOpt`), the worker of the queue
(`Reconcile`, `modifyEpBaseOnLbhc`, `cleanHcBaseEpUpStatus`), the event filter
(`syncLbhcWithEndpoints`) and the informer, over the API server's Lbhc and
Endpoints. Each read and each Update is a step. Choices:

* one service, with one subset, so a lost lease concerns all entries;
  `holder` stands for the kube-vip lease or the leadership, whichever counts;
* a version is compared only with the server's, so a copy carries `current`; an
  Update of a copy that is not current conflicts, and `RetryOnConflict` sends the
  same copy again, so it fails;
* a failed or unreadable poll changes nothing; the payload is read at once
  (`StatusPage` treats its passes);
* `eventOpt` is the read of the Lbhc, a turn of its loops for every server of the answer
  (`eventOpt_entry`) and the comparison before the Update. `checkSvcIsValid` reads the
  lease in each turn, and the lease may move at any time, as often as it likes;
* `Refused` with `Faulty` is any other error of an Update, a failed Create has an
  action of its own; both draw on `MaxFaults`, as do writes of other programs and
  restarts;
* there is no periodic resync: the filter drops updates that change no version;
* events of an Endpoints beyond `MaxEvents` coalesce: the filter reads the current
  state, not the event.

### VsEndpoints

Who lists a pod in the Endpoints of its service, and takes it out: the event filter
on pods, the event filter on the service and the worker (`Reconcile`). Each reads the
Endpoints, changes its copy and sends it back, as a step each, while the others do
the same and a health check moves addresses between the two lists. The cluster
creates, starts, labels and deletes pods and changes the label of the service; the
controller is restarted and sees everything again as Create events. Choices:

* one service with one subset; a pod is pending, running or gone, and stands for its
  address; a list says how often it has each address. Ports, node names and
  references to pods are left out;
* what `Reconcile` reads of pods and services comes from the informers' caches: any
  version from that of the last event handled on. The Endpoints are read from the
  server, the cached copy that decides `AddFails` included;
* a copy of the Endpoints carries `current`, as in `LbhcSync`; an Update that changes
  nothing makes no version and no event. An Update without version, made when
  the Endpoints were not found, always succeeds and replaces what is there;
* the two Gets of `updateEpInfo` and `_updateEp` are one step; the Get of the service and
  that of the Endpoints are separate steps;
* one worker (`MaxConcurrentReconciles` is left at 1), and one goroutine per informer
  for the filter. A key whose Reconcile fails is queued again.

### NginxConf

The upstream files as, per service, the sequence of its blocks; a block is the
address list it was built from. Three threads: the worker rewrites the blocks of an
Endpoints, the filter removes those of a deleted one, the poll reloads when nginx
is silent. Reading the configuration and writing one file are single steps;
between them anything may happen. `nginx -s reload` tests the files and signals;
the master reads them later; `nginx -s stop` is not followed by a start; nginx
refuses a configuration with an upstream defined twice. An initial state is at
rest, with any Endpoints. `CHECK_DEADLOCK FALSE`: when the bounded changes are used
up and all is done, the model has nothing left to do.

## What the runs check

| run | what it shows |
|---|---|
| `http_tcp` | two workers, clocks a tick apart: an owner is checking, no check is restarted, each has its timeout |
| `http_exclusive` | three punctual workers, no keep-alive, an `access_time` written at the start or as long ago as the proof allows: one checker at a time, and the record implements `PeerStatus` |
| `http_live` | a worker lost in the middle of a check, twice: its successor takes the peer over after 16 intervals; no connection carries more requests than it may |
| `stream_live` | two workers, one of which may be lost: as long as both live, the owner a failed connection leaves behind is taken over from; no check restarted or without timeout |
| `http_answers` | eight answers, whole and broken, in any pieces over kept and new connections: the verdict is that on the whole answer, no check waits for more of a complete one, none leaves part of a judged body to the next; after five checks with any results the status is the documented one |
| `reload_stream` | `default_down` set, old workers checking on during a reload: a stream peer that stays keeps its record as it was copied, and is taken down by its failures, or by a reload in the two cases listed below |
| `status_page` | the json page lists only peers that had the wanted status during the request, and all that had it throughout; well-formed when nothing changes |
| `lbhc_marks` | two backends, `rise_count` above 1, a lease that moves during a poll: no down entry lost but in the case listed below, none set to true before nginx has counted a success |
| `lbhc_withdraw` | a backend that stays down ends up out of service, after lease moves, foreign writes, failed Creates and restarts, but for an event missed while another node had the lease |
| `nginx_conf` | with acceptable files nginx ends up running, whichever thread stops it; without deletions it runs what the Endpoints ask for and no upstream is ever defined twice |
| `endpoints` | two pods and three threads that conflict, with a restart: no address is listed twice or lost to another writer, a pod whose key is queued ends up listed, the label of the service reaches the Endpoints |

One run, `lbhc_stuck`, expects a violation. `noneEventOpt` (C:1017) marks the kept copy
before the Update; after a conflict the entry stays down for good, against the
comment that `PROJECT.json` quotes under findings.

### Where the properties end

The properties above carry the conditions under which the code keeps them. What
happens outside, and how to see it:

* **Take-over at once** (H:969-976). A claim does not write `access_time`, so a peer
  whose record was not written for 16 intervals, a new one included, is claimed by
  one worker and taken over by the next. `AtMostOneChecker` fails with
  `InitAges = {28}` in `HttpExclusive.cfg`, one tick more than `OneChecker` allows: the
  check that begins at that age is still under way when the record is 16 intervals old.
* **A stream connection that fails at once** (S:712) is not cleaned up after: the worker
  stays the owner of a peer it does not check, until another worker takes over: a worker
  does not take over from itself (S:618). `StreamPeerKeepsBeingChecked` therefore asks for two workers
  that stay alive; `PeerKeepsBeingChecked`, the http property, which asks for one, fails in `StreamLive.cfg`.
* **Answers that are not clear**. `VerdictIsReference` and `AnswerIsJudged` fail without
  `Clear`: an answer longer than the first buffer is parsed again from its start in
  the state the parser had reached (H:1314); without a readable Content-Length the
  body is waited for until the timeout, or judged by an uninitialised variable
  (H:1460); and with no expected body an answer is judged when its header has come, so that
  the rest may be parsed as part of the next answer.
* **Servers shared by http upstreams** (H:3788). The http module finds an old record by
  address alone. `StatusSurvivesReload` fails with `ByUpstream = FALSE` in
  `ReloadStream.cfg`.
* **A rejected configuration** (S:1884) uses up a generation, so the next reload finds no
  zone to inherit from and every record starts afresh, so that with `default_down`, the
  default, every peer is down at once. `DownOnlyByFailures` names the case
  (`zone' > zone + 1`), `StatusSurvivesReload` leaves it out.
* **Checks during a reload** (H:3642). What the old workers count after the records were
  copied is lost: the new workers go on with the copy, and a peer that came up in between is
  down again. Both properties except the peers in `late`.
* **Commas of the json page** (ST:700) follow the count of the first pass; a peer that
  changes before the second leaves a page the controller cannot parse.
  `PageWellFormed` fails without its condition `ever = always`.
* **A rising peer** (C:918) is skipped before it is recorded as down, so its entry turns true
  after one success, not after `rise_count` of them: `MarkedUpOnlyAfterSuccess` says no more.
* **A lease that comes back during a poll** (C:912, C:432). `checkSvcIsValid` drops all entries
  of the service at the server it says no to (C:1068); when it says yes to a later one,
  that one is the only entry left, and if it differs from what was read the Update forgets the others.
  `DownMarkSurvives` excepts it (`lease = "regained"`). When the answer stays no, nothing
  is written: `compareMaps` looks only at the keys of the new map, which is empty.
* **Endpoints changed under another lease** (C:326). The event filter passes over a change of the
  Endpoints while another node answers for the service. When the lease comes back nothing
  looks at it again, so an address that another program has put back stays in
  service until the Lbhc changes. `DownIsWithdrawn` excepts it (`missed`).
* **A failed Update of the Endpoints** (C:1258) is logged and not repeated. `DownIsWithdrawn`
  fails with `Faulty = TRUE` in `LbhcWithdraw.cfg`.
* **Forgotten entries** (C:1187). `cleanHcBaseEpUpStatus` drops a recovered entry even when the
  event filter, with an older copy of the Lbhc, has just withdrawn its address again.
* **Two writers of the upstream files** (C:1869). `NginxFollowsEndpoints` and `NoUpstreamTwice`
  fail without `WithoutDeletions`: Reconcile and the Delete event write back copies
  that are out of date.
* **Addresses that stay, or come back** (C:2061, C:260). A conflict of `deleteEp` is logged and not
  tried again, and a Reconcile that read the pod from its cache before the deletion
  adds the address again. No property says that the address of a deleted pod goes.
* **Endpoints that were not found** (C:2149) are sent without a version and replace what
  another thread has created since: the second disjunct of `NoAddressLost`.
* **Create events** (C:514, C:484). The address they add is not tried again after a conflict, and
  an error while a service's pods are added drops the key. `QueuedPodListed` fails without `p \in queue`.
* **Endpoints without addresses** (C:222) make Reconcile fail before it reaches the labels.
  `LabelsFollow` fails without `<>[]~AddFails`.

### Bounds

Two workers show every claim, take-over and release between processes; three are
used where the property is exclusion. A process id is used once, and `MaxGone`
bounds the losses. `CheckInterval` is two ticks, so that a take-over waits 32;
`http_tcp`, `http_live` and `stream_live` start with a record old enough to be
claimed. Thresholds of 2 and 3 tell counting from resetting; the runs about
ownership use 1, since ownership does not depend on the counters. `MaxReloads = 4`
allows three reloads, so that a record is inherited from an inherited one or a
rejected reload comes between two others. Two backends
are needed for one to recover while another is down; `MaxLag` and `MaxEvents` of 1
let a copy be out of date. The poll of `lbhc_marks` begins with the cache up to date
(`Prompt`); Reconcile may write after that, so that the poll's copy is out of date when
it is sent, and the property fails there if such an Update is accepted. That run leaves the
event filter and restarts to the proof and to `lbhc_withdraw`, which has one backend, any cache and two faults. Two services and two
changes in `nginx_conf` allow an update of one beside the deletion of the other, or
a crash in the middle of an update. In `http_answers` `BufSize = 25` is a little more than a
usual answer, so that the answer with a longer body than announced enlarges the
buffer; two requests per connection let one be kept, used again and closed; five
checks pass both thresholds. In `endpoints` two pods let one thread add an address
while another adds or removes a different one; one change and one restart from
any of 17 initial states, in which a pod may be pending or running, listed or
not, and the service and its Endpoints there or not. The safety properties
were also checked with two changes and no restart. Symmetry is used only without liveness.

### Fairness

Handlers of nginx do not wait, the check timer is re-armed by every run of
`begin_handler`, an expired timeout is handled and time passes: weak fairness on
these; nothing is assumed of the network, of crashes or of the master. In the
controller `wait.Until` repeats the poll, the informer delivers, the filter and
the worker serve their events: weak fairness on each thread. In `NginxConf` a key
that fails is queued again behind the others, so `Reconcile(s)` is strongly fair for
each service. In `VsEndpoints` events are delivered and the three threads go on (weak
fairness on each), and the work queue hands out its keys in turn: a key that is
queued again and again is taken in the end, strong fairness on `Take(k)`. Nothing
makes an Endpoints change, a lease move or nginx crash.

## What is proved

TLAPS checks the proofs in the eight `*_proofs` modules, for all values of the
constants the named assumptions allow. These are in the modules that declare the
constants, and TLC evaluates them in the runs.

* `HttpUpstreamCheck_proofs`: `TypeCorrect`; `NeverRestarted` and `AlwaysTimeout` from
  `CheckInv`. The two hold only together: `begin_handler` looks at the timer alone, so
  that the connection is not in use follows from every check in flight having its
  timer. `CheckInv` adds that a handler that skips `clean_event` has no connection in
  use, and that no worker owns the peer before its claim. `OwnerIsChecking` follows
  from `OwnerInv`, which adds that every `status_update` of the http module is followed
  by `clean_event`. `RequestsBounded` follows from `RoomInv`: a connection that is kept, or
  in use with nothing sent yet, has room for a request.
  For the stream module `StreamNeverRestarted` and `StreamAlwaysTimeout` follow from the
  same `CheckInv` and `StreamRequestsBounded` from `RoomInv`; `OwnerInv` fails there: the owner
  a failed connection leaves behind is not checking.
* `HttpStatusRefinement_proofs`: `OneChecker` and `UpdatesAtomic`, for any number of
  workers under `Settled`: punctual event loops whose cached times agree, no worker lost, a
  check type without kept connections, an interval and a timeout together shorter than
  the take-over age, and a record that is not older at first than a timeout and a tick
  before that age. `SoleInv` follows the age of the record: a free peer is not older
  than a slack, or some worker is going to claim it within the tick; an owner's record is
  older than the slack by no more than its timer has run; so it is never as old
  as a take-over needs, and whoever checks is the owner. The bound on the initial age is the best there
  is (see above). For the refinement `CountInv` adds that the count a worker
  has loaded is still the one in the record. The mapping is given by where the one worker
  in `status_update` is (`IdleMap`, `StoreMap`, `PublishMap`): `status_load` is the step of
  `PeerStatus`, every other step leaves the mapped record alone.
* `HttpAnswers_proofs`: `StatusIsDeclared`. `HistoryInv` says that each counter is
  the length of the run that ends the history, up to the cap. `AnswersCounted` shows that
  `HttpAnswers` implements `StatusHistory`: a handler counts one result or leaves the record
  alone. `AnswersDeclare` is `StatusIsDeclared` for it.
  `VerdictIndependent`, `NoNeedlessWait` and `KeptIsRead` are the three properties of the parser, for
  any set of responses with bodies of any length, any other texts, any size of the buffer and
  any codes that count as alive. `AnswersAssumption` asks of the other texts that no header ends
  in them. All three follow from `AnswersInvariant`. Its `AnswersInv` says of an answer that
  fits the first buffer and that nothing stale came before: what was received and what is to
  come make up its text (`Split`), and the context is the one that a single pass over the
  received part from a fresh context would have left, or the header is read and the context is
  that of the header's end (`Follows`). Between two checks the context is as good as new
  (`Clean`). `Follows` is kept because the loop continued with more text is the loop over
  all of it (`ScanResumes`), and gives the verdict because the loop over a response
  runs through the characters of the header one by one, whatever the body
  (`StatusLineScan`, `HeaderScan`). The facts about `Scan` are lemmas of
  `HttpParse_proofs`, by induction over the position: lemma `UpTo` does it over the set of
  positions for which a fact holds, from the well-foundedness of the numbers.
* `SharedRecords_proofs`, about reloads: `ReloadTypeCorrect`; `StatusSurvives`, from the fact that the
  search finds the peer itself (`FindsItself`): in the stream module because a configuration
  names a server of an upstream once, in the http module, which compares addresses alone,
  for configurations in which no two upstreams share a server. `CopySound` follows the
  zone that is built until its workers start: its records are those of the running
  configuration but for the peers in `late`, or fresh ones after a rejected configuration. `OnlyFailuresTakeDown`,
  with and without `default_down`: by the same invariant the switch hands on the peer's own
  record outside the two cases the property names, and a check takes a peer down only when
  its count of failures reaches `fall_count`.
  About the status page: `PageInvariant`; `PageIsSound` and `PageIsComplete` follow. The
  second pass reads each record once, and `PageInv` says that a peer that passed the
  filter throughout is listed or still to be visited. `PageIsWellFormed` needs the numbers:
  `FormInv` says that, as long as no record has passed or left the filter, the first pass
  has counted the shown peers that it has visited, and the second has written as many
  entries; both visit each peer once, so the last entry is the one without a comma.
* `LbhcSync_proofs`: `SyncTypeCorrect`; `CopiesSound`, whose invariant says that the
  cache with no version under way is the server's Lbhc, and that a copy still
  current has an entry for every down one. For the copy the poll works on, `PollInv` says
  so as long as the lease was kept; after a no of `checkSvcIsValid` the copy is empty until
  the next yes. `NoDownMarkForgotten` follows, since only a current copy is ever stored and an empty one
  is not sent.
  `MarksFollowNginx` is for any `rise_count`. Only the poll sets an entry to false, so what an answer of
  nginx does not show as down has had a success until the Update of the same poll: `HistoryInv` says so
  of the answer and of the two copies the poll marks, as far as they are current.
* `VsEndpoints_proofs`: `VsInvariant`; `AddressesOnce` and `AddressesKept` follow. Neither
  property is inductive, as an Update replaces the whole Endpoints by a copy read
  earlier. `VsInv` therefore speaks of the copies: none has an address twice, and one
  that is still of the current version has every address of the server, except the
  one that the filter on pods is about to remove. A copy that is out of date may have
  lost addresses, and is refused.
* `NginxConf_proofs`: `ConfTypeCorrect`, and `UpstreamsStaySingle`, for any services and any
  number of changes. Without deletions the event filter writes nothing, and `AloneInv`
  follows the worker: after its first pass no file holds a block of the service, what it
  has parsed is still the file when it writes it back, and the block it adds is
  therefore the only one.

Only model-checked: liveness (`PeerKeepsBeingChecked`, `StreamPeerKeepsBeingChecked`, `DownIsWithdrawn`,
`NginxFollowsEndpoints`, `NginxStaysUp`, `QueuedPodListed`, `LabelsFollow`), which the
prover does not reach. Every invariant and action property of the passing runs has a theorem.

`DownMarkSurvives` is about a node's one service. With several, `checkSvcIsValid`
drops the entries of a service whose lease was lost and another service's change
writes that, with a lease that does not come back either: intended, and not covered yet.

## Plan

1. `LbhcSync` with several services, each with a lease, and
   `deleteLbhcEpElemByOne`; ip:port shared by services.
2. `VsEndpoints` composed with `NginxConf` in place of `ep_changes`, and with subsets.
3. The fastcgi parser in the manner of `HttpParse`.
4. The loop as a whole: `PeerStatus`, the page, `LbhcSync` and the move of an address
   composed at one step each.
5. A take-over property that carries its condition (a record written within 16
   intervals) in place of the punctual clocks of `http_exclusive`.
6. Proofs: `OneChecker` with kept connections, whose `discard_handler` gives up a peer that
   another worker may own, and with clocks that differ.
