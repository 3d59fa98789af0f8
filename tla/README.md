# forwardproxy: TLA+ models and proofs

This directory holds a TLA+ model of the forward proxy, the TLC configurations
that check it on small instances, and TLAPS proofs for every instance.
`PROJECT.json` maps every definition to the source lines it models.

## The system

A `Handler` is read from a `forward_proxy` block of the Caddyfile and provisioned.
From then on `Handler.ServeHTTP` serves one request per goroutine. It
authenticates the client, hides or passes on what it must not serve, and then
runs one of three services:

- **CONNECT**: the target is judged by the ACL and dialed, by a race over the
  addresses of both families or by way of an upstream proxy; the client is then
  joined to the target by a tunnel, which may be padded.
- **CONNECT-UDP** (HTTP/3): the request takes a slot under two limits, opens a
  UDP socket and relays datagrams until either side ends or falls idle.
- **plain HTTP**: the request's headers are edited, it is sent to the origin,
  directly or by an upstream proxy, and the response is copied back.

| Part | Source | Module | Proofs |
|---|---|---|---|
| Caddyfile, provisioning, metrics registration | `caddyfile.go`, `Provision`, `initConnectUDPMetrics` | `Configuration` | `ServerProofs` |
| Request handling | `forwardproxy.go`, `native_udp_protocol.go` | `ServeHTTP` | `ServerProofs` |
| The two together | | `Server` | `ServerProofs` |
| ACL, ports, resolution | `acl.go`, `forwardproxy.go`, `native_udp_protocol.go` | `TargetPolicy` | `TargetPolicyProofs` |
| Incremental dial race | `connect_dial_incremental.go`, `dialContextCheckACL` | `DialRace`, `DialContract` | `DialRaceProofs` |
| Upstream CONNECT dialer | `httpclient/httpclient.go` | `UpstreamDialer` | `UpstreamDialerProofs` |
| Padding and the tunnel | `serveHijack`, `dualStream`, `flushingIoCopy` | `NaivePadding`, `Tunnel` | `TunnelProofs`, over `SeqLemmas` |
| CONNECT-UDP admission, lifecycle, metrics | `native_udp_association.go`, `native_udp_metrics.go`, `native_udp_stream.go` | `ConnectUDP` | `ConnectUDPProofs` |
| CONNECT-UDP relay | `native_udp_association.go` (`run`, the pumps) | `UDPAssociation` | `UDPAssociationProofs` |
| Merged-lookup dial race | `connect_dial.go` | its order, in `DialRace` | |
| Target parsing, datagram codec | `native_udp_protocol.go` | no | |
| Interoperability client, experiments, scripts | `cmd/`, `experiments/`, `scripts/` | no | |

The models meet at their interfaces. `Server` composes `Configuration` with
`ServeHTTP`: the handler that serves is the one the block produced. `ServeHTTP`
takes the outcomes that `DialRace`, `UpstreamDialer` and `ConnectUDP` can have,
and ends where `Tunnel` begins. `DialRace` takes the addresses `TargetPolicy`
admits as its constant `Allowed`, and `RunEnds` of `ConnectUDP` stands for the
return of `UDPAssociation`'s `run`.

## Modules

**Configuration** reads a block directive by directive (`UnmarshalDirective`) and
provisions the result (`Provision`): the metrics, the transport's defaults, the
ACL, the check that probe resistance has credentials, the check that an upstream
is secure, and the dialer. A directive is its name and arguments; what a token
means to `strconv.Atoi`, `url.Parse` or `readLinesFromFile` is a constant
(`WithColon`: which arguments have a colon). Two
things are shared by the whole process, the table of dialers in
`golang.org/x/net/proxy` and the collectors, so `ProvisionOther` lets another
handler touch them before and after.

**ServeHTTP** is one request. Each step is a stretch of the handler between two
calls that can fail; the deferred calls run last, in reverse order. A header line
is its name and who made it, the client or the proxy: `header.Del` removes both,
a property tells them apart. Of several `Connection` lines only the first is read
(`Nominated`), and the copy that the context carries to the upstream's dialer is
made before the headers are edited (`CtxHeader`). A dial by way of the upstream
may return neither a connection nor an error; `CONNECT` answers that with an
error, the plain exchange writes to the missing connection and panics.

**Server** lets a request arrive once the handler is ready, and takes the
configuration of `ServeHTTP` from the handler's fields (`ConfOf`).

**TargetPolicy** builds the rule list as `Provision` does and judges one target:
the hostname rules before the lookup (`Prepare`), all rules for each address of
the answer, one round of the loop per step (`FilterAddress`), and the end of the
loop (`Filtered`). Host names are sequences of labels, so that `*.b.com`,
`b.com` and `ab.com` are told apart; a network is a set of addresses.

**DialRace** is one call of `dialTCPIncremental`. Two lookups admit the approved
addresses of their answers to a feed and pulse its wake channel (`ResolveOK`,
`ResolveErr`, `Pulse`); the closer closes the feed (`CloseFeed`, `PulseClosed`);
the scheduler pops and starts candidates and selects (`StartNext`, `GiveUp`,
`EnterSelect` and the arms of the select); each attempt dials and hands its
connection over or closes it (`DialConnects`, `DialFails`, `Abandon`). A
candidate is named by its lookup and its position in the answer. Clocks count
from the event they measure and stop at the value they are compared with, so
time needs no bound. `Status` is what `dialContextCheckACL` makes of the error.
`interleaveTCPAddresses` is the order the merged lookup gave, against which
`StaticInterleave` compares `popLocked`.

**DialContract** is what a dial promises: it settles once, with one open
connection or an error, and discards every other connection. `DialRace` is
shown to implement it, with fairness (by TLC) and for safety (proved).

**UpstreamDialer** is concurrent calls of `DialContext` on one
`HTTPConnectDialer`. What the code does under `cacheH2Mu` is one action; a peer may
break a connection at any time, and the HTTP/2 client may notice later or never.

**NaivePadding** is the frame of the padding protocol, byte by byte in base
`Base` (256 in the code, where the buffer is `Base * Base`), and `Unframe`, what a
peer makes of a framed stream: the payloads of the first frames (`FrameAt` is
where each ends, `Payloads` what they carry) and then the rest.

**Lists** has the concatenation of a sequence of sequences and the relation "is the
beginning of", for the streams of a tunnel and the rules of a block. The
community modules have both, but each proof that sees those modules takes ten
times as long.

**Tunnel** is one established tunnel of any of its three kinds: hijacked
(HTTP/1.1), plain and padded (HTTP/2 and HTTP/3). Each read, write, flush and
close is a step of its direction; `ReadHeader`, `ReadPayload` and `ReadJunk` are
the three reads of `RemovePadding`. A header that is cut short is completed by
arbitrary bytes, since the pooled buffer holds what its last user left. A read
returns any part of what is there, a write may fail after any part of it, and
either side may end or reset its stream at any time.

**ConnectUDP** is `serveConnectUDP` for concurrent requests to the Handlers of one
process: the sites of a configuration and, after a reload, the old Handlers
whose requests go on. Mutex, counters and limits belong to a Handler, the gauges
to the process. `Admit` under the mutex, then `RecordActive`, `LoadPeak`, `CasPeak` and `SetPeak` outside it, one
action per atomic operation; setup with its failures; the deferred
calls in their order (`DeferredClose`, `CountRelease`, `Release`).

**UDPAssociation** is `run`, the two pumps and the idle timer. Each channel
operation, read and write is an action. A datagram is its number and whether it
decodes; a failing write may or may not have sent it.

The `MC*` modules give constants their values. The operators marked "Mutant of"
(for instance `LeakLate`) are not part of any specification; each is a plausible
slip in the definition below it, and shows that a property notices it.

## Runs

| Run | Checks | Distinct states |
|---|---|---|
| `serve_http` | `NothingForStrangers`, `ProbesSeeTheSite`, `URIRedactedAfterUse`, `EstablishedThenClosed`, `OutgoingHeaders`, `FileHonoured`, `SecureUpstream`, `OwnUpstream`, `MetricsShared` | 1,292,151 |
| `target_policy` | `LocalNeedsAllow`, `HostnameOverridesLaterIP`, `RefusalJustified`, `DeniedHostNotResolved` | 317,084 |
| `dial_race` | `OnlyApprovedDialed`, `SingleOwner`, `GivesUpExhausted`, `StatusTruthful`, `ResolverOrder`, `NoLostWakeup`, `StaticInterleave`, `StartSpacing` | 1,455,261 |
| `dial_race_fair` | `ImplementsContract` | 108,022 |
| `upstream_dialer` | `FailureCloses`, `SharedConnKept`, `Settles` | 118,398 |
| `tunnel` | `TypeOK`, `StreamsIntact`, `NothingLost`, `HalfCloseKept`, `Relayed`, `Ends` | 181,498 |
| `connect_udp` | `SlotsExact`, `SocketsCovered`, `GaugeExact`, `PeakCovers` | 92,372 |
| `udp_association` | `NeverReplayed`, `ResultsBalance`, `ReturnsClean`, `IdleJustified`, `Terminates` | 142,406 |

All of them check deadlock. The properties are stated in words above their
definitions. The `TypeOK` of `tunnel` is more than types: it bounds the buffer
that a padded frame is built in. The other modules' `TypeOK` is proved only.

Four runs show where the code and what the repository says of it disagree. Each
checks one property that TLC violates.

| Run | Property | What happens |
|---|---|---|
| `connect_udp_peak` | `PeakGaugeShown` | The peak is swapped and the gauge set in two steps. Two reports can set it in the wrong order, and it stays below the peak its help text promises. |
| `target_policy_order` | `InOrder` | The README says directives are checked in order. Host names are first judged by the hostname directives alone, so a later one may refuse what an earlier address rule or `all` allows. |
| `serve_http_answer` | `AnswerForwarded` | With an upstream, the error tested after the exchange is the one the split of the `Host` left behind, since the inner one shadows it. A `Host` without a port is answered 502 although a response arrived. |
| `upstream_dialer_retry` | `TriesAgain` | A failed round trip over the cached connection has its error replaced by that of `Close`, so the call returns neither a connection nor an error instead of trying again. |

Smaller disagreements were met on the way and have no run:

- the peak gauge is the mark of the busiest Handler, since each reports its own
  counter (`native_udp_association.go:189`); its help text
  (`native_udp_metrics.go:44`) promises the peak of the whole process. `PeakCovers`
  claims no more than the former;
- the comment on `tcpFamilyFeed` (`connect_dial_incremental.go:44`) says a late
  family is appended at the tail of the start queue; `popLocked` alternates, so
  its first candidate overtakes waiting ones;
- the comment on `dualStream` (`forwardproxy.go:729`) says it returns when the
  client's stream is done; it returns when the target's is;
- `forwardResponse` adds the proxy's `Via` to the response whatever `hide_via`
  says (`forwardproxy.go:833` against `:65`);
- the comment at `forwardproxy.go:306` says CONNECT is passed on only under probe
  resistance, which its condition does not test;
- the repository's README gives `dial_timeout` in seconds, where
  `caddy.ParseDuration` wants a unit, and calls `upstream` incompatible with
  `acl` and `ports`, which the code accepts together;
- `upstream ""` may be followed by another `upstream`: the check for a second one
  looks at the field, which is still empty. `OwnUpstream` allows for it.

### Bounds

- **Configuration, ServeHTTP**: a block for every combination of the
  subdirectives that `ServeHTTP` looks at, written with probe resistance before
  the credentials it needs; blocks with the others, several `acl` blocks and
  files; a block for every reason to refuse one; one other handler. Requests are
  every combination of the fields the handler looks at; of the plain ones only
  those over HTTP/1.1 and those that nominate headers. Each carries hop-by-hop
  headers, forwarding headers, two others and, in some, credentials. A `Connection`
  header names none of them, or has two lines: the first names one of the others
  and what the proxy adds itself, the second the other one.
- **TargetPolicy**: ACLs of up to three directives over six kinds of subject,
  one of them invalid; a public and a local address; names equal to, below,
  beside and like the directive's; the ports at the ends of the range and beyond
  it, listed by `ports` (as a JSON configuration may) so that only the range
  refuses them. Three
  directives are the fewest where a hostname rule stands between two others.
- **DialRace**: IPv4 addresses `a`, `b` and `d` (denied) and the IPv6 address `x`. An
  answer is denied, has two addresses, or repeats one, and either lookup may
  return either family. That gives up to three distinct candidates, the fewest
  with alternation, a late family and a queue behind it. Delays of 2 and 1 keep
  the two windows apart; timeouts of 2 let attempts and the whole call expire
  before, during and after other events. `StaticInterleave` takes up to three
  addresses of each family (`StaticSize`). The run with fairness has one address
  per answer.
- **UpstreamDialer**: three calls: one that fills the cache, one that uses it,
  one that replaces it.
- **Tunnel**: bytes of three values, so a buffer has nine; two framed writes
  instead of eight and one after them; up to three writes of the client's and
  five bytes of the target's, which no single framed read can take whole. The
  client's stream may be cut after any byte. A client never sends a frame without
  payload, which the protocol has no use for.
- **ConnectUDP**: four requests of three clients to one Handler and one to
  another, under limits of 2 and 1: either limit is met alone, and the second
  Handler moves the shared metrics between any two steps of the first. The two
  requests of one client are symmetric. The view leaves out the replies and the
  peak gauge, which are written and never read. The run that violates
  `PeakGaugeShown` keeps them, with three requests to one Handler.
- **UDPAssociation**: two datagrams each way, so that one may arrive while the
  token of the other waits; an idle timeout of 2 ticks.

### Fairness

`DialRace!FairSpec` assumes that the Go runtime runs runnable goroutines, fires
timers and that time passes. A lookup or a dial owes an answer only once its
context is over, which is what the `net` package promises. The deadline could
make up for a lost wakeup there, so `NoLostWakeup` states its absence as an
invariant. `UDPAssociation!FairSpec` assumes nothing of client and target but
that they do not send for ever. The fairness of `UpstreamDialer` is that round
trips and dials return. `Tunnel!FairSpec` assumes that a copy that is not blocked
goes on and that a peer accepts or refuses what it is sent; neither side need
ever end its stream, which is why `Relayed` and `Ends` are two properties.
`ConnectUDP` has no liveness run: its requests do not wait for each other, and
`UDPAssociation` shows that the association ends.

## Proofs

The proofs hold for every value of the constants that satisfies the named
assumptions: any configurations, requests, ACLs, answers, delays, streams, and
numbers of requests, calls and datagrams. Each module proves that an inductive
invariant, `IInv` or several where a component has independent concerns, holds
initially, is preserved by each action, and implies the properties.

**DialRaceProofs** proves `TypeOK`, `OnlyApprovedDialed`, `ResolverOrder`,
`StartSpacing`, `SingleOwner`, `GivesUpExhausted`, `StatusTruthful`,
`NoLostWakeup`, `StaticInterleave` and the safety part of `DialContract`. None of
the invariants is inductive alone. The types are proved in groups (`AllTypes`),
since an action changes few of them.

- `FeedSafe` strengthens those about candidates: queued and dialed candidates
  were admitted, a dialed one has left its queue, and an admitted one is queued,
  dialed, or the call has ended by its context. Order and exhaustion follow,
  since a pop takes the least position.
- `WindowInv` ties the scheduler's window to the last start; `Spacing` follows
  step by step.
- `OwnerInv` adds to `SingleOwner` that a returned connection's attempt has
  exited and that an offered connection is open.
- `PendingInv` says that `pending` covers the attempts whose result was not
  received, and that the feed closes only after both lookups. `Exhaustion`
  needs it: `pending` is a number, the claim is about every attempt.
- `EvidenceInv` ties the counters and the last error that the final error is
  chosen by to what happened: `passedACL` is zero only if no answer had an allowed
  address, `started` only if nothing was dialed, and the last error is that of an
  attempt. `VerdictInv` carries this past the return, since lookups and attempts go
  on after it; `StatusTruthful` follows.
- `WakeInv` adds to `NoLostWakeup` that the timer is armed whenever a start is not
  yet due.
- `StaticOrder` is not an induction: `StaticPops` computes the position at which the
  static interleave has an address (`Turn`), for any numbers of addresses. What the
  feed still holds after `k` pops are then two intervals, and the next address of
  the interleave is the head of the one whose turn it is.
- `ContractSafety` uses `OwnerInv` for each step that opens, hands over or
  closes a connection.

**ConnectUDPProofs** proves `TypeOK`, `SlotsExact`, `SocketsCovered`,
`GaugeExact` and `PeakCovers`, for any number of Handlers. The slots are counted as
cardinalities of sets of requests by their Handler and where they are, so each
step adds or removes one element of one Handler's and leaves the others alone.
The peak is the interesting one: `PeakCovers` speaks of requests that have
reported, but the mark may lag behind the others, and other Handlers raise it.
`PeakInv` says of each Handler (`AllCovered`) that every set of its requests still
reporting, together with those that have, is no larger than the mark or than a
report some member of the set is still to make. A failed compare-and-swap or a
stale load keeps that true, and so does another Handler's report, since the mark
never falls.

**UDPAssociationProofs** proves `ResultsBalance`, `ReturnsClean`, `IdleJustified`,
`NeverReplayed` and `TypeOK`. `Teardown` says how far the end of `run` has come
and what is over by then. `IdleBehind` says that the timer counts from no later
than the last datagram, unless its token is still on its way. `NeverReplayed`
rests on a second invariant, `Order`: what was tried lies below what comes next.

**UpstreamDialerProofs** proves `TypeOK`, `FailureCloses` and `SharedConnKept`. A
call that fails on the cached connection closes one that another call made, so
both need to know whose connections can be reached through the cache (`Reach`)
and how far each call has come (`Progress`).

**TunnelProofs** proves `HalfCloseKept`, `TypeOK`, `StreamsIntact` and `NothingLost`,
for streams of any length, any cut into reads, any failing write and any size of
a byte from three values up. `ExchangesAssumption` says that a client's write is
not empty and fits a frame. There are three layers.

- The protocol. `FramesFit`: with any padding, the frame of the largest read fits
  the buffer, and the size read back from its header is the size of the payload.
  `RoundTrip`: a peer that reads a stream of framed and then plain writes makes of
  it the data that was written. `CutStream`: of a part of a stream it makes the
  beginning of what it makes of the whole.
- Endings. `Reasons` says that a copy has an error, or is over, only if its source
  ended, a write failed or the tunnel was closed; `Phases`, that the handler
  closes only after the downward copy. `HalfCloseKept` follows.
- Contents. `StreamInv` relates, at every station of a copy, what was read to what
  was passed on. Upwards, what the target has is the payload of the frames that
  were read whole, and in the middle of a frame the buffer is the rest of what was
  read of it (`UpHeld`, with `AtPayload` and `AtJunk`). Downwards, what the client
  has, what waits for a flush and what is in the buffer are together a framing
  of what was read (`DownHeld`). Both hold until a write fails; from then on only
  the beginning is claimed, which is all `StreamsIntact` asks.

**SeqLemmas** has what those proofs and the next ones need of sequences. A function
on `0..n` given by a recursive definition exists and is unique (`Recursion`), and a
set of numbers with zero and every successor is everything (`SetInduction`). Both
are stated about sets and functions, which the provers can instantiate, and proved
from the library's theorem on least elements. `Concat` and `FrameAt` are then
characterised by what they are at zero and at a successor.

**TargetPolicyProofs** proves the four properties of `TargetPolicy`, from
`NetAssumption`, `SubjectAssumption` and `PortAssumption`, which only say what kind of values the
constants are. `Listed` says that the list is the ACL's rules, in order, then the
default ones; `Kept`, that the loop has kept exactly the addresses the list
allows. Each property is then a statement about the first rule that matches,
which exists because the last one matches everything (`MinIsLeast`).

**ServerProofs** has three parts.

- A request. The five properties of `ServeHTTP` are proved of one request, from
  `RequestAssumption`: the lines of a request that arrives are the client's.
  They speak of the end of a request or of what was sent; `RequestInv` says what
  holds at each station: up to the decision nothing was done (`Decided`), where a
  stranger's request ends (`Hidden`), the state of the connection (`Target`) and of
  the headers about to be sent: until the edit they are the client's (`Copied`), after
  it what was left of them and the proxy's own (`Edited`). `RequestsInService` says that all five
  hold of the composed server.
- A handler. `OwnUpstream`, `SecureUpstream` and `MetricsShared` relate the directives
  of a block to traffic that comes many steps later, so `IInv` has a link for
  each stage. `Parsed`: the two fields an upstream depends on say what the
  directives read so far say. `Provisioned`: once the whole block is read and the
  handler is ready, its dialer is the one for that field, and passed the check.
  `Traffic`: a request sees the configuration of that handler and reaches an
  upstream only if it has one.
- A block. `FileHonoured` joins both. `Fields` and `Lines` say of the other fields what
  `Parsed` says of two; for the ACL, that it has a rule for every line of the `acl`
  directives read so far, in order. `InService` says that a handler in service was
  not refused and has its rules, and `Handling` that a request it handles satisfies
  `RequestInv`. That `Provision` makes the written rules of them is then an equality of
  two concatenations.

They hold for any block, any files and parsers and any number of other handlers.
`FilesAssumption` and `LinesAssumption` say that a block is a sequence of directives,
an `acl` block one of lines, and an argument or a line of a file a string.

Only model-checked: liveness (`ImplementsContract`, `Terminates`, `Settles`,
`Relayed`, `Ends`), which this prover does not reach.

## Not modelled

- `parseConnectUDPTarget`, `canonicalDomain` and the datagram codec work on
  characters and bytes, which the repository's fuzz tests reach better than a
  model. The models take both outcomes of each.
- `dialTCPAddresses`, the race over a merged lookup: the handler does not call it
  any more. Its order is the reference of `StaticInterleave`.
- `ConnectUDP` and `UDPAssociation` are not composed: `RunEnds` relies on
  `ReturnsClean` and `Terminates`, and they share no other state.
- JSON configuration, which sets the same fields without the Caddyfile's checks.
- Metrics that only ever grow, log lines and association numbers.
- The clients, experiments and scripts under `cmd/`, `experiments/`, `scripts/`,
  but for the client's view of a padded frame (`Unframe`).
