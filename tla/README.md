# Zorp in TLA+

Zorp is an application-level proxy firewall.  A connection is accepted by a
listener (`lib/dispatch.cc`), handed to the policy (Python, `pylib/Zorp`), which
chooses a service and starts a proxy (`lib/proxy.cc`, `lib/proxygroup.cc`,
`modules/*`); the proxy connects to the server (`lib/attach.cc`) and moves data
between the two endpoints, possibly through a *stacked* child proxy
(`libproxy/transfer2.cc`, `libproxy/dottransfer.cc`, `lib/plugsession.cc`).  All of
this happens in several threads that share objects, and most of it is driven by
callbacks of a poll loop (`z_poll_*`, from the external library libzorpll).

This directory models the parts of that machinery whose correctness depends on
order: what runs between two callbacks, between a test and the lock that should
have covered it, between a short write and its continuation.

## Inventory

| Component | State it keeps | Operations | Interacts with | What makes it correct |
|---|---|---|---|---|
| **ZTransfer2** `libproxy/transfer2.cc` | two buffers with `ofs`/`end`, status bits, poll conditions, timers | `start`, `run`, `suspend`, `cancel`, `rollback`, `free`, the copy, timeout and progress callbacks | poll loop, the proxy's virtual methods, a stacked child, stop requests from another thread | no loss, reordering or repetition; a sink shut down without a trouble bit is complete; success means delivered; no lost wake-up; the timeout ends it |
| **ZDotTransfer** `libproxy/dottransfer.cc` | line reader, `dst_write_state`, previous-line flag | `src_read`, `dst_write`, `dst_shutdown` | Transfer2, the line-reading stream | the output is the dot-stuffed payload, also across short reads and writes |
| **ZPlugSession, plug proxy** `lib/plugsession.cc`, `modules/plug` | EOF mask, four buffers, statistics, timers | start, the four copy callbacks, timeout, statistics, cancel | poll loop of a group, Python callbacks, stacked child | both directions delivered before a soft end; `finish` once; no stuck direction |
| **ZProxyGroup** `lib/proxygroup.cc`, `lib/pyproxygroup.cc`, `Service.py` | session counter, queue, list of proxies, orphaned flag, poll | `start_session`, `stop_session`, `wakeup`, `orphan`, iteration; `Service.startInstance` | dispatcher threads, the group's thread, the control thread that stops sessions | the limit holds, nothing is stranded, an accepted session starts, a stop is honoured, the group ends |
| **Proxy start and stop** `lib/proxy.cc` | `ZPS_*` state, the policy thread, stop flag, registry | `threaded_start`, `nonblocking_start/stop`, `stop_request`, handshake completion | group, TLS, SZIG | events run only with a policy thread; stopped once |
| **ZDispatch** `lib/dispatch.cc`, `lib/pydispatch.cc` | table of chains, reference counts, lists of entries by priority, a queue and a thread per threaded chain | `register`, `unregister`, accept callback, chain thread | listeners, policies, FTP data connections | reference counts exact, no callback after unregistration, priority, no gap in listening, no deadlock |
| **Main loop** `lib/zorp.cc`, `lib/pypolicy.cc` | signal flags, current policy, reference counts of policies, result of the last reload | main loop, `z_load_policy`, reload, `RELOAD`, `RELOAD RESULT` | Dispatch, SZIG, sessions | the old policy survives a failed load and its sessions; an answer "successful" is true; a requested reload happens |
| **SZIG** `lib/szig.cc` | event queue, result tree, aggregators | `z_szig_event`, the SZIG thread, the tick, walks over the tree | all threads | totals agree with what happened; the tree is changed under its lock |
| **Interface monitor** `lib/ifmonitor.cc` | interfaces, watches | netlink messages, `register_watch`, `unregister_watch` | interface-bound dispatch chains | listeners follow the addresses |
| **Routers, chainers, NAT** `pylib/Zorp` | connection count, hosts that are down, NAT caches, per session the position in its target list | `chainParent`, `getNextTarget`, `performTranslation`, connect | sessions that share one chainer or NAT policy | every target gets its chance; a cached translation is the right one; failover ends |
| **POP3, SMTP** `modules/pop3`, `modules/smtp` | command state, transaction, SASL exchange, transfer | one handler per command and answer, `smtp_main`'s states | DotTransfer, the policy, TLS | proxy and server agree on login and transaction; each line is answered once |
| **FTP** `modules/ftp` | command state, data channel bits under a lock, mode of each side | handlers, data callbacks, transfer, TLS | Dispatch, ZAttach, Transfer2 | no data before the bounce check; one final answer for a command; authentication first |
| **HTTP** `modules/http` | request, connection modes, retries, headers, body framing | request loop, header filters, `HttpTransfer` | Transfer2, a stacked child, the policy | a response belongs to its request; bodies are framed again without loss; filtered headers do not go on |
| **Telnet** `modules/telnet` | options of both sides, line editor, parser state | negotiation, suboptions, prompts, STARTTLS | TLS, authentication | views of the options agree; escapes survive any packets |
| **zorpctl** `zorpctl_in_cc` | instances, pid files, processes | start, stop, restart, reload and their forms | the daemon | no second copy; "stopped" is true |
| **ZAttach, proxy registry, stacking, TLS** `lib/attach.cc`, `lib/proxy.cc`, `lib/proxystack.cc`, `lib/proxyssl.cc` | connector; hash of sessions, parent/child links; handshake state | connect, register, stack, handshake | all proxies | callback once; links symmetric |
| **Policy layer** `pylib/Zorp` | zones, rules, services, caches | lookup, `startInstance`, ... | all of the above | most specific zone; limits hold |

The behaviours that are hard are the ones the hazards of `PROJECT.json` name, each
at its line: partial reads and writes, ends of file that arrive in any order,
stop requests from a foreign thread, a list that is changed while it is walked,
counters compared outside the lock that guards them, threads that cannot be
created, locks taken in different orders, commands that arrive in the middle of a
transfer, answers that belong to an earlier request, state that several sessions
share, and processes that end between the test and the act.

## Modules

`ReliableCopy` is the abstract specification; the others are translated from code.
Each MC module only adds the values a configuration needs.

| Module | Models | Checked through |
|---|---|---|
| `ReliableCopy` | what a copy engine promises per direction: bytes leave in the order in which they entered, the direction ends once, and *clean* only when everything has arrived | refined by `Transfer2` and `PlugSession` |
| `Transfer2` | `libproxy/transfer2.cc` | `MCTransfer2`, `Transfer2Proofs` |
| `DotTransfer` | `libproxy/dottransfer.cc` on top of the copy loop | `MCProxies`, `MCDotTransfer` |
| `PlugSession` | `lib/plugsession.cc`, `modules/plug/plug.cc` | `MCPlugSession` |
| `ProxyGroup` | `lib/proxygroup.cc`, `lib/pyproxygroup.cc`, the start and stop paths of `lib/proxy.cc` and `lib/proxyssl.cc`, `Service.startInstance` | `MCProxyGroup` |
| `Dispatch` | `lib/dispatch.cc`, `lib/pydispatch.cc`, the accept callbacks of `modules/ftp` | `MCDispatch` |
| `Pop3`, `Smtp`, `Ftp` | `modules/pop3`, `modules/smtp`, `modules/ftp` | `MCProxies` |
| `Http`, `HttpHeaders`, `HttpBody` | `modules/http`: the session, the headers of a message, the body of a message | `MCProxies` |
| `Telnet`, `TelnetWire` | `modules/telnet`: the session, and the byte streams with the line editor | `MCProxies` |
| `MainLoop` | `lib/zorp.cc`, `lib/pypolicy.cc`, the reload commands of `lib/szig.cc` | `MCControl` |
| `Szig` | `lib/szig.cc`: queue, tree, aggregators, clients | `MCControl` |
| `IfMonitor` | `lib/ifmonitor.cc` and the interface-bound chains of `lib/dispatch.cc` | `MCControl` |
| `Zorpctl` | `zorpctl_in_cc/main.cc` | `MCControl` |
| `Chaining` | `Router.py`, `Chainer.py`, `NAT.py`, `Cache.py`, the target zone check of `Session.py`, the blocking connect of `lib/attach.cc` | `MCControl` |
| `ListLemmas`, `Transfer2Proofs`, `PlugProofs`, `ProxyGroupProofs`, `DispatchProofs`, `MailProofs`, `ProxyProofs`, `ControlProofs` | the proofs (see below) | `tlapm` |

`MCProxies` and `MCControl` each put components that share no state into one
specification: the variable `part` names the component that moves, and the others
stay in one initial state.  A behaviour is thus a behaviour of one component, and the
states of the components add up instead of multiplying.

### Transfer2

A *leg* is one entry of `self->buffers`: without a child there is one leg from
source to destination, with a child a second one brings the child's output to the
destination.  `status`, `buf`, `cond` are the fields of the object; `pending` and
`due` are the sources whose callbacks the current poll iteration still has to
run; `pc` is where the owner's thread is.  `copy_data` is split at its I/O calls
(`WriteDest`, `WriteAgain`, `WriteError`, `ReadSource`, `ReadAgain`, `ReadEof`,
`ReadError`), since the peers move between two system calls.  A poll iteration
collects what is ready (`PollIter`), runs the callbacks in any order and then looks
at the stop flag (`LoopIteration`).
`World` contains the peers and the thread that asks for a stop.  Byte *i* of a
leg is the number *i*, so loss, repetition and reordering show in `got`.

### DotTransfer

Payload characters are `x`, `.` and the line end; what the code branches on.  The
line reader (external) returns whole lines, or a piece of a line when the buffer
is full.  `dst_write` is one action per `z_stream_write`, each of which may
accept less than it is given.  A call that returns `AGAIN` after it has written part of
the buffer leaves all of it there (`transfer2.cc` moves `ofs` only on success), so that part is
written once more; `resend` remembers it.  The module's operators state the
reference: unstuffing and stuffing of a sequence of lines.

### PlugSession

Up to four directions (client to server, and back, each through the child when one
is stacked).  The EOF mask, the conditions left for the next poll, packet
statistics that may reject the session, the timers and the *non-blocking start*
of the plug proxy are modelled; `touched` records a callback that goes on with a
session that was already finished.

### ProxyGroup

Each proxy is started by its own run of `Service.startInstance` (several at once
when dispatchers are threaded): compare the instance counter, take the group's
start method, create the proxy, count the session, create the group's thread if
it is the first, push, wake.  Steps that hold the interpreter lock exclude each
other (`LockFree`).  The group's thread drains its queue, walks its list and
polls.  Reading the freed list link is a choice between its
two outcomes: the old successor, or the end of the list.  `crash` records
the use of a null group or of a missing policy thread.

### Dispatch

The four locks (interpreter, table, chain, listener) are held and released
where the code does it; a call is split at the points where it gives one up or
waits for one.  A chain's reference count is the number in the code; `RefsExact`
compares it with the objects that really hold one.

### Pop3, Smtp

One thread alternates between the client and the server.  `Pop3` has an action for a
line of the client, one for an answer and one for a line of a SASL exchange; commands
are known by the parser and the answer handler their table entry names.  `Smtp` has an
action per state of `smtp_main`.  Beside what the proxy believes (`pop3State`,
`smtp.state`) each keeps what the server has accepted, and what the client is still owed.
The policy's verdict is a choice among those a configuration permits; the parsing of an
address is one too.  The response policy may refuse any answer, that of a RSET or of DATA included: the server
has then acted on a command whose handler never ran, or takes what follows as a mail (`smtp.server = "data"`), and
`withheld` is set until `smtp_reset_state`.  Two simplifications: a policy's ABORT of NOOP or DATA during a transfer whose
start is delayed is not kept as a sticky error, and the server never refuses a RSET.

### Ftp

`ftp` holds the fields of the proxy.  Actions are the iterations of `ftp_main` in its
two modes, the poll of a data transfer, and the two data callbacks (accept or connect),
which come from other threads and only set bits in `data_state`.  `DataNextStep` is
`ftp_data_next_step`: prepare the server's side, then the client's, then start.  The
server is a machine of its own (`ftp.peer`) that follows RFC 959.  The policy's verdicts are those that
`ftp_policy_command_hash_do` lets through (`FtpVerdicts`).  From `ftp_data_start` to `ftp_data_reset` the client's urgent data is
polled (`pri`); a client with `conf.urgent` may send any of its commands so.  `owed` is a history: for each line of the client whether its final
answer is due, which line is spoken of and which one set up the data connection.  An unlocked `data_state |= bit` may lose its own
bit or a callback's (`UnlockedOr`).

### Http, HttpHeaders, HttpBody

`Http` is the loop of `http_main`: one action per stage of a request (read, authenticate,
connect, send, read the response, answer or retry).  A body in it is whole, absent or
broken off, or (`conf.limit`) cut at `max_body_length` after its head was written, whose rest stays on a connection that is kept (`left`).
`HttpBody` has the framing, with the chunk reader, the writer that frames
again, the stacked child's verdict and writes that are taken in two parts: the head, a length line, the data, a footer or the last writes
of a shutdown (`WritesSplit`; `cut` remembers a line whose rest the code forgets).  Lengths are kept modulo `UIntSpan`, as the code
keeps them in a `guint`.  `HttpHeaders`
has the list with its hash, the built-in filters and the policy's verdict per header; the filter walks the list by an index, and
what the policy adds afterwards comes from a dictionary, in any order.

### Telnet, TelnetWire

`Telnet` has whole messages: negotiation on both sides under the policy, suboptions,
environment variables, prompts, STARTTLS; the peers keep the rules of RFC 854 and keep
their own view of the options, to which the proxy's is compared.  `TelnetWire` has the parser's
states and the line editor on bytes, with packets cut anywhere; a command of RFC 854 is accepted and not sent on, one that belongs to
an option only when that was negotiated (`nego`).

### MainLoop, Szig, IfMonitor

`MainLoop` splits an iteration at its poll: what was ready, the idle frees of policies,
the test of the signal flags, the load with its three outcomes.  SZIG clients are served by
the same thread.  `Szig` has the events as messages of session threads to the SZIG
thread, the aggregators as functions of the tree (the averaging queue included, whose values are popped off the head while they
are too old), and a client that walks the tree under the
lock in several requests.  In `IfMonitor` the kernel's changes are a queue of netlink messages; each
message is handled whole, with the watches it fires and the listeners these open and close.

### Zorpctl, Chaining

`Zorpctl` runs one command over the lines of `instances.conf` that its arguments match, a step per signal sent, pid file
read or wait ended; processes come up, end and crash in between, and with `auto_restart` (the default) the supervisor starts the
process again after a crash.  The end of a process is two steps: it removes the pidfile, whoever's that is by now, and goes.  `blind` is a
history of the processes that zorpctl found down while a copy was on its way, or that came back after they had removed their pidfile.
`Chaining` has a thread per
session that asks the router, the chainer and the NAT policies for a target and connects;
the chainer's counters and the caches are shared, time-outs of the down state happen at any time.  Addresses have ports; the down state
and the keys of the NAT caches do not.

## Runs

Passing runs:

| Run | Configuration | Question |
|---|---|---|
| `transfer2_plain` | `Transfer2Plain.cfg` | one leg, all faults, both timers, `ZT2F_COMPLETE_COPY`: order and bounds (`TransferSound`), clean shutdown, success, refinement of `ReliableCopy` |
| `transfer2_live` | `Transfer2Live.cfg` | with and without a child: refinement with two legs, the inactivity timeout ends every run and cooperative peers end it well (`TransferEnds`), nothing is held back while the source is silent (`NothingHeldBack`) |
| `plug_plain` | `PlugPlain.cfg` | soft, hard and one-way sessions with all faults: `finish` once and no stuck direction (`PlugSound`), soft end delivers, refinement of `ReliableCopy`, ends by the timeout and by itself (`SessionSettles`) |
| `plug_stacked` | `PlugStacked.cfg` | four directions through a child: none waits for the wrong event, the soft end delivers all of them |
| `group_safe` | `ProxyGroupSafe.cfg` | two starters, failing threads and starts, handshakes, stops, proxies with threads of their own: session limit, who may be without a policy thread, how far the instance limit can be exceeded (`GroupSound`), nothing stranded |
| `group_live` | `ProxyGroupLive.cfg` | accepted sessions start; orphaned groups end and the instance counter returns to zero (`GroupSettles`); a stop is honoured with one session per group |
| `dispatch` | `Dispatch.cfg` | two policies and a proxy on one address or two, all failures: references and frees (`ChainsSound`), callbacks, priority and no gap in listening (`HandOver`); calls return and connections are settled (`DispatchSettles`), chains are freed |
| `proxies` | `Proxies.cfg` | the protocol proxies: `Pop3Session`, `SmtpTransaction`, `DotTransferred`, `FtpControl`, `FtpBounceChecked`, `HttpExchange`, `HttpBodyFramed`, `HttpHeadersFiltered`, `TelnetSession`, `TelnetRelayed` |
| `control` | `Control.cfg` | what surrounds the sessions: `ListenersFollow`, `PolicyHeld`, `ReloadAnswered`, `SzigAgrees`, `CtlHonest`, `AllTried`, `NatFaithful` |

A property is stated in its module next to the code's names, with a comment on what it
says; several are conjunctions of named parts that one action could break in turn.
A transfer with a child and every fault at once is too large for a run of a few minutes: the theorems
below cover it, refinement included, for every value of the constants.

Runs that show a disagreement between the code and what its comments say (details
under `findings`):

| Run | What TLC shows |
|---|---|
| `dot_two_dots` | two lines that start with a dot in one buffer: the second one is not escaped, because an absolute offset is compared with the length of the last write |
| `plug_touch` | `packetStats` rejects inside a copy callback, which goes on after `finish` |
| `group_two_stops` | two stop requests in one group: the second proxy is skipped, and nobody wakes the thread again |

Further disagreements are stated in the modules and have no run.  Each shows as a
counterexample when the property is added to the configuration named:

| Property | Configuration | What TLC shows |
|---|---|---|
| `OneReplyEach` (`Smtp`) | `Proxies.cfg` | a server that refuses DATA: the client gets the refusal, and then the error answer of the failed transfer |
| `FtpEndsChecked` (`Ftp`) | `Proxies.cfg` with six FTP commands, data mode KEEP, and a policy that rejects some commands and some answers | the answer to a PORT in the middle of a transfer's set-up is rejected before its handler runs; the set-up goes on with the new listener, which `bounceCheck` has not seen (`FtpBounceChecked` leaves such policies out) |
| `FtpEndsChecked` (`Ftp`) | `Proxies.cfg` with six FTP commands and its configuration with urgent data | after ABOR a PORT and a RETR are read before the server's answers, both as urgent data; the policy rejects the RETR, and the set-up of the first transfer goes on with the new client end, which `bounceCheck` has not seen (`FtpBounceChecked` leaves urgent data out) |
| `HttpInSync` (`HttpBody`) | `Proxies.cfg` | a response that a stacked child rejects leaves its rest on a connection that is kept |
| `TelnetLineEnds` (`TelnetWire`) | `Proxies.cfg` | CR and LF in two packets: the line editor, which looks for the pair inside one packet, sees no end of line |
| `HttpHeadersReplaced` (`HttpHeaders`) | `Proxies.cfg` with a policy that replaces a header which may occur only once, such as `Host` | the old value is removed and the new one refused |
| `ReloadNotLost` (`MainLoop`) | `Control.cfg` | `hup_received` is cleared after the load: a request that came during it is forgotten |
| `OwnOptions` (`Zorpctl`) | `Control.cfg` | an option of one line of `instances.conf` holds for the lines below it |
| `SzigTreeLocked` (`Szig`) | `Control.cfg` | the SZIG thread creates nodes without `result_tree_structure_lock`, against the comment of `z_szig_tree_lookup` |
| `WatchesOwned` (`IfMonitor`) | `Control.cfg` with the group chain among `unbinds` | `z_ifmon_unregister_group_watch` removes the watch from the list of interface watches; the group's own list keeps it |
| `TwoRounds` (`Chaining`) | `Control.cfg` with "none" among `again` and two calls | `chainer_targets_enumerated` is not reset: the second call of a session has no end |

### Observations

Other behaviours of the code that the models contain, and that show as an
exception written into a property:

* *Short writes in `z_dot_transfer_dst_write`*: the scan state is set for the end of
  the buffer before the write, so after a short write a dot inside a line may be
  escaped or one at its start not; the first piece of a split line is not
  unstuffed.  `OneDotStuffed` leaves both out, `NothingLost` covers them.
* *Repeated writes*: a `z_dot_transfer_dst_write` that returns `AGAIN` after a part was written has that part written again by
  the next call.  `NothingLost` says that nothing is missing then, and that nothing is repeated otherwise.
* *A withheld answer*: after the response policy refused the answer to a RSET, DATA or AUTH that the server took, the SMTP proxy is
  ahead of the server (`NotAheadOfServer` leaves the time until the next `smtp_reset_state` out).
* *FTP answers out of step*: a command read in the middle of a transfer that then fails has its own answer dropped, while the transfer's
  command is answered twice; the same can happen where a command is read while an earlier one still waits for its answer and no data flows
  (after ABOR, or as urgent data).  `FtpOneFinal` leaves out sessions in which lines crossed so (`owed.crossed`).
* *The rest of a cut body*: `httpfltr.cc` sets `force_nonpersistent_mode` when `max_body_length` ends a chunked body, but only the head
  of a message, already written, would tell the peers: both connections are kept and the rest is read as the next response.  A body of unknown length
  that goes through a child and is cut has the same end.  `HttpPaired` leaves such connections out (`Spoilt`).  On the client's side the rest of
  a cut request is what the next `http_fetch_request` reads; a request is, in `Http`, whatever that function reads.
* *Chunk lines in parts*: after part of a length line the code goes on to the data; the closing writes through a child are not
  checked for being whole; and the chunks of an answer that goes through a child to a client of HTTP/1.0 are not taken apart.
  `HttpBodyIntact` claims the bytes in these cases and the framing in all others.
* *Instance limit*: `startInstance` compares before it takes the lock of the counter,
  so with *n* dispatcher threads up to *n - 1* instances too many run
  (`InstanceLimit`).
* *Early stop*: a proxy is in the registry before it has its group, and a stop
  request in between wakes up the group `NULL` (`crash = "no_group"`).
* *Events without a policy thread* (`EventsHaveThread`): a handshake that completes
  after its proxy was stopped, and the service's second attempt with a proxy that
  `z_proxy_threaded_start` has destroyed.
* *Threaded chains*: a chain whose bind fails keeps its thread (`ChainsFreed`); when a
  proxy's thread takes down a threaded chain, the exit message can overtake a
  connection the main thread has accepted (`ConnectionsSettled`).
* *Direction switched off*: a plug session with `copy_to_server` off leaves its last
  packet in the buffer when the loop stops after `MAX_READ_AT_A_TIME` reads, and
  waits for the timeout; `NothingStuck` and `SessionFinishes` speak of directions
  with a sink.
* *FTP data callbacks* set bits of `data_state` in threads of their own, while the proxy's
  thread clears some of them; not every access holds the lock.
* *A failing netlink socket* detaches the interface monitor for good: listeners follow the
  interfaces only until then (`ListenersFollow` says so).
* *A renamed interface of a watched group* is not followed: `z_ifmon_add_iface` tells group watchers of a new group, not of a new name, and
  the chain keeps the watch on the old one.  The configurations of `ListenersFollow` rename interfaces that chains watch by name;
  with a renamed member of a group TLC finds the listener missing.
* *Processes zorpctl cannot see*: the pidfile does not tell of a process that is late, or that its supervisor is starting again; a further
  `start` makes a second process, and a `stop` that exits with 0 leaves one.  A process that ends may remove the pidfile of
  the one that took its place.  `CtlHonest` leaves out the processes this once happened to (`blind`).
* *Ports*: the down state of a chainer is kept by IP, so that of two targets on one host the second may be passed over in both rounds and
  never be tried; `AllTried` speaks of IPs there.  A cached translation gets the port that was asked about (`NAT.py:181`), where `StaticNAT` and
  the source translation of `OneToOneNAT` have one of their own; `NatFaithful` allows it.  A `clear()` between the two accesses of
  `TimedCache.lookup` ends the call with a `KeyError`; the model has it as a failed call.
* *NAT caches* have the addresses as their key, not the direction: one cacheable policy that
  serves as SNAT and as DNAT can answer one with the other's result.  The configurations use two policies.

### Bounds, and why they are enough

* *Buffers* of 1 or 2 bytes (4 and 8 characters for lines) with payloads of up to 3
  bytes and sinks that accept at most 1 or 2 bytes at once: empty, partly filled and
  full buffers, a short write of a full buffer, a buffer that is used again and
  the `MAX_READ_AT_A_TIME` limit (2 or 3) with data left all occur.  The proofs
  lift order, clean shutdown, success and the refinement to any buffer and any payload.
* *Two legs*: the code has two.  *Four directions* in a plug session: likewise.
* *Lines* of at most two characters, three lines, five characters from a child, two
  short writes: two dots in one buffer, a line that is split, an empty line, a lone dot.
* *Sessions* (`PlugSession`), *services* (`ProxyGroup`), *layouts* (`Dispatch`) and
  `LongLine` (`DotTransfer`) are sets; the initial state chooses one member and a
  variable (`data`, `kind`, `addr`, `pieces`) keeps it, so one run covers several
  settings of the policy.
* *Groups*: three sessions, two per group, two starters: one group filled, one
  being replaced, and a starter that still holds the replaced one.  Two sessions
  where liveness or handshakes are looked at.
* *Dispatch*: two policies and one related proxy on one address or two, one connection,
  three chains: join, leave, last leave, and a new chain while the thread of the
  old one still ends.
* *Protocol proxies*: five lines of an FTP client, six of POP3 and SMTP, three HTTP requests
  over two servers.  That is a login and two commands or a whole transaction and the next one; a data channel
  that is set up, used, aborted and set up again; a kept connection, a retry and a request for the
  other server.  Header lists have up to three lines (four of the limit), bodies three bytes in one or two chunks.  `UIntSpan` is 8, and chunks of 5 and
  9 bytes have the top bit of such a `guint` and overflow it.  One FTP client sends commands as urgent data, one HTTP
  proxy has a `max_body_length`, one POP3 policy permits unknown commands.
  Telnet peers take the initiative at most three times each; the wire has three events in packets of any size.
* *Control*: two interfaces and two changes; two versions of the policy file and four loads;
  two sessions and three ticks in SZIG; two or three zorpctl commands over three processes, with a supervisor and
  without, and without a wait for the start; two sessions over up to three targets, two of which may be ports of one host, and NATs of each kind, `StaticNAT`
  cached and not.
* `Faults` (`kind.faults`) says which failures a configuration has; each one is taken
  from a return value the code tests.

`CHECK_DEADLOCK FALSE` is set because each of these systems may stop: a transfer is freed,
a session ends, all listeners are unregistered.  That nothing stops too
early is what the liveness properties say.

### Fairness

* *Threads run* (`FairSpec` of every module): weak fairness of the code's own steps.
  The scheduler of the operating system gives it, and every lock is released by a
  bounded number of steps.  A poll iteration that finds a timer due is not among them.
* What the environment does is an antecedent of the property that needs it:
  *the timeout expires* (`SF_vars(TimerExpires)` in `RunsEnd` and `SessionEnds`) since
  the timer is re-armed only by data and a peer sends finitely much; *sinks
  drain* and *peers close* (`SinksDrain`, `PeersEnd`, `Cooperative`), which tell a
  lost wake-up from a silent peer; *nothing fails* (`Untroubled`); *sessions end*
  (`SessionsEnd`), only for what is said of groups that were given up.
* *Entries are unregistered* (`ClosingSpec` of `Dispatch`): `z_policy_deinit` and
  `ftp_data_reset` do it.
* Nothing is assumed about the order in which the callbacks of a poll iteration run.
* `proxies` and `control` check safety only and need no fairness.

## Proofs

What is proved holds for every value of the constants: any number of sessions,
groups, entries, policies and clients, any buffer and payload, any set of faults.
Each theorem rests on the named assumptions about the constants of its module
(`ConstantsAssumption`, `DispatchConstants`, `LoopConstants`, `ChainConstants`, `SzigConstants`, ...: sets that are finite, bounds that are
positive, names that differ), which TLC evaluates in every run.  The properties they state are those
that the runs check on small instances.

| Proof module | Theorems |
|---|---|
| `Transfer2Proofs` | `TransferIsSound`, `TransferCleanShutdown`, `TransferFinished`, `TransferImplementsChannel` |
| `PlugProofs` | `PlugIsSound`, `PlugSoftEnd`, `PlugNeverStuck`, `PlugIsChannel` |
| `ProxyGroupProofs` | `GroupIsSound`, `GroupNeverStrands` |
| `DispatchProofs` | `ChainsAreSound`, `NoCallbackLate`, `HandOverHolds` |
| `MailProofs` | `Pop3IsSound`, `SmtpIsSound` |
| `ProxyProofs` | `HttpExchanges`, `HttpHeadersFilter`, `FtpBounce`, `FtpAuth`, `TelnetAuthentication` |
| `ControlProofs` | `PoliciesAreHeld`, `ReloadsAreAnswered`, `TranslationsAreFaithful`, `TargetsAreAllTried`, `ZorpctlHonest`, `SzigTellsTheTruth` |
| `ListLemmas` | lemmas only: what insertion, removal and the ends of a list do to its elements and their order; the groups and the chains keep their members in such lists |

The theorems have the form `Spec => []P` for the invariants of the runs.  Four are different:
`TransferImplementsChannel` and `PlugIsChannel` are refinements of `ReliableCopy`, and
`HandOverHolds` and `FtpBounce` are action properties.  All argue alike: an inductive invariant, a lemma for the initial
states, one for each action or group of similar actions, PTL at the end.

### Transfer2

None of the properties is inductive by itself.  `IInv` adds

* `Flow`: the buffer's window holds exactly the bytes behind the ones the sink has
  (`nread = Len(got) + end - ofs`, and each cell has its number) — the continuation
  of a short write needs it;
* `SoftEofMeansDrained`: a leg whose soft end of file is noted has read all there is
  and has a closed peer — the step from the soft to the hard end needs it;
* `Control`: what each program location implies about the current leg and the packet counter;
* `Ended`: the EOF bits, the `FINISHED` bit and the shut sinks agree: a leg with
  its bit set is shut down, a trouble seen by a shutdown is still in the status,
  and a clean `FINISHED` has both bits — the success of `run` is read off the bits.

The refinement takes each action to a step of the abstract channel: a read or a write of the current
leg moves bytes of that leg only, a shutdown ends it, and *clean* is the one place
that needs the invariant.  Lemmas about buffers (`ConsumeType`, `StoreType`,
`ExtendInOrder`, ...) keep records and sequences out of the action lemmas.

### PlugSession

`IInv` has `Flow` as above; `Control`, which says that the leg being copied is polled by nobody
and reads only into an empty buffer; `Ending`: nothing is polled after `finish`; `ShutLegs`: while the session lives, the
EOF bits of a direction are set exactly when its sink was shut down, which happens only to a source that ended and a
buffer that is empty; `LegsWait`: every other leg waits for the event it needs.
`SoftEndDelivers` follows as the last bit is set, `NothingStuck` from `LegsWait`.

`PlugIsChannel` has the hypothesis that no session is `Rejectable`: a soft (or stacked) session with packet statistics
that may reject it.  There the callback goes on after `finish` and shuts the direction down, so that it ends twice: the
refinement really fails, for the reason that `plug_touch` shows.

### ProxyGroup

`GroupInv` relates the three places a session can be counted in.  `GroupLists`: queues and lists have no
duplicates, a session is in one queue, or in the list of its group, exactly in the matching state.
`StarterAt`: where the starting thread is, against the session's life, its target group and its attempts.
`Counts`: `sessions` bounds what is served *and* what a starter is about to push — this makes the limit hold
although counting and pushing are two steps.  `InstancesCounted`: the counter plus the starters
between comparison and increment stay below the limit plus the number of starters.  `Orphans`: no
starter holds an orphaned group, and a thread ends only in one with nothing left.  `ThreadAt`
says where a policy thread may be gone.

### Dispatch

`DispatchInv` has a part per lock (`TableLocked`, `ChainLocked`, and `MainServes` for the listener's), one per
chain (`ListAt`: the list holds the chain's entries in the order of priority; `TableAt`: a chain is in the table
until its last entry goes; `ThreadAt`: a chain told to end has no entry left to need its thread), one per call (`CallAt`)
and one per connection on its way (`JobAt`), beside `RefsExact` itself.  That a freed chain is unused needs all of them:
the last reference goes under the table lock, and `MainServes` keeps the
main thread out of a listener that is being cancelled.  `HandOverHolds` reads the order off `ListAt`: the walk takes the first
willing entry of a sorted list.

### Pop3, Smtp

`Pop3Inv` adds whose turn it is and how many answers the client has then (`Pop3Turns`), and what is
under way as long as the server has not logged the client in (`Pop3InStep`): nothing while the client has the turn, a single
answer while the server has it, and a positive one only for a command that neither logs in nor is answered with several lines.  `SmtpGood` adds the states from
which each exit of the loop starts (`SmtpCalm`) and what a request that waits for its answer was allowed in (`SmtpPhase`): the
server accepts what the proxy let through.  The theorem is for any verdict of the response policy on any answer; the exception for answers withheld is
in the property.

### Http

`WebGood` has three parts.  `AnswersAt`: from reading a request until its response begins the answer is due, and everywhere an
error page or the policy's response can still go out it is due or was given with nothing more to say
(`CONNECT` excepted, whose failed `connectMethod` is answered twice).  `OwedAt`: what the server still owes on a connection is
the response to the request at hand or nothing, or the connection will not be used again — after a failed attempt
(`force_reconnect`), a response of HTTP/0.9 or a close.  `ServerAt`: where a request is sent, `remote_server` is the one it names.
The second is what makes repeated requests and kept connections safe together: without `force_reconnect` in a
retry, or with a connection kept after HTTP/0.9, a late response would be read for the next request.

A connection with the rest of a cut body is excepted until it is closed (`left`).

### HttpHeaders

`HdrInv` follows the filter's index, which goes down the list: a header it has passed and that is still present is one the
policy neither drops nor replaces, and no credentials meant for the proxy.  After the filter every
header is such a one or the policy's own, and a name the policy inserts is there unless it is still to be taken from the dictionary.

### Ftp

`FtpInv` is about a transfer's set-up, which survives commands, answers and other set-ups.  While the session lives it is *settled*
or an answer to a PORT is awaited: once the client's side of a set-up was started, the server's listener was approved by
`bounceCheck` and so was each end that connects, or the client's end can never be joined (the client's own PORT came to
nothing, `how["C"] = "connect"`); the flags of the set-up are set in order (`COMMAND_START`, `SERVER_START`, `CLIENT_START`); an
answered PASV leaves no set-up behind.  Before authentication the data channel is blank and there is no server (`FtpAuth`).  The step from
`SERVER_TO_CLIENT` back to the commands needs the case of the awaited PORT: the listener is replaced at the answer,
and a set-up that was under way goes on with it.  The invariant is about clients without urgent data; with it a command is read while
that answer is awaited, and `FtpEndsChecked` fails (see above).  `FtpAuth` holds for every client.

### Telnet

`TelnetAuthentication` is the second half of `TelnetSession`.  `TnInv`: where the gateway authenticates, a session that has a server, relays, or
*asks the user for a server* has an authenticated user; the last case is needed, for a server named at the prompt is connected without
another look at the user.  Most of the proof shows that nothing else has a say (`TnKeeps`): options, suboptions and both TLS state machines
leave the server, the user's state and the dialogue's state alone or end the session, although they run in between and
the environment a client sends may name the server and the user at any time.

### MainLoop

`LoopGood` says of each policy (`PolicyAt`) that its reference count is one, for the main thread, plus one while the main loop uses it, plus the
number of sessions that run in it, that a free is pending or done exactly when the count is one, and that an
unused policy has no user at all; of the load (`LoopAt`), what each stage of it has made of the new and the
current policy; of each client (`AskAt`), that its version is at most the file's, that a load under way read the file of
every request before it, and that between loads either the result concerns the request or the request came in this iteration
and the load is still to follow.  The last case is why `ReloadAnswered` holds although
one result serves all clients and `hup_received` is cleared after the load.

### Szig

`SzigTellsTheTruth`.  The tree is behind what happened by what is queued, so `SzInv` says what it will be once the queue is drained:

* A session *will be listed* (`WillList`) when the last event queued about it is a property, or it is listed and no stop of it
  waits.  This is so exactly while the session is between its registration and its end (`SzLists`): a property that
  overtook a stop would leave the node of a session that ended.
* The counts plus the starts and minus the stops in the queue are those of the sessions and threads (`SzCounts`).
* Ticks are handled in the order of their times (`SzTicks`), since one callback makes them and the queue is first in, first out.
* The values of the averaging queue are the differences found at ticks `m[1] < m[2] < ...` of the interval, and nothing
  changed at the ticks between them, which the code does not store (`RateAt`); so their sum telescopes to the change since the interval
  began (`RateStep`).  The values too old at a tick are a head of the queue, for their times ascend.

What `SumOf` and `Max` give for every list is shown by the least element of a set of numbers (`LeastNat`, `SetInduction`), from
well-foundedness; that the recursion of `SumOf` has a solution is a lemma of its own.  `SzigConstants` wants the sessions
of a configuration to be finitely many and the interval to be a number.

### Chaining

Both theorems have a hypothesis on the configurations, which those of `Control.cfg` meet, and without which
TLC finds a violation:

* `TranslationsAreFaithful` wants a NAT policy that caches to serve one type of translation (`Separate`), since the key of its cache
  has the two addresses and no type: a policy used for both is given the answer kept for the other one.
  A caching `ForgeClientSourceNAT` of the server's address must be asked with the client's address, or the key does not tell clients apart.
  `NatGood` says of every entry of both generations of a cache that the NAT gives it for its key; lookups move entries, stores
  shift the generations, and no session has an answer that is not the NAT's.
* `TargetsAreAllTried` wants a session to ask again only after it was served, and a chainer with a state to be asked
  once (`OneRound`): a denied call leaves its round unfinished, and `chainer_targets_enumerated` is never reset, so
  that a later call may give up after one round, with hosts that others held for down.  `RoundAt` relates the place in the list
  to the hosts that failed: the targets from the first to the current one, around the end of the list
  (`Seen`), have failed, except the one being tried; in the second round every host held for down failed since
  that round began, for the state was cleared then.

### Zorpctl

`ZorpctlHonest`: unless a process is `blind`, every copy of it that runs is the one its pidfile names
(`Filed`), and no process of the head of the list runs when it is about to be spawned; so neither a stale pidfile nor
a crash in between gives it a second copy.  For a stop, as long as no part of it failed, none of the processes
of the lines behind it runs.  Both hold for any list of lines: the walk's position is a split of the list in what was done and what is to do.

### Only model-checked

* *Liveness* (`TransferEnds`, `NothingHeldBack`, `SessionSettles`, `Started`, `GroupSettles`, `StopHonoured`, `DispatchSettles`, `ChainsFreed`):
  the prover has no rules for fairness and `ENABLED`.
* *What a recursion over the data computes*: the framing of `DotTransfer` and `HttpBody`, the parser and editor of `TelnetWire`, the
  folds over watches of `IfMonitor`.  Their properties speak of the result for
  every input, so that each fold needs an induction of its own, which is not carried out.  `ListenersFollow` does not hold for every
  configuration either (see above), and a theorem would have to say for which.
* *Not proved*: the half of `TelnetSession` that compares the peers' views of the options (`TelnetViews`): its invariant must say, for each
  option and side, which messages may be under way in either direction, and a message of one side is answered on the other.
* *Not proved*: the half of `FtpControl` about answers (`FtpOneFinal`).  Its invariant would have to say, for every state of a set-up and
  every answer under way, which line of the client is still due a final answer and whether the next one is dropped.  One interleaving is hard:
  a failed data connection that is reported between a policy's abort and the loop's test of `state` sets `FTP_SERVER_TO_CLIENT`
  again (`ftp_data_server_connected`), and the session goes on.

## Not modelled

* *Inside modelled components*: the content hints and verdicts a stacked child reports into a transfer (`Smtp`,
  `Pop3` and `HttpBody` have the outcome); `z_poll_quit`; group iterations nested in a
  handshake that a start waits for; reference counts of proxies and groups, except where
  an object's end is observable; the dot stuffing of `smtpdata.cc`; mail headers of `pop3data.cc`;
  SideStackChainer, OneToOneMultiNAT and HashNAT; a zero port that `Chainer.py` replaces by the client's local one in an
  address object several sessions share; `TimedCache.cleanup` of more than 100 entries; the zorpctl and SZIG commands that only ask.
* *TLS* (`proxyssl.cc`): the states of a handshake are OpenSSL's and the callbacks are
  configuration.  Where a handshake is made, fails or completes late is in `ProxyGroup`, `Ftp`, `Smtp`
  and `Telnet`.
* *Registry, parent and child links, interfaces of a proxy*: short sections under one lock each; what they
  guard lives by the interpreter's reference counts.
* *Stacking, ZAttach's connector, datagram listeners*: system calls and libzorpll objects.  The
  users of their outcomes are modelled.
* *Bindings* (`pydict.cc`, `pystruct.cc`): conversions of types between C and Python.
* *Zone, Rule, Auth, Detector, Keybridge, Matcher, Encryption, Resolver*: configuration
  objects, pure lookups in tables that are built once, and calls of external libraries.
* *Finger, Whois, AnyPy, Apr*: one thread, a line at a time, nothing shared.
* *Start-up of the daemon, the second implementation of zorpctl, support code, plugins*:
  straight-line code or wrappers.
* Kernel and libzorpll (`z_stream_*`, `z_poll_*`, listeners, `z_stream_line_get`)
  are represented by what their callers can observe.  The map marks these
  definitions external.
* Parsing and formatting of protocols: a message is known by what the code branches on.

## Plan

1. *Done*: the copy engines and their abstract channel; groups, services and stops;
   dispatching; the invariants of `Transfer2` proved.
2. *Done*: the protocol proxies, the main loop and reloads, SZIG, the interface monitor, zorpctl,
   routers, chainers and NAT.
3. *Done*: the refinements of `ReliableCopy`; the safety of `PlugSession`, `ProxyGroup`, `Dispatch`, `Pop3`, `Smtp`, `Http`, `MainLoop` and `Chaining` proved.
4. *Done*: the bounce check and the authentication of `Ftp`, the filter of `HttpHeaders`, `Zorpctl`, `Szig` and the authentication of `Telnet` proved.
5. Left: `FtpOneFinal` (which line each answer under way belongs to); `TelnetViews`; the inductions over data named above.
