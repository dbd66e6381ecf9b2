# A model of the llp2p client

llp2p is a client of a peer-to-peer live stream. A stream is cut into chunks
with increasing sequence numbers, and the chunks are dealt to `sub_stream_num`
sub-streams. A client takes each sub-stream from a parent, relays it to
children, and hands the chunks in order to local players. PK, the tracker, is
also the source of last resort; its pid is `PK_PID`, larger than that of any
peer. One thread runs everything: the loop of `main.cpp` waits for sockets,
calls the handler of the one that is ready, and calls `pk_mgr::time_handle`
for the timers. An action of the models is one such handler.

## Inventory

| part | source | state | operations | what makes it correct |
|---|---|---|---|---|
| sub-stream table | `pk_mgr.cpp` | `ss_table[]`: parent, state, parent under test, data timer, block | packets, timers, test verdicts, SEED | every sub-stream has a source or gets one; one change of parent never takes another sub-stream's source |
| parents | `pk_mgr.cpp`, `peer.cpp` | `map_pid_parent`: connection state, manifest | select, set manifest, close | a parent is in the table as long as it is asked for something |
| sessions | `peer_communication.cpp` | `map_mysession_candidates` | candidate list, connect, select, stop | every session ends; no candidate connection is forgotten |
| block rescue | `peer_mgr.cpp`, `pk_mgr.cpp` | `block_rescue`, `can_send_block_rescue`, their timers | warn, flood to children, unblock | only the head of what starves goes to PK; repairs are postponed, never lost; floods end |
| stream buffer | `pk_mgr.cpp` | ring `buf_chunk_t`, `_least_sequence_number`, `_current_send_sequence_number` | a chunk arrives; late chunks are given up | in order, once, nothing overwritten while needed |
| players | `bit_stream_httpout.cpp` | `_queue_out_data_ptr`, `_send_ctl_info` | attach, send, detach | a queued chunk stays what it was |
| children | `peer_communication.cpp`, `io_*.cpp`, `peer.cpp`, `pk_mgr.cpp` | `map_pid_child`, sessions, `map_udpfd_*` | invite, connect, PEER_CON, SET_MANIFEST, close | a child that was selected has queues and keeps its socket; records and sockets are not forgotten |
| manifest messages | `peer.cpp`, `peer_mgr.cpp`, `peer_communication.cpp` | both records, control queues, wires | PEER_CON, SET_MANIFEST, replacing a queue | parent and child agree on what is sent |
| relay to children | `pk_mgr.cpp`, `peer.cpp` | data queues, send state per socket | relay, send the rest, freeze, release | chunks whole and in order; bounded queues |
| framing | `network*.cpp` | `Nonblocking_Ctl` per socket | receive, send in parts | messages stay whole |
| connection tables | `io_*.cpp`, `peer_communication.cpp` | fd tables | connect, accept, exchange roles | one entry per connection |
| clock and source delay | `pk_mgr.cpp` | `syn_table`, `delay_beyond_count` | token to PK and back, delay of a chunk, correction, verdict | the estimate of PK's clock is off by half a round trip and the drift at most; parents are given up only for late chunks |
| restart | `main.cpp` | `errorRestartFlag` | delete and create all | no state of the old run is used |
| log client | `logger_client.cpp` | two buffers | log, send | nothing dropped while there is room |
| registration, STUN, configuration | `register_mgr.cpp`, `stunt_mgr.cpp`, `configuration.cpp` | - | at start-up | - |

Parts call each other directly: `HandleStream` and `time_handle` change the
parent table and append control messages to the queues of `peer`; `peer` calls
back into `pk_mgr` when a socket breaks; sessions and tests share
`map_pid_parent`, which is where most of what is hard happens. What is hard to
test is listed under "hazards" in `PROJECT.json`, each at its line:
overlapping sessions, verdicts of tests that come after a parent was lost or
replaced, packets filtered by a manifest that is out of date, timers that must
repair everything, chunks out of order and at the limits of the ring.

## Modules

| module | what it is |
|---|---|
| `SubstreamTable` | the sub-stream table, the parents and the sessions of one client |
| `MCSubstreamTable` | its instances for TLC |
| `SubstreamTable_proofs` | theorems about it, with the refinements of `SharedRecords` and `ParentChange` |
| `SharedRecords` | abstract: what sessions promise about the peers they share |
| `ParentChange` | abstract: how a sub-stream comes to another parent |
| `StreamBuffer` | the ring of chunks and the queues of the players |
| `StreamBuffer_proofs` | theorems about it |
| `ChildLink` | the children of one client: records, sessions, sockets |
| `MCChildLink` | its instances for TLC |
| `ChildLink_proofs` | theorems about it, with the refinement of `SharedRecords` |
| `ChildRelay` | `StreamBuffer` and `ChildLink` composed: chunks queued for children, freezing |
| `MCChildRelay` | its instances for TLC |
| `FreezeStack` | abstract: what freezing children is meant to be |
| `ChildRelay_proofs` | theorems about it, with the refinement of `FreezeStack` |
| `ManifestLink` | `ChildLink` and one of its children, with the connections between them |
| `MCManifestLink` | its instances for TLC |
| `ManifestLink_proofs` | theorems about it, with the refinement of `ChildLink` |
| `MessageChannel` | abstract: what a connection promises to the handlers above it |
| `Framing` | `nonblock_send`, `nonblock_recv` and UDT, an implementation of it |
| `MCFraming` | its instance for TLC |
| `Framing_proofs` | theorems about it, with the refinement |
| `SourceDelay` | the estimate of PK's clock, and what late chunks lead to |
| `MCSourceDelay` | its instance for TLC |
| `SourceDelay_proofs` | theorems about it |
| `BlockRescue` | one sub-stream of a whole overlay and its BLOCK_RESCUE messages |
| `MCBlockRescue` | its instance for TLC |
| `BlockRescue_proofs` | theorems about it |

`SubstreamTable` is one client as a child, `ChildLink` one client as a parent,
`ManifestLink` one of each, `BlockRescue` all clients of a sub-stream. The
outcome of `Framing`, whole messages in order, is what the other modules assume
of a connection.

### SubstreamTable

A variable is a field of the code, named in the comment beside it. `manifest`
is a set of sub-streams instead of a bit mask, `conn` the `connection_state` of
a `map_pid_parent` entry ("none": no entry), `session` the map
`map_mysession_candidates`. `idle` stands for the data timer: it has run for
`DATA_TIMEOUT` ms. `asked` is on the side of PK: the sub-streams a message of
this client, or the registration, made PK send.

| action | code |
|---|---|
| `RescueList` | `CHNK_CMD_PEER_RESCUE_LIST` in `handle_pkt_in`, with `set_candidates_handler` |
| `Connected` | a connection in either direction is up and its `PS_class` known |
| `ConnectTimeout`, `SelectParent`, `SelectNobody`, `StopSession` | the session states in `time_handle`, with `SelectStrategy`, `SendPeerCon`, `SendParentTestToPK`, `StopSession` |
| `FirstPacket`, `Packet`, `LateRescue`, `LateBlocked` | `HandleStream` up to the ring, with `SourceDelayDetection` |
| `Silence`, `DataTimeout`, `DataTimeoutBlocked`, `Unblock` | timers of `time_handle` |
| `BlockRescue` | `HandleBlockRescue` |
| `TestPassed`, `MovePassed`, `TestFailed`, `MoveFailed` | the end of a test in `time_handle` |
| `Seed` | `HandleCMDSeed` |
| `ParentLost` | `CloseParent` after a socket error |

Abstracted: which of the eligible candidates `SelectStrategy` prefers (delays,
ranks, a random choice) is a choice; so is the verdict of a test once a packet
came, and the moment the source delay is found too large. Candidates of a test
and of NAT traversal end in `Connected` or never. The model starts after the
registration was answered. Bounds: `MaxSessions` candidate lists and
`MaxBlocks` block messages per behaviour.

Safety: `CandidateOwned`, `PKSourceKept`, `SourceKept` and
`EmptiedOnlyByMove` say what no interference of sessions, tests, packets and
timers may do. `SourceKept` names in `MayLose` the only ways a sub-stream may
lose its source: its parent breaks, its first packet arrives, a MOVE leads to the
parent it has, or a test ends for a parent that does not serve it. Each of the
four is what the code does, found by dropping it and reading TLC's trace.

Two abstract specifications say what the table and its sessions promise.

- `SharedRecords` has one record of each peer (none, candidate, selected) and the sessions that
  list the peer. A session opens with a list, a selected peer is no session's
  business any more, and `Close` may leave nobody behind: a candidate that no
  session lists. The mapping takes `Record` from `conn` and `Holders` from
  `session`. Manifests are not in it: that they decide whom `StopSession`
  closes, and still close the right ones, is what `RecordsSpec` says.
- `ParentChange` has the parent of each sub-stream and the candidate on trial.
  A parent is replaced by PK at any time, or by a candidate that was
  heard in the trial that is on. The mapping has a trial where `state` is "test"
  (`Tried`), and in it counts only what came since (`HeardInTest`), while
  `testing_parent_pid` and `pkt_count` keep old values outside of tests. So
  `ChangeSpec` fails if the packets of one test count for the next candidate.

Liveness (`Repaired`, `Settled`, `CandidatesSettled`) is checked under
`Fairness`: weak fairness of every step a timer of `time_handle` triggers,
which the main loop calls for ever. `Silence` is fair only for a sub-stream
nobody serves (`Starve`): no packet can refresh its timer. Nothing is assumed
of peers, of PK's lists, of packets or of connections; block messages are
finitely many (`MaxBlocks`), since nothing repairs a sub-stream whose ancestors
block it for ever.

### StreamBuffer

A chunk is its sequence number. `Dropped`, `Halt` and `Accept` are the ways a
packet leaves `HandleStream`: dropped (unknown sender, wrong manifest, duplicate
or old), too far ahead (`handle_error` stops the program), or stored in its slot,
after which late chunks are given up (`SkipTo`) and the chunks in the ring from
there on go to every player (`PlayableTo`, `Deliver`). `Attach`, `Detach`, `Take` and
`Sent` are the player's side. One stream id, media chunks only, numbered from 1.
The program really stops after `Halt`, so its runs do not check for deadlock.

### ChildLink

The parent's side of `peer_communication` and `peer`. A session is an entry of
`map_mysession_candidates` with the role PARENT_PEER, which PK's list of one
child opens; a socket is a number used once. `link` says who handles a socket
(`peer_communication`: "open", `peer`: "peer") or what UDT says of it;
`queued` and `info` are the sockets with entries in `map_udpfd_out_data` and in
`map_udpfd_queue`, which the code keeps apart.

| action | code |
|---|---|
| `Invite` | `SetCandidates` with caller PARENT_PEER |
| `Connected` | a connection is up, built by us (`io_connect_udp`) or by the child (`io_nonblocking_udp`); every session that waits for the child takes the socket |
| `ConnectTimeout`, `SelectDone`, `StopSession` | the session states in `time_handle`, with `StopSession` |
| `PeerCon`, `RefuseShared` | `peer_communication::handle_pkt_in_udp`, with `InitPeerInfo` |
| `SetManifest` | `CHNK_CMD_PEER_SET_MANIFEST` in `peer::handle_pkt_in_udp`, with `handle_manifestSet` and `CloseChild` |
| `Break`, `Reap` | UDT: a socket breaks, and is closed (external) |
| `SendPart` | `nonblock_send` closes a socket that takes only a part |
| `Fail`, `CloseOrphan` | errors in `peer::handle_pkt_out_udp` and `handle_pkt_in_udp` |
| `CheckSockets` | the walks of `time_handle` over `map_udpfd_queue` and `map_pid_child` |

`Walked` is what a walk erases when it starts again at `begin()` after every
entry it erases and then steps on. Sessions of this client as a child are in
the same map and only delay the end of others. Which of two connections a
child picks, when, and what it asks for are choices. Bounds: `MaxSessions`
invitations and `MaxLinks` connections per behaviour; when they are used up
and every child has left nothing happens any more, so deadlock is not checked.

A parent's sessions share `map_pid_child` as a child's share `map_pid_parent`:
`ChildLink` implements the same `SharedRecords` (`RecordsSpec`), although
here it is PEER_CON of the child that selects, sockets break, and the walk over
children forgets several at once.

Fairness (`LinkFairness`) is that of `time_handle`, which the main loop calls
for ever, for session timers and the walk over children, and that a socket
without a record is writable, so that `handle_pkt_out_udp` is called for it.
Nothing is assumed of children, connections or UDT.

### ChildRelay

`ChildRelay` EXTENDS both modules. `StoreAndRelay` is `HandleStream` storing a
chunk and `HandleRelayStream2` queueing it for every selected child that wants
its sub-stream; `SendChunk` is the data branch of `handle_pkt_out_udp`;
`FreezeChild`, `ReleaseChild` and `UpdateChildrenInfo` are the functions of
these names as `OverloadedDetection` calls them. `LinkOnly` and `BufferOnly` are
the steps of one part, with what they do to the state of the composition:
`CloseChildUDP` deletes the queues, and a record that is created anew is not
frozen. Abstracted: byte lengths of queues and the thresholds, so freezing and
releasing may happen whenever children for them exist; which child has the
largest round-trip time. `MaxFreezes` bounds the counter of freezes. Where the
code follows the null pointer of `queue_info` the program crashes, and the
model has no step. `RelayFairness` lets `OverloadedDetection` release a child
only when nobody who wants chunks is left unfrozen: the mean queue length is
then a quotient by zero, the smallest int on x86.

`FreezeStack` is what a comment above `ReleaseChild` says freezing is to have:
the effect of a stack. It is a relation `above` between frozen children, which come and go, and no numbers.
`StackSpec` maps it to the numbers the code gives (`frozenSeq`); that a
record made anew is not frozen keeps a child that comes back out of the stack.

### ManifestLink

`ChildLink` lets SET_MANIFEST come from nowhere. `ManifestLink` EXTENDS it with
the child `Me`: its sessions (`mySession`), its `map_pid_parent` entry
(`myConn`, `expected`, `mySock`), the control queue of that entry's socket, and
what is on the wires. Every step of `ChildLink` is a step of the parent
(`ParentStep`, `Deliver`), and a connection is one step of both ends (`Linked`).

| action | code |
|---|---|
| `Listed` | `SetCandidates` with caller CHILD_PEER |
| `MyTimeout`, `Select`, `Pass`, `MyStop` | the session states in `time_handle`, with `SelectStrategy`, `SendPeerCon`, `InitPeerInfo`, `StopSession` |
| `Drop`, `DropMoved` | a sub-stream is taken from the parent, with `send_manifest_to_parent` and `CloseParent` |
| `Send`, `CloseReplaced`, `MyFail` | `handle_pkt_out_udp`, and the errors it and `time_handle` find |
| `Deliver` | the parent reads a message: `handle_pkt_in_udp` of `peer_communication` or `peer` |

`Announce` is what is delicate here: PEER_CON is written to the socket past all
that is queued, and `InitPeerInfo` makes the queue anew, so control messages
still in the old one are lost. `Outcome` says what the parent can be like once
it has read everything under way: the last message of the connection in use (`Talk`) that
names the sub-stream decides (`LastSays`); if none does, what the parent has now or any
message on another socket may. `MissingOnlyByListing` and
`ExcessOnlyBySelection` say that exactly one kind of step each makes that differ
from what the child expects. `LastWordAssumption` of the MC module has TLC compare
`Outcome`'s last word with reading the messages one by one (a fold), for all
queues of up to four messages. Left out are other candidates of a session (they show as `Pass`).
Bounds: `MaxSessions` sessions of each end, `MaxLinks` connections.
Fairness (`ManifestFairness`): sockets that are writable and readable are served.

### MessageChannel and Framing

`MessageChannel` says what a connection promises: messages of a queue come out
whole, in order, each once. `Framing` is one direction of a UDT connection. The
sender's `HandleOut` is `handle_pkt_out_udp` with `nonblock_send`: control
messages in a loop, then one of data; a message that only fits in part makes it
close the socket. `Recv` is one round of `handle_pkt_in_udp` with
`nonblock_recv`, whose four states are `phase`. A unit of the stream names its message and
its place in it, so a misplaced or lost unit shows; header and payloads are
a few units long. `Channel == INSTANCE MessageChannel WITH ...` maps the variables of the same
names; `ChannelSpec` is checked by TLC and proved.

What the code does in the middle of its loop is in `SendCtrlFull` and
`SendCtrlRest`: the send buffer is full, or the socket is the one just closed,
for which `nonblock_send` falls off its end (any return value) and later stops
the program. A header is always followed by a payload of at least one unit
(`PayloadsAssumption`): a message of length zero would be a `recv` of nothing.
Fairness: handlers are called as long as the socket is ready, and UDT repeats
what it loses. Bounds: `MaxPosts` messages of a queue.

### SourceDelay

| action | code |
|---|---|
| `SendToken`, `Reply` | `syn_table_init`, `send_syn_token_to_pk`, `syn_recv_handler` |
| `PKReceives`, `PKReplies` | PK (external) |
| `Arrival` | `GetChunkSourceDelay` and `SourceDelayDetection`, for a chunk `HandleStream` has accepted |
| `Block`, `Unblock`, `MayTell`, `Silent`, `DataTimeout` | `SetSubstreamBlockRescue` and timers of `time_handle` |
| `Settle` | repairs and tests, as far as they change what is judged here |

A tick is a millisecond of the client's clock, in which PK's may gain or lose
one; a chunk takes any time. The clock can stop at its bound, and late chunks
at theirs, so deadlock is not checked. `Late` is measured by PK's real clock,
which the code never sees, and `run` counts chunks that were late by it:
`NoFalseRescue` compares the verdicts of the code with that truth. Bounds:
`MaxNow`, `MaxDrift`, `MaxTransit`, `MaxRun`.

### BlockRescue

All clients of one sub-stream. `parent` and `child` are the two ends of each
edge, which do not always agree; timers are in seconds. `Fed` are the clients
PK's chunks reach, `Rooted` those not in or below a loop of parents.

| action | code |
|---|---|
| `TimeHandle` | one run of `time_handle` for the sub-stream: interval over, block over, warn (`SendBlockRescue`), data timeout |
| `HandleBlockRescue` | the function of this name, with `SetSubstreamBlockRescue` |
| `ChildLeaves` | SET_MANIFEST at the parent that was left |
| `TestPassed` | the end of a test that gives the client a new parent |
| `Fail`, `Heal`, `Leave`, `Lose`, `Tick` | the network, other processes, UDT, the clock (external) |

The messages of an overlay are a set: two equal ones have the effect of one.
`Tick` waits until nothing is due, since `time_handle` runs every few
milliseconds, and until no message is older than `MaxLag`. A client that goes
to PK is served (PK is the source of last resort), which ends the repair here;
the sessions and tests that follow are `SubstreamTable`. The warnings of the
source-delay verdict are in `SourceDelay`; they have no second to spare, and
`OnlyHeadsRescue` does not cover them. Fairness: time passes, `time_handle` is
called, UDT delivers what is sent on sockets that stay. Bounds: `MaxFaults`
failures and departures, `MaxMoves` new parents.

## Runs

| run | instance | result |
|---|---|---|
| `moves` | two peers, one sub-stream, two sessions, one block | `ChangeSpec` (a refinement), `EmptiedOnlyByMove` hold; so do `Repaired`, `Settled`, `CandidatesSettled` |
| `shared` | one peer, two sub-streams, two sessions | `CandidateOwned`, `PKSourceKept`, `SourceKept`, `RecordsSpec` (a refinement) hold |
| `seed` | as `moves`, one session, no block | `SeedDetachesAll` is violated |
| `child_link` | two children, two sessions, two sockets | two invariants, `RecordsSpec` (a refinement), `SessionsKeepSelected` and four liveness properties hold |
| `queue_info` | as `child_link` | `QueueInfoFound` is violated |
| `relay` | one child, two sub-streams, ring of 4, window of 2, numbers to 5, one player | five invariants, `NoneOverwritten`, `PassedOverOnlyLate` hold |
| `freeze` | three children, one chunk, two freezes | `StackSpec` (a refinement), `StarvedReleased` hold |
| `framing` | header of 2 units, payloads of 1 and 2, send buffer of 5, two messages a queue | `ChannelSpec` (the refinement), `Delivered` hold |
| `manifest` | one sub-stream, two sessions a side, two connections | `MissingOnlyByListing`, `ExcessOnlyBySelection`, `Answered` hold |
| `asked` | as `manifest` | `SelectedIsAsked` is violated |
| `delay` | skew 3, delay limit 2, 6 ms with drift of 2, chunks of 0 to 6 ms | four safety properties hold |
| `flood` | three clients, timeout 3, block 5, interval 2, two hops, two faults, one move | `OnlyHeadsRescue`, `BlocksPassOn`, `Repaired`, `Calm`, `FloodEnds` hold |

Two peers are enough for a MOVE between peers, a test next to a parent, and the
walk of `HandleCMDSeed` over two entries; two sessions for one to select,
strip or stop what another uses; two sub-streams on one parent for a manifest
that must not be emptied. The symmetry of `shared` permutes sub-streams, which
nothing orders. Peers are ordered (the parent table is walked by pid), so they
are never symmetric.

Two sessions for one child are what it takes to share a socket, to stop one
session while the other waits, and to replace the socket of a child; two
children are what a walk can step over. `freeze` starts in a state (`AllSelected`)
in which three children are already selected, the least for two frozen at once
since the last is never frozen; how they get there is the subject of
`child_link`. In `relay` a ring of 4 with numbers to 5 wraps, and the window is half of it,
so a gap can be inside the window, outside it, and larger than the ring; larger
rings and longer streams are the proofs' part.

Two connections and two sessions a side are the least for a connection to be
replaced while messages for the old one are queued, and for two sessions to
choose different ones. A send buffer of 5 holds less than two of the largest
messages, so every message can be cut anywhere. In `delay` the clocks may drift
by as much as the delay limit, and a token's round trip can take up to the whole
behaviour. In `flood` three clients make a chain, a fork, and a loop through one move;
`MaxHops` is 2 instead of 5 so that a loop of three reaches the limit. The
timeouts are those of the code, in seconds: a block outlasts a timeout, which
outlasts the interval. The run starts with overlays in which parents come first by
name (`OrderedInit`); any other is one of these with the clients renamed. Messages
arrive in the second they were sent (`MaxLag` 0); the proof has any lag.

## What the runs found

- `seed`: `HandleCMDSeed` starts its walk again at the first parent and steps over
  it (`pk_mgr.cpp:2497`), so the parent after the first may keep the sub-stream.
- `queue_info`: if the sockets of two children close together, the second keeps
  its record for a round while its `queue_info` is gone (`pk_mgr.cpp:5131`,
  4787-4798), and the next relay or overload check follows a null pointer.
- `asked`: who loses in one session is stripped of its sub-streams in the record
  all sessions share (`peer_communication.cpp:1944`); another session then picks
  it with an empty manifest, which the parent takes for a farewell.

Other behaviour of the code is named by an exception in a property that holds.
Each exception was found by leaving it out and reading TLC's trace:

- `PKSourceKept` is stated of sub-streams that have `started`: a session that
  finds nobody asks PK, but the line that marks the sub-stream in PK's manifest
  is commented out (`pk_mgr.cpp:4956`), and the first packet can make PK its
  parent without it. The data timeout repairs that.
- `EmptiedOnlyByMove`: after a MOVE the old parent is closed with the new
  parent's socket (`pk_mgr.cpp:5489`), which closes nothing.
- `PassedOverOnlyLate` allows one chunk inside the window: the loop over late
  chunks tests a difference computed a round earlier (`pk_mgr.cpp:2411`).
- `MissingOnlyByListing`: a list that names a parent in use adds to the child's manifest
  what the parent is told only if the session picks it.
- `ExcessOnlyBySelection`: a parent in use that is picked once more loses the
  MINUS messages still queued for it (`InitPeerInfo`, `peer.cpp:398`).
- `ToldBeforeRescue` needs `DelayTimes > 0`: at low packet rates one late chunk
  is enough, and the children are not told.
- `Repaired` and `Calm` of `BlockRescue` are stated outside of loops. In a loop of
  parents everybody is blocked by messages that are its own in the end,
  since `original_pid` is never compared, and nobody goes to PK. The limit on
  hops ends each flood, not the next one. Only PK's lists keep loops from arising.

## Proofs

TLAPS proves, for every value of the constants that satisfies the assumptions:

- `SubstreamTable_proofs`: `TypeCorrect`, `CandidatesOwned`, `PKSource`,
  `SourceIsKept`, `OnlyMoveEmpties`. The inductive invariant is `IInv`: types,
  `CandidateOwned`, and three facts it needs. `BitsOwned` says that a candidate
  which was never selected owes every sub-stream in its manifest to a live session
  that lists it: without it `StopSession` could find a manifest that is not empty
  and leave a connection nobody owns. `NoneEmpty` says that peers outside the table
  have no manifest, and `FreshSessions` that the next session id was not used.
  The action properties follow from the types, one action at a time. The assumption that PK's pid is larger than that of any
  peer is what keeps PK out of the walk of `Seed`.
  `ParentsAreShared` is the refinement of `SharedRecords`. Its invariant is `IInv` too:
  `FreshSessions` makes the session that opens a new one, `CandidateOwned` after
  `StopSession` is what `Close` demands, and `OnlyShrinks` makes every step of a
  sub-stream a `Forget`. `ParentsChangeByTest` is the refinement of
  `ParentChange`, from `ChangeInv`: a test has a candidate (`TestsNamed`), and
  nothing is counted before the first packet (`HeardStarted`).
- `StreamBuffer_proofs`: `TypeCorrect`, `NeverAheadHolds`, `NoneIsOverwritten`,
  `DeliveredInOrder`, `QueuedChunksIntact`, `OnlyLatePassedOver`, for every ring,
  window and number of players. `RingInv` holds of numbers and slots: a slot
  holds a chunk of its own, no newer than the newest. Two numbers of one slot are
  a ring apart (`RingApart`), so what a packet overwrites is a ring old. On top
  of it `PlayerInv` says for each player what `InOrder` and `QueuedIntact` say.
- `ChildLink_proofs`: `LinkTypeCorrect`, `QueuesFound`, `RecordsOwned`,
  `SessionsKeep`, for any number of children, sessions and sockets. The
  inductive invariant `LinkIInv` adds to what is proved that queues belong to
  sockets that were used, that a used socket has an owner, that the sockets of
  a session are its child's (`SessionSocks`; without it a session could close
  another child's socket), and that only selected children have a manifest
  (without it `ClosesRecord` could spare a record nobody owns).
  `ChildrenAreShared` is the refinement of `SharedRecords`, with `RecordOwned` where `Close` needs it.
- `ChildRelay_proofs`: `RelayImplements` says that the composition implements
  `StreamBuffer` and `ChildLink`, so every theorem above holds of it.
  `ChunksQueuedOnce` and `RelayedIntact` follow from `RingInv` and `RingApart`: a
  chunk that is stored is newer than what its slot held, and what queues hold is
  no newer than their slots. `StackOrder` rests on `FrozenInv`: numbers
  of frozen children are distinct, and a frozen child is selected, hence, by
  `QueuesFound`, among those that are looked at. `FreezingIsStack` is the refinement of
  `FreezeStack`: freezing gives the largest number yet, so the child goes on
  top of all others (`FreezeIsPush`), and a child that is closed leaves the order of
  the rest as it was (`RestOfStack`).
- `Framing_proofs`: `FramingInvariant`, `FramingTypeCorrect` and
  `FramingIsChannel`, which is the refinement: whatever the sizes of headers,
  payloads and the send buffer, `Framing` implements `MessageChannel`. The invariant
  cuts the stream into whole messages, the message under way being the last and
  the only one that may be cut short, and says that the receiver's buffer
  is the beginning of the next message. That a message cut short is the last is what closing the
  socket in `SendPart` is for.
- `SourceDelay_proofs`: `DelayTypeCorrect`, `EstimateIsBounded`,
  `CorrectionsSuffice`, `VerdictsAreFounded`, `ChildrenAreTold`, for every skew,
  drift and delay. The invariant says what the token's times
  prove about PK's clock (`TokenInv`), bounds the error of the estimate less the
  corrections (`EstimateInv`), and says that what is counted as late was late
  (`CountedAreLate`).
- `ManifestLink_proofs`: `ManifestTypeCorrect` and `ManifestImplementsLink`, for any
  number of sub-streams, sessions and connections. What a child queues is PEER_CON,
  its manifest, or one sub-stream less (`OnlySent`), so whatever the parent reads,
  after whichever failures, is a message that `ChildLink` has, and every step of the
  two is a step of `ChildLink` or leaves the parent alone. The theorems of
  `ChildLink_proofs` then hold of it; `ManifestQueuesFound` says so of two.
  `MissingByListing` and `ExcessBySelection` are about queues and wires of any length. What a
  message appended, read or lost changes in what the messages say of a
  sub-stream is stated once for any queue; the invariant says that a selected
  child's socket is one that PEER_CON has moved to `peer` (`SelectedSock`), and that every
  control queue is served or its socket shut (`QueuesTidy`), so nothing old is in the way
  when `Announce` starts anew.
- `BlockRescue_proofs`: `BlockRescueTypeCorrect`, which has the limit on hops, and
  `OnlyTheHeadRescues`, for any number of clients, any overlay, any lag of
  messages, and any timeouts with the proportions assumed in `TimeAssumption`. A
  client that reaches its timeout without being blocked warned its children exactly one
  tick ago: `WarnedInTime` says that the interval after an earlier warning never
  spans the second in which the next is due. What it told a child is then on
  the way or blocks the child (`ToldAtWarning`, `ToldAtTimeout`), because a parent
  knows its children (`ParentKnows`). That the interval
  is shorter than the timeout (2 and 3 seconds in the code) is what the proof
  needs of the constants.
  `BlocksArePassedOn` is about behaviours in which no message exceeds the limit on
  hops (`WithinLimit`), where a block would end with the flood; loops and lost messages
  are allowed. Its invariant `PassedOn` says that a child that starves since
  before its parent was blocked was told so, or is being told.

Only model-checked is liveness under fairness, which is out of the prover's reach:
`Repaired`, `Settled`, `CandidatesSettled`, `SessionsEnd`, `InvitedSettled`,
`BrokenForgotten`, `OrphansClosed`, `StarvedReleased`, `Delivered`, `Answered`, and
`Repaired`, `Calm` and `FloodEnds` of `BlockRescue`. Every safety property of the
passing runs is proved.

The type invariants are proved, for all values of the constants, and not run.

## Not modelled

- Connection tables: which fd a connection has in which of the tables of
  `io_connect*`, `io_nonblocking*` and `peer_communication`. What is decided
  there, which session gets which connection, is in `ManifestLink` (`Linked`).
  NAT traversal around it is vendored.
- The TCP variants of `nonblock_send` and `nonblock_recv` in `network.cpp`, for
  PK, the log server and the players. They serve other processes, of which
  nothing is known here; `peer` uses UDT.
- Players: HTTP requests, headers and the search for a first key frame decide
  where a player starts, which is `Attach` with any number. FLV and other
  containers are payload. A player whose socket closes for reading only leaves
  its object in the table until the fd is used again (`network.cpp:221`), which is
  a leak and no state of the ring.
- The byte lengths of the queues, and the thresholds of the overload control
  computed from them; both are choices in `ChildRelay`.
- Sequence numbers do not wrap: at 32 bits that takes years of stream.
- The restart loop of `main.cpp`: objects are deleted and created again, and what
  survives is process memory and what PK remembers, which is not in `src/`.
- The log client, registration and STUN, configuration, RTSP and RTMP output:
  start-up, I/O and text, on which no state modelled here depends.
- PK. Its lists are any list, its answers any answer; that a sub-stream asked
  from PK is sent is assumed (`asked` of `SubstreamTable`, `TimeHandle` of
  `BlockRescue`).
- Vendored and generated code: UDT, STUN, librtmp, librtsp, JSON, IRC, an older copy of
  `pk_mgr` in `webctrl`, the Flash test application and Visual Studio files.
  They are more than two thirds of the lines of the repository. Of the rest much is
  logging, error text, socket calls, and variants for TCP of handlers that peers
  use for UDT.
