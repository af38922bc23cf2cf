# A formal model of mcp-sniffer

mcp-sniffer captures Bluetooth LE packets from a Nordic nRF dongle, for a
command line and for an MCP client. It is a small program made almost entirely
of hand-overs between goroutines: a serial read loop, a store, an auto-tuner,
timers, file writers and request handlers. This directory holds TLA+ modules of
those parts, the TLC configurations that check them on small instances, and
TLAPS proofs of what matters most.

Paths below are relative to the repository's source (`sniffer/sniffer.go` is
`src/sniffer/sniffer.go` in `PROJECT.json`, whose `map` gives the lines each
definition stands for).

## The system

| part | state | operations | talks to |
|---|---|---|---|
| `sniffer` | port, `running`, `scanFlags`, `txCounter`, `writeMu`, packet channel | `Start`, `Stop`, `Follow`, `UpdateScanFlags`, `ScanFlags`, read loop | firmware (serial), store (channel) |
| frame codec (in `sniffer`) | partial frame, `inFrame` | SLIP, V1/V3 headers, frame assembly | read loop, commands |
| `bledata` | packet log, `seenExtAdv`, filter, `stopCh` | `Start`, `Stop`, `SetFilter`, `Get`, `Count`, consumer | sniffer (channel), readers |
| `blecap` | `followAddr`, `stopTuneCh` | `Start`, `Stop`, `SetFilter`, `SetFollow`, auto-tuner | owns a sniffer and a store |
| `mcpserver` | `sess` under `sessMu`, `baseIndex`, timer, file writer | eight tool handlers | owns at most one capture |
| `blepdu` | none | addresses, roles and names of PDUs | called by store and printers |
| `main` | the printer's offset | run for a duration, print packets, report a total | owns one capture |
| `bledev` | none | find the dongle | called before `Start` |
| serial ports (`sniffer/port_linux.go`) | a descriptor's number | open, read, write, close | the kernel |

For each part, what is hard and what makes it correct:

- **sniffer.** The owner, the read loop and any number of command callers run
  at once; Stop closes the port under a reader and a writer, then the channel.
  Correct when nobody sends on the closed channel, Stop and every command
  return, the firmware's scan flags and `scanFlags` agree at rest, packets keep
  their order although a full channel loses some, and the 16-bit counter does
  not repeat where it should not.
- **frame codec.** The line loses bytes, and nothing but a length protects a
  frame. Correct when a frame that arrives whole is decoded as sent whatever
  came before it, and damage does not pass for a packet.
- **bledata.** The filter is read under one lock and the packet appended under
  another; the consumer's select takes either ready case. Correct when a filter
  change is overtaken by one packet at most, the log only grows and in order,
  `HasExtendedAdv` is exact, and the consumer ends.
- **blecap.** Stop and a failed Start must take down three goroutines in an
  order in which none waits for or sends to one that is gone; the auto-tuner acts
  on what it read earlier. Correct when nothing is left running, the tuner
  respects the evidence it has, and follow mode survives it.
- **mcpserver.** Handlers and timers share a session under `sessMu`; readers
  and the file writer use it without. Correct when no session ends another's
  capture, `writerStop` is closed once, nothing keeps running unowned, counts
  are not negative, pages and files have the packets they should, and nobody
  holds `sessMu` for ever.
- **blepdu.** Lengths come from the air. Correct when no address reaches past
  its payload or header, and every label belongs to its address.

The list of hazards line by line, with the properties that guard each, is
`hazards` in `PROJECT.json`.

## The modules

| module | models | state and actions |
|---|---|---|
| `Store` | `bledata/store.go` | `chan`, `log`, `filter`, `seenExt`; the consumer is `Recv`, `Process` (the filter read), `AppendPacket` (the append), `ConsumerExit`. `mark` records the length of the log at the last filter change |
| `Sniffer` | `sniffer/sniffer.go` without bytes | the owner's `Start` (one action per frame of the init sequence) and `Stop` (swap, close port, wait and close channel), the read loop's `ReadPacket`, `Deliver`, `ReadEnds`, a caller's `Begin`, `Lock`, `BuildFrame`, `WriteFrame`, and `fw`, what the firmware makes of each frame |
| `Slip` | the codec of `sniffer/sniffer.go` | the dongle's `Send`, the line's `Arrive`, `Lose` and `Disturb`, and the three cases of the read loop's switch |
| `Capture` | `blecap/capture.go` | an instance of `Sniffer` and one of `Store` that share the channel, and between them Start, Stop, SetFilter, SetFollow and the auto-tuner step by step |
| `CaptureLog` | what a capture promises | a log that only grows while the capture is on |
| `McpServer` | sessions of `mcpserver/server.go` | `step` is the control point of whoever holds `sessMu`; `sniffer_start`, `sniffer_stop`, clears, timer functions and file writers, over captures that do what `CaptureLog` promises |
| `Readers` | `Get` and `Count`, the printer of `main.go`, the tools of `mcpserver/server.go` that show packets | over an instance of `Store`: `SetFilter` with `discard`, `ClearPackets`, a client's `walk` of `sniffer_get_packets` (`GetSnapshot` under `sessMu`, `GetCount` and `GetPage` without), `PrintPoll`, `PrintPacket`, `PrintAdvances`, and the stop and final count of both modes |
| `Port` | `sniffer/port_linux.go` with its callers | `table` is the kernel's; `Open`, one `Configure` or `ConfigureFails` per call of `openNativePort`, the close in Start and Stop, and the read loops' reads, which name the number and not the file |
| `BlePdu` | `blepdu/blepdu.go` | `Process` parses a PDU as the store does and labels it as the printers do |
| `AddrText` | the spelling of addresses in `main.go`, `bledata`, `sniffer` and `blepdu` | `Give` makes a filter, the set of its entries (`splitFilter`, `normaliseAddr`, `validFilterEntry`, `matchFilter`), and an address to follow (`parseAddr`) of the same text |
| `StoreProofs`, `SnifferProofs`, `CaptureProofs`, `McpServerProofs`, `ReadersProofs`, `PortProofs`, `AddressProofs`, `SlipProofs` | | theorems and proofs |
| `MCStore`, `MCSniffer`, `MCSlip`, `MCCapture`, `MCMcpServer`, `MCReaders`, `MCPort`, `MCAddresses` | | small instances; `MCAddresses` extends both `BlePdu` and `AddrText`; a behaviour is a packet or a text |

How they compose. `Capture` is built of `Sniffer` and `Store` and implements
`CaptureLog` (property `ImplementsCaptureLog`, with `own` mapped to `phase`);
`McpServer` builds on that abstract capture, so that sessions can be checked
without the dongle. `Readers` is built of `Store` alone, since readers never see
the sniffer. `Port` looks below `Sniffer`: it shows how a port's open and close
relate to the kernel's descriptors, and where `Sniffer`'s view of a port (a read
of a closed port fails) is too simple. `Slip` looks below `Sniffer` at the bytes
of one frame, `BlePdu` and `AddrText` below `Store` at what an address is.

Abstractions, and what they leave out. A packet is its number and the few
fields the program decides on; an address is a model value and a filter entry
the set of addresses it covers. `Sniffer` reads whole packets, `Slip` has the
bytes. A page in `McpServer` is an interval of indices; in `Readers` packets are
their indices in the log, and what `pdu_type` and `address` select is a set of
bodies. Bytes of addresses in `BlePdu` are their offsets. One dongle, so that a
capture still on makes the next start fail, as the exclusive open of the port
does; `Port` and `McpServer` take TIOCEXCL to succeed, whose error the code ignores
(`sniffer/port_linux.go:94`). Commands are sent only to a sniffer whose Start has
returned, as `blecap` does, although `running` is true a little earlier.

Definitions under the words "Faulty variant" are not part of any specification:
each is an action or operator with a bug that the code could plausibly have,
kept beside the definition it would replace, and the property that catches it
is listed with it under `mutants` in `PROJECT.json`.

## The runs

| run | instance | shows |
|---|---|---|
| `store` | 2 addresses, an entry for each, 5 bodies, channel of 1, 3 packets | the consumer against filter changes and Stop |
| `sniffer` | 2 callers with a command each, 2 flag bytes, 4 packets, channel of 2, counter modulo 4, a port that may fail | every interleaving of owner, read loop and callers, and that they end |
| `slip` | 16 packets with special bytes in header and payload, V1 and V3, 2 frames, 3 faults | resynchronisation and rejection |
| `capture` | started with no, a valid or an invalid follow address; plain and extended packets, 2 of them, channel of 1, 2 commands of each caller, a filter change at any time, one Stop | the stop order, clean failure, the tuner's evidence, follow mode left alone, `CaptureLog`, and that Stop returns |
| `server` | 2 sessions, 2 packets each, pages of 1 | timers, stops, clears and files in every order, and that handlers and auto-stops end |
| `readers` | one filter entry, a packet it admits and one it does not, 3 packets, pages of 1 by default and 2 at most, the printer's of 2; clients that ask for all packets from the first or from the second on, or for one kind only | readers against the consumer, filter changes, clears and Stop |
| `port` | 3 sniffers one after the other, 3 descriptors | descriptors used again, on every path through Start and Stop |
| `addresses` | PDUs to 32 bytes, all types, header lengths to 14, all flags; texts to 5 characters of three digits, two separators, comma, blank and another, addresses of 2 octets | the parser against the formats, the spelling against octets |
| `tune_follow`, `empty_follow`, `stop_twice`, `flush_stop` | as `capture` or `server`, smaller | the divergences below |

Why these bounds are enough. A channel of 1 is full after one packet, so two or
three packets make it full, drained and full again; where the order inside it is
the question it holds 2, and the packets are four. A counter modulo 4 wraps
within the six frames of the init sequence. Two callers are enough for a lost
update; two sessions are enough for a timer that outlives its own. A page of 1
makes a backlog of 2 longer than a page. Three faults are an end byte and a
start byte lost, which merges two frames, and one more. A second address ends
at byte 31 and an extended header at 13: the bounds go one past them. Three
sniffers let two failed starts leave their read loops behind while a third
runs, and the third descriptor is for an output file. An address of two octets
has a first octet, a last one and a separator, and five characters are its
whole length. A client that begins with the second packet has a first offset
inside, at the end of and beyond what it may read. What these instances show of
safety the theorems show for every size.

Deadlock is not checked: a capture that has been stopped, a store that has ended
and a packet bound that has been reached are where these systems may stop.

Fairness, where liveness is checked: a goroutine that can run is scheduled
(weak fairness of its steps, the printer's and the handlers' included);
`sync.Mutex` starves nobody (strong fairness of a caller's steps and of a
timer's `TimerLocks`); the ticker's and the stop channel's cases of a select are
both taken if ready again and again (strong fairness of `WriterDrain`); a read
of a closed port returns and `port.Write` returns. Not assumed: that the dongle
sends or falls silent, that a timer expires, that anyone calls Stop, or that a
read error ever happens. `Recovers` of `slip` is an action property and needs no
fairness.

### Where the code and its documentation differ

Four runs state what a comment or description says and find it violated:

- `tune_follow`: the auto-tuner is suppressed for a follow address given at
  Start only; follow mode set by `SetFollow` is reset by its `REQ_SCAN_CONT`
  (`blecap/capture.go:168`, `:178`).
- `empty_follow`: `SetFollow("")` does not clear follow mode but returns an error
  (`blecap/capture.go:201`, `sniffer/sniffer.go:279`).
- `stop_twice`: a second `Capture.Stop` closes the store's `stopCh` again
  (`blecap/capture.go:150`, `bledata/store.go:78`).
- `flush_stop`: `sniffer_stop` flushes one page of 64 packets only
  (`mcpserver/server.go:595`, `:233`, `:245`).

Others appear as the exception that a passing property makes:

- `FlagsAgree` excepts the time after a REQ_SCAN_CONT that could not be written:
  `scanFlags` is assigned first (`sniffer/sniffer.go:237`), so until the next one
  `ScanFlags` reports what the firmware does not do.
- `DrainsWhenClosed` excepts a store that is being stopped: the select may take
  the stop channel with packets still buffered (`bledata/store.go:126`).
- `OwnBytes` excepts the read loop of a failed Start. "Closing the port causes
  any blocking Read to return with an error" (`sniffer/sniffer.go:159`) is not
  what closing a descriptor does on Linux: a read under way returns with its
  timeout, and the next read names the number again. Stop waits for the loop;
  a failed Start does not (`sniffer/sniffer.go:146`), so its loop may read the
  port of the next sniffer. `Sniffer`'s `FailedStartEnds` is therefore about a
  failed Start after which nothing else opens that number.
- `FlushedByPage` is about `sniffer_stop`. The auto-stop timer ends the writer
  before the capture (`mcpserver/server.go:335`), so packets stored in between
  do not reach the file.
- `NothingElseRuns` excepts captures in `leaked`: a `sniffer_start` that fails
  at the follow command leaves its capture on with no session to stop it
  (`blecap/capture.go:136`, `mcpserver/server.go:311`).
- `FlushedByPage` also excepts the packets before the place where the file
  begins (`first`). The writer reads `baseIndex` when its goroutine first runs
  (`mcpserver/server.go:226`), so a clear right after `sniffer_start` moves that
  place; a clear that comes later does not take from the file what it hides.
- `VisiblePasses` excepts the first visible packet: `discard_existing` counts
  when the filter is in place, and a packet judged under the old one may still
  be on its way (`mcpserver/server.go:431`).
- `PagesFit` promises every packet only to a client whose `baseIndex` stays where
  it is: offsets count from it, so a clear between two calls makes the client
  skip packets (`mcpserver/server.go:527`). And only from the offset on with which
  the client began, whatever that is.
- `PrintsAll` excepts a program that is being stopped: packets stored at the end
  are counted and not printed (`main.go:95`).
- `SeenExtExact` is about every packet stored: evidence of extended advertising
  stays after a filter change to other addresses (`bledata/store.go:193`).
- `EvidenceKept` counts evidence up to the tuner's read of the scan flags, the
  step before it reads the evidence (`blecap/capture.go:183`); what is stored after
  that read comes too late. And it says nothing about the filter, which the tuner
  tests earlier (`blecap/capture.go:178`): the filter may be cleared before the
  command is sent.
- `RolesOfMost` excepts ADV_EXT_IND, whose addresses `AddressRoles` does not
  label (`blepdu/blepdu.go:85`).
- `FollowMeansFilter` compares texts that both parsers take. `parseAddr` also
  takes octets of one digit or of three (`sniffer/sniffer.go:285`), which are
  refused as filter entries.

## The proofs

TLAPS proves the following for every value of the constants that the named
assumptions admit: `BodyAssumption` and `SizeAssumption` of `Store`,
`SizesAssumption` and `NamesAssumption` of `Sniffer`, `CaptureAssumption` and
`PartsAssumption` of `Capture`, `ServerAssumption`, `ReadersAssumption` and
`StoreAssumption` of `Readers`, `PortAssumption`, `PduAssumption`,
`TextAssumption` of `AddrText` and `SlipAssumption`. They say that sizes are natural
numbers, pages and channels not empty, that the markers for "none" are not one of
the things they stand beside, that a digit has a value below 16 and one upper case
form, which is that of the digits of the same value, and that a payload is no longer
than the length field of its header can say: a byte in V1, two in V3.

- `StoreProofs`: `TypeCorrect`, `StrayBounded`, `EvidenceExact`, `LogOrdered`,
  `NeverRewritten`. `TypeOK` alone is not inductive: the consumer must hold a
  packet between its receive and its append. For the filter, the packet about
  to be appended either passes the current filter or nothing has been appended
  since that was set; so only the first packet after a change can stray. For the
  order, every number in the channel exceeds those in the consumer's hand and
  in the log.
- `SnifferProofs`: `TypeCorrect`, `NeverPanics`, `CountersDiffer`,
  `FirmwareAgrees`, `ChannelOrdered`. The channel is closed only at the end of
  Stop, when the read loop has ended and cannot start again. A counter is the
  last frame's when that was a REQ_FOLLOW and its successor otherwise. Between
  the assignment of `scanFlags` and the write, exactly the holder of `writeMu` has
  a frame pending that carries the new flags. Every number in the channel is
  at most `emitted`, which the next packet exceeds.
- `CaptureProofs`: `TypeCorrect`, `NeverPanics`, `NothingLeftBehind`,
  `EvidenceRespected`, `FollowSurvives`, `ImplementsLog`, all for a capture that is
  stopped at most once (`Once`), since a second Stop panics. The argument is by
  composition: every step of a capture is a step of its sniffer or leaves the
  sniffer alone (`SnifferSteps`), so the invariants of `SnifferProofs` hold of it
  without being proved again. To them it adds how far the owner has come and
  what runs at that point (`OwnInv`), and that only the tuner changes the scan
  flags, once and outside follow mode (`TuneInv`). For the refinement, the packet
  in the consumer's hand is later than the log and earlier than the line
  (`LogInv`), so that each append is a step of `CaptureLog` and every other step
  leaves its variables alone or moves `phase`.
- `McpServerProofs`: `TypeCorrect`, `CountsNeverNegative`, `NeverPanics`,
  `SessionsEndStopped`, `OnlyTheSessionRuns`, `FlushedUpToAPage`, `SessionLogs`.
  Four layers: whose session the holder of `sessMu` works on, that no offset
  exceeds its log, and that no file begins after `baseIndex`, because that only
  grows (`TypeInv`); a current session has a capture that is on and an
  open `writerStop` until the holder stops the one and closes the other, because
  a started capture is fresh (`StopInv`);
  a session that is not current has no writer and, unless leaked, no capture
  on (`OwnedInv`); a capture that is over has a log that stands still, so what
  the final drain left over stays so (`DrainInv`).
  `StopInv` also makes the server the owner that `CaptureProofs` asks for: it
  stops each capture at most once (`NeverPanics`), so `Once` is no further
  assumption for captures made by the server. And with it each session's capture
  is shown to implement `CaptureLog`, the promise `ImplementsLog` proves of the
  detailed capture (`SessionLogs`; no run states it, a capture that fails to
  start counts as one that never began).
- `ReadersProofs`: `TypeCorrect`, `DiscardHides`, `PrintedInOrder`, `PagesInOrder`,
  `ReadInOrder`, `ReadsAPromisedLog`. The store's invariants carry over as in
  `CaptureProofs`. `baseIndex` is a place in the log and, if it was moved after the
  last filter change, not before `mark`, after which one packet may stray. What is
  printed and what is left of the printer's page are one stretch of the log that
  starts with its first packet. Pages are about ranks (`Rank`): how many packets
  that the query selects lie between `baseIndex` and a place of the log. `PagesFit`
  says nothing of a walk that has not ended, and is not inductive; `WalkInv` adds
  that what was got so far has a rank of at most the next offset (`Ordered`), also
  after `baseIndex` moved, since that only lowers ranks, and that while
  `baseIndex` stays where it is the i-th packet got has rank first offset + i and
  the next offset is the rank of the last (`Gapless`). A page then is the next
  ranks in turn (`PageInOrder`, `PageGapless`), and an appended packet changes the
  rank of none before it (`RankKept`). `ReadInOrder` joins this with the order of
  the store: what is printed or paged through is in the order in which the dongle
  delivered it. `ReadsAPromisedLog` shows that the readers meet a log as
  `CaptureLog` promises it, the one that a capture is proved to deliver.
- `SlipProofs`: `RoundTrip`, `WholeFramesArrive`, `NothingForged`, for payloads of
  every length. The encoder's output has no marker inside (`Plain`) and decodes to
  its input. While a frame is under way, `IInv` relates what the loop has
  collected to what has gone of the frame: equal, if the frame is whole; equal,
  or a whole earlier packet with something behind it, if only start and end
  bytes were lost; the same but for bytes missing after the version, if only
  plain bytes were lost. At the end byte the three are decoded as sent, as the
  earlier packet, and rejected as too short.
- `PortProofs`: `TypeCorrect`, `BytesAreOwn`, `DescriptorsReturned`. A port that is
  open and its descriptor name each other; one port at most is being opened or
  closed; a loop whose read is of another's tty belongs to a failed start,
  because Stop returns only when its loop has ended.
- `AddressProofs`: of `BlePdu`, `AddressesAreWhole` and `RolesMatch`, for payloads and
  headers of every length: by cases on the type, the fields of a format that fit
  are those that the parser takes, in the order in which they are labelled. Of
  `AddrText`, `FiltersMeanOctets` and `FollowAgrees`, for texts of every length,
  addresses of any number of octets and any digits. The invariant is plain
  (`TextInv`: filter and target are read from the text); the work is in what
  `Split` returns. A cut is a place before, at or after which a part ends, and has
  a rank among the cuts, so they are taken in order (`Splits`). If every third
  character is the separator, and no other, the parts are the pairs between
  (`EvenSplit`), and parts of two characters each come only from such a text
  (`PairSplit`), both by induction on the number of the cut. So the entries that
  `validFilterEntry` accepts are the texts that spell octets (`ValidSpells`).
  Once normalised, such a text is determined by its octets, so that one is a
  prefix of the other as text if and only if it is as octets (`PlainPrefix`), and
  `FormatAddr` gives the normal spelling of an address (`Formatted`). What
  `parseAddr` accepts has no characters but digits, colons and dashes, because a
  character that is no separator lies in some part (`InSomePart`); it is the only
  entry of the filter, and has as many parts as it spells octets. `parseAddr` alone
  takes parts of one digit, or of three: `FollowMeansFilter` does not hold without
  the filter's having accepted the text.

`ReadersProofs`, `SlipProofs` and `AddressProofs` reason by induction over data: that
a frame of any length decodes to what was encoded, that a list of any length holds
the packets selected, that a text of any length has these parts. The library's
induction theorems take an operator, which the provers cannot instantiate;
`SlipProofs` proves induction anew as a fact about sets of numbers, from their being
well founded (`LeastNumber`, `Induction`), and for this `Slip` writes its loops as
functions on the length of a prefix. `ReadersProofs` gets the same from the finite
sets of `FiniteSetTheorems`: ranks differ, so there are as many as there are packets
selected, and each is the rank of one (`Places`). For it, `Selected` is written by
ranks and not with `SelectSeq`, of which the provers know nothing. `AddressProofs`
needs both, and `Split` is written by ranks for the same reason; the order of a
filter's entries decides nothing, so a filter is the set of them.

Proving `NothingForged` corrected a history variable. `LossKind` tells the loss of a
byte that only shortens a frame from that of a byte of the part up to the
version, which shifts what follows. It once counted the bytes on the wire: the
version is the third. But a length or a counter may be a special byte, which is
two on the wire. So it now counts decoded bytes.

Only model-checked: the seven liveness properties (`DrainsWhenClosed`,
`FailedStartEnds`, `CallsReturn`, `StopTerminates`, `HandlersReturn`,
`AutoStopHappens`, `PrintsAll`), since fairness and ENABLED are beyond the prover.
Every other property of a passing run has a theorem.

## Not modelled

- `sniffer/port_darwin.go`, which opens with other calls (`port_other.go` only
  fails), and `bledev`: reads of sysfs and of the output of ioreg. The models
  have their outcomes: an open or the detection may fail.
- `PDUTypeName`, the formatting of packets and of status: tables and pure
  formatting. `sniffer_status` and `sniffer_get_packet` only read; the latter hands
  its index to `Get` unchecked, which a negative index slices out of range
  (`bledata/store.go:117`).
- `sniffer_set_follow` beyond `Capture`'s `SetFollow`: a handler that passes its
  address on.
- The end of the process: `Run` returns when the client disconnects and leaves the
  dongle, the file writer and its last page to it (`mcpserver/server.go:628`).
- Short writes to the port (`sniffer/sniffer.go:265`) and failing writes to the
  output file.

## Plan

Done, in this order: `Store`, `Sniffer`, `CaptureLog` and `Capture`,
`McpServer`, `Slip`, `BlePdu`, then `Readers`, `Port`, `AddrText`, and the proofs about
all of them. What is left:

1. `sniffer_set_follow` and `sniffer_set_filter` in `McpServer` over an abstract
   capture with a filter and a mode, so that session and capture agree on both.
2. A frame truncated by a short write, in `Slip` seen from the firmware.
3. `Port` for darwin.
4. Proofs: that the sniffer of `Port` is the sniffer of `Sniffer` (a refinement of Start, Stop and the read loop), and
   `OwnBytes` combined with `FailedStartEnds`.
