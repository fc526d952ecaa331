# TLA+ models of awesome-audio-plugin-framework

This directory holds a verification development for the repository's own code: the
audio plugin templates and the example programs. TLC checks the models on small
instances, TLAPS proves some of the results for every value of the constants.

## The system

The repository is a collection: two plugin templates and about fifteen small
programs. What has state, concurrency or failure worth modelling is this.

| component | where | state | operations | interacts with |
|---|---|---|---|---|
| event rings | `templates/cplug_pugl_nanovg/src/plugin.c` | head, tail, slots of two rings | `sendParamEventFromMain`, drain in `cplug_process`, `cplug_setParameterValue`, `tickGUI` | main thread and audio thread, no lock |
| parameters and state | same file | `paramValuesAudio`, `paramValuesMain`, `MyGUI` drag | set, load, save, mouse handlers, GUI create and destroy | both rings, host, preset |
| synth voice | same file | `midiNote`, `velocity`, `oscPhase` | process loop | host's event list through `dequeueEvent` |
| pugl GUI | same file | view, context, framebuffer, timer | `myPuglEventFunc`, `cplug_setParent`, `cplug_setVisible`, sizes | pugl, NanoVG |
| window template | `templates/cplug_window_nanovg/plugin.c` | gui pointer, size | `pw_*` callbacks | window extension |
| hot reloading | `examples/hotreloading/main_macos.c`, `main_windows.c` | library handle and function, two flags | main loop, watcher | file system, build process, Ctrl-C |
| HTTP clients | `examples/https_*/main.c` | response buffer, connection, cancel flag | write, progress and receive callbacks, read loop, cleanup | libcurl, xrequest, cute_tls, picohttpparser, a thread that cancels |
| picohttpparser | `examples/https_cute_tls/picohttpparser.h` (the same file is in `https_xrequest`) | chunk decoder state; the caller's `last_len` | `phr_parse_request`, `phr_parse_response`, `phr_parse_headers`, `phr_decode_chunked` | HTTP clients |
| stack blur | `examples/image_stack_blur/stackblur.c` | image, stack and sums of each job | `stackblurJob` | threads of the caller |
| file search | `examples/file_searching` | a directory handle and entry per level of recursion | `cf_traverse`, `cf_dir_open`, `cf_dir_next`, `cf_read_file`, `cf_dir_close` | file system, other programs |
| Base64, NaCl example | `examples/tweetnacl` | device handle, keys, nonce, the buffers of sender and receiver | `randombytes`, `crypto_box`, encoder, decoder | random device |
| serialiser, stack traces, dialogs, FFT | `examples/...` | none that outlives a call | one call each | files, third-party libraries |

Hard behaviours: the two rings are written and read without a lock and without a
test for a full ring; four copies of each parameter (audio, GUI, host, preset) are
kept together by messages that can cross; a host cuts time into blocks as it likes;
the reload loop races with the editor, the build and Ctrl-C; HTTP bodies arrive in
pieces of any size and may be cancelled by another thread; pugl delivers events inside
calls; the blur overwrites pixels it still needs; directories change while they are
walked, and links lead back to where the walk came from. `PROJECT.json` lists every hazard at its line.

## Modules

    Ring            index arithmetic of the rings
    EventChannel    abstract: a FIFO channel of bounded capacity
    EventQueue      one ring, one step per memory access; implements EventChannel
    EventQueueProofs  theorems about EventQueue
    ParamSync       parameter copies, on two EventChannels
    ParamSyncProofs  theorems about ParamSync
    SynthVoice      the sample-accurate loop
    SynthVoiceProofs  theorems about SynthVoice
    HotReloadMac, HotReloadWin   the two hot reload programs
    HotReloadProofs  theorems about both
    GuiLifecycle    the pugl GUI's view, context, framebuffer and timer
    GuiLifecycleProofs  theorems about GuiLifecycle
    StackBlurTables, StackBlur   the in-place blur and its jobs
    TlsClient       the cute_tls client's requests and response buffer
    CurlClient      the libcurl client: callbacks, cancellation, cleanup
    XRequestClient  the xrequest client: growing buffer, cancelled request
    HttpClientProofs  theorems about TlsClient, CurlClient and XRequestClient
    HttpParser      picohttpparser's requests, responses and headers
    ChunkDecoder    picohttpparser's chunked bodies
    HttpParserProofs  theorems about HttpParser and ChunkDecoder
    FileTraverse    the recursive walk of a directory tree
    Base64          encoder and decoder, with the bit strings they stand for
    NaclBox         random octets, boxes and Base64 from Alice to Bob
    ExamplesProofs  theorems about StackBlur, FileTraverse and NaclBox
    MC*             instances for TLC

Programs that do not interact but are of a kind are checked in one run: the MC module
INSTANCEs their modules, a variable chosen at the start says which one runs (`platform`,
`client`, `half`, `program`), and the variables of the others keep their initial values.
A state of such a run is a state of one program, so the run is the sum of its parts. An
invariant `P` of a part is stated as "if this part runs, `P`", unless it holds of the initial
values too. MCHttpClients, MCHttpParser and MCExamples EXTEND the modules whose constants have
assumptions, so that TLC evaluates these; the names of `HttpParser` that `ChunkDecoder` has too
begin with `Parser` there.

### EventQueue

The producer is `sendParamEventFromMain`: load and mask the head, store the fields
(two steps, between which the slot is `Torn`), `fetch_add`, `fetch_and`. The
consumer is the drain at the top of `cplug_process`: snapshot of the head, load of
the tail, then per event one read to apply it and one by the host through the
pointer given to `enqueueEvent`, at last the store of the tail. The other ring
(`cplug_setParameterValue` to `tickGUI`) is the same code with the threads exchanged.

The histories `sent` and `received` record what was published and what the host
got; `lapped` records that a send left `Size` or more events unread. Nothing in the
code prevents that, so every promise is conditional on `~lapped`:

* `Fifo`: the host gets the published events in order, whole, once;
* `SameEventToHost`: the slot is the same at both reads;
* `SlotExclusive`: the producer fills no slot the consumer may read.

`LapLosesWholeRings` holds always: what the reader sees as unread is the true number
modulo `Size`. `ImplementsChannel` is refinement of `EventChannel` with capacity
`Size - 1`, under the mapping `Pending`; a lap is its `Overflow`.
`EventuallyReceived` needs fairness of the consumer only: the host goes on calling
`cplug_process`. The main thread may stop anywhere.

Bounds: 4 slots and 6 sends, so both indices wrap and the producer can overtake; two
events are enough to see a swap. `SizeIsPowerOfTwo` is what makes `& MASK` the
remainder; the proofs do not use it.

### ParamSync

Main-thread actions are the mouse handlers, GUI creation and destruction, the timer
(`TickGUI`), and `loadState`/`saveState` parameter by parameter. Audio-thread actions
are the drain event by event and the host's parameter events in the block. Each ring
is a sequence with the capacity that EventQueue shows; a send to a full one sets `void`
and the model stops, as EventQueue says what follows. Values are small integers; a
mouse move adds any offset of `Delta` to the value the drag began at and clamps.

The history `synced[p]` says that the last writer of `p` had its value sent to the other
side with nothing older for `p` coming the opposite way. `Agreement` says that then both
copies will be equal once everything in flight is applied. It is the strongest statement
that holds: values that cross leave the copies exchanged for good, and a GUI shows zeros
until the first write. `HostAgreement` needs no such condition: what
the host knows is what the audio thread will use, or that clamped. `GestureAccounting` counts the
gestures left open at the host (`abandoned`): second button, GUI closed in mid drag.

`loadState` tests the number of bytes of a preset and nothing else: it stores and sends what
they say, and the drain on the audio thread stores what it is sent. So a preset, the one saved last or
any of `Presets`, holds any numbers or NaN, and `AudioInRange` says what is left: an out-of-range
value of the audio thread, or saved by it, is one that a preset brought for that parameter (the history
`given`), or a NaN of the host, which the clamp of `cplug_setParameterValue` lets through. It is never one
of a mouse move, of another parameter, or made by the exchange of the copies. A mouse press
clamps where the drag starts. Of a NaN the assertions of drawing and of the press fail
(`NormaliseFails`, plugin.c:222), and the behaviour ends in `void`.

In the pugl template nothing assigns `MyPlugin.gui`, so the audio-to-main ring is never
used. `storesGui`, chosen at the start from `StoresGuiPointer`, is FALSE for that program.
TRUE is the program with the pointer stored, as the window template does, which brings
the code of the second ring (`cplug_setParameterValue` 190-197, `tickGUI`) to life. The
run `param_sync` checks both.

Fairness: the host keeps calling `cplug_process` and calls return; the timer is strongly
fair because it is one event source of the main loop, which `saveState` calls cannot
starve. Bounds: 2 parameters (one draggable, one whose main copy starts out of range),
4 sends (`MaxSends`) with capacity 2 so that a ring can be full, one preset from outside,
with a number above the range and a NaN, 1 host event
(`MaxHostSets`), 2 GUI lifetimes (`MaxOpens`); with the second ring in use 3 sends, 2 host
events and 1 lifetime. One behaviour of the code carries no promise and is only noted here:
a drag starts at the audio thread's value, which is older than the last UPDATE if that has
not been drained, so a second drag right after a first may jump.

### SynthVoice

`ProcessBegin` takes a block length and a sorted list of messages from the host.
`dequeueEvent` is external: a due message first, else the stretch up to the next
message or the block's end, else FALSE. A frame of output is the note, velocity and phase
that determine the sample; phases are integers modulo `Period`. `SampleAccurate`
compares all output ever written with what the whole log of messages calls for at that
frame, `PhaseContinuous` each sounding frame with the previous sounding one, and
`EachFrameOnce` the number of frames written with the position. No fairness is assumed. Bounds: blocks of 2 and
3 frames, up to 2 messages each, 5 frames: every split point, two messages on one frame, a
note over a block boundary. A NOTE_ON of velocity 0 is a sounding note for this code, where
MIDI senders mean NOTE_OFF; the template promises neither. `CHECK_DEADLOCK FALSE`: the behaviour ends at `MaxFrames`.

### HotReloadMac, HotReloadWin

A version number stands for the sources, the library file and what is loaded.
`building` is the version at the last build's begin, `missed` the one at which watching
began. `ChangeRemembered` is the invariant behind `ChangeEventuallyRuns`: a change that
no build began with is still with the system, in the flag, or ahead of the build. On
macOS, SIGINT is ignored while `system()` waits and reaches the build. On Windows
`LoadLibrary` and `GetProcAddress` may fail on a library that is there, too (`Load`), and the
build's exit code and `bytes_transferred` are not looked at; `lost` marks behaviours in
which a build failed or the buffer overflowed, where nothing is promised. Fairness: both
threads run, builds end, FSEvents delivers. `CHECK_DEADLOCK FALSE`: the programs end.

### GuiLifecycle

Everything here runs on the main thread, but not one after the other: pugl dispatches
`PUGL_CONFIGURE` from inside `puglRealize`, `puglShow` and `puglSetFrame` on some platforms
and from the event loop on others. The model therefore takes `cplug_setParent` and
`cplug_setSize` apart at every call of pugl, and `Configure` may come between any two
steps when it is `pending`. `REALIZE` and `UNREALIZE` are part of the calls that dispatch
them. `contexts` and `framebuffers` count what was created and not deleted; `NoLeak` equates
them with what `MyGUI` points to, `DrawsWithContext` says that the timer cannot tick without
a context. Creating a framebuffer may fail in `Configure` (nothing asserts it there),
`puglSetFrame` may fail (`refused`). `cplug_setVisible` may be called with no window or parent
there; whether `puglShow` then realizes the view depends on pugl and platform, so it does or does not.
If it does, a later `cplug_setParent` has `puglRealize` refuse the realized view, and the assertion
stops the program (`RealizeRefused`, `stopped`). The assertions on context and framebuffer in
`REALIZE` are not modelled. `FramebufferFollows` assumes that calls return and that pugl delivers a pending
event. Bounds: three sizes; any number of calls and of GUI lifetimes.

### StackBlur

`stackblurJob`, one step per pixel read or written: `BeginJob`, `BeginLine` and the three inner
loops `FillLeft`, `FillRight`, `BlurPixel`. The row and the column pass are the same code with
another stride, hence one operator `Cell`. The colour channels do not touch each other and
one is modelled. Jobs own disjoint lines and a stack each; they run whole, in any order.
`High` keeps the product of sum and table entry to 32 bits, the width of `unsigned long` on
Windows. `WindowInStack` is why an in-place blur works: while a pixel is computed the stack
holds the original pixels of its window. `Blurred` compares every handled pixel with the
weighted average of the original line, and says that no line is left out. `FlatColourKept`
evaluates the real tables for all 253 documented radii and 256 colours. Bounds: images of
4 by 2 pixels with two values and radius 2, so that rows are longer and columns shorter
than the radius; three jobs for two or four lines, so that jobs do not divide the lines and
one may be empty. `CHECK_DEADLOCK FALSE`: the call returns.

### TlsClient

The two requests of `main`, each with the polling loop, the send, `https_read_response`
split at `tls_process`, the growth and `tls_read`, then the terminating zero, the header
array laid into the rest of the buffer, and the parse. TLS and the parser are external: the
states they report, failures, and how many bytes arrive are free, up to the number asked
for. `WritesFit` bounds everything written: the code asks for room for a record and reads up
to a packet, which is 1 kB longer, so only the padding saves it. `malloc` and `realloc` may fail (`Allocate`,
`noMemory`) and are not checked: the next read that brings something goes to NULL + size, or the
terminating zero does (`WriteThroughNull`, where the model ends). `WritesFit` holds of every
request whose allocations succeed, and of one that had none says that it is never parsed or reported. `RoomForHeaders` is the
comment "At least 1kb / 32bytes = 32 headers", which holds while no read exceeds a record.
`HeadersInBuffer` is the other half of that comment and fails: `size % 8` is added to align
the array (which it does not do) and is not taken off its length. The sizes of the cfg
are the real ones; reads are 0, 1, 31 and what lies around a record and a packet, up to six
per response, enough to grow the buffer twice. `CHECK_DEADLOCK FALSE`: the program ends.
The loop on `tls_process` ends only at connected or an error: whether a connection closed
before it was up is one of these is a matter of the library, and no liveness is claimed.

### CurlClient

`Write(n)` is `https_request_cb` with a piece of n bytes, `WriteNoMemory` its failing
`realloc`, `Progress` the callback that returns 1 when `cancel_request` is set, `Cancel`
the other thread, at any step. `Main` is `main`: two requests into one `https_response`, each
with its cleanup. `live` counts allocated blocks, `zero` is where the last terminating zero
was written. `BodyIsString` and `BodyFreed` hold after empty pieces, failures and
cancellation. When libcurl calls the progress callback is its own matter, and no liveness is
claimed. The `malloc` of the `https_response` itself (main.c:103) is not checked either; the model begins behind it. A response
without a body leaves `body` NULL, and main.c:122 gives it to `%s`; no property covers
that. Bounds: `MaxBody` 6, pieces up to 3 bytes.

### XRequestClient

`Callback` is `my_cb_xreq`, `CallbackNoMemory` its `realloc` whose NULL is written to (the
model ends there), `CallbackCancels` the early return. Then `parse_response_headers`, the
report and the frees, for a GET, a POST and a GET that is cancelled. `BufferHoldsResponse`:
buffer, capacity and size agree after every doubling, and the cancelled request starts and ends
with nothing. The comment at main.c:60 says that phr "doesn't check the capacity of the header
array"; the parser does (picohttpparser.h:373), as `HttpParser`'s `Headers` shows. Bounds:
`MaxSize` 9, pieces up to 5 bytes.

### HttpParser

The parser has no state of its own: a caller appends what arrives and parses from the start
again while the answer is -2, telling how long the text was before (`last`). The operators are
the functions, `Arrive` and `Ask` the caller; the loops of `phr_is_complete` and
`phr_parse_headers2` are recursive functions (`IsComplete`, `AtHeader`: where the loop is behind
so many headers). A character stands for each class the code tells
apart (token characters, colon, space, tab, CR, LF, other control characters, other
characters, digits) and one for `HTTP/1.`. The scan `IsComplete` from `ScanFrom` is an
optimisation that must not change an answer: `CutsDoNotMatter`. `Decided` says that -2 is the
only answer that more text can change. `HeadersAreLines` compares the header array with the
lines of the text, split in another way. The connection may deliver any number of characters
before the caller asks, so a last piece has headers and body in any proportion. Not claimed: an empty header block given in two
pieces stays at -2, as the scan waits for two newlines (`EmptyBlock`). Bounds: five messages of up to 20
characters, up to two of these body, with up to two characters replaced by any others (`MaxChanged`), two headers
(`MaxHeaders`), every cut.

### ChunkDecoder

`phr_decode_chunked` character by character: `Starve` and `Leave` are the two ways out, each
other action a state of its switch, `Data` the `memmove` of what is there of a chunk. `Call`
hands in the next characters, any number of them. `CutIndependent` compares what the calls
decoded so far, and the last answer, with the recursive `Unchunked` of the whole body; `RestHandedBack`
(part of it) says where what follows the body is left. `InBuffer` bounds the indices and the
size. `HexMax` is 2 for TLC, `sizeof(size_t) * 2` in the code, so that sizes with too many
digits happen. Bounds: two bodies with one or two characters replaced, every cut, with and
without trailers.

### FileTraverse

The recursion of `cf_traverse` is the stack `frames`, a frame what a call holds: its path,
`dir` and the listing still to come. `Open` to `Close` are the steps of the function and of
what it calls, apart at every system call, as entries are created and deleted in between.
`readdir` gives what was listed throughout once and what came or went meanwhile or not (`must`,
`may`). Links lead to directories; `stat` follows them (POSIX), or the attributes are the
link's (Windows). A call may also be refused what is there (`Fails`): `opendir` and `stat` for
its rights, `opendir` for want of descriptors, of which each level of the recursion holds one, a listing in
its midst. The walk then goes on without the directory or the entry, and the histories `unlisted` and
`unseen` keep their paths. An extension of `CUTE_FILES_MAX_EXT` or more (`LongExts`) asserts as a path that
is too long does. A failed assertion ends the model, in a build without them it goes on as the
code does; writing behind the array of a path or extension ends it. `WalkComplete`: what was there from
beginning to end, and was neither refused nor below what was (`Refused`), is given to the callback,
nothing twice, and handles are closed. In other words the code loses nothing by itself; what the
system refuses it leaves out without telling its caller.
`WalkEnds` needs fairness of the walk only (`WF` of `Walk`: one thread), and holds because the
system limits the links in a path (`MaxLinks`) or the path outgrows its array (`MaxPaths`, in
names). Bounds: four names, one link back, one hidden directory with a long extension, one link per path,
paths of 3 or 5 names, two creations, deletions and refusals in all (`MaxChanges`).

### Base64, NaclBox

`Base64` has the two functions and their lengths as operators; a character is the value that
`pr2six` gives for it. The reference is the string of bits that octets of 8 and characters of 6 bits
are: `Bit` is the n-th of them, and `EncodesBits`, `DecodesBits` say that both sides have the same,
that an encoding is filled up with zeros and padding, and that lengths are those announced and returned.
`NaclBox` is `main` of the example: `randombytes` with an open that succeeds at last and short reads
(failing opens and reads are repeated and change nothing), the box laid out as
`crypto_box` does, the text, and Bob's side. Stream cipher and authenticator are parameters,
instantiated for TLC by functions that depend on key, nonce and text. `MessageArrives`: every
octet of keys and nonce is drawn, Bob reads what Alice wrote. The length asserted at main.c:160
is rounded up to three octets, so the program aborts unless message, authenticator and nonce
together are a multiple of three, as the example's are; the property says exactly
that. Bounds: messages up to 5 octets of four values and the example's length, reads of
7, 16 and 32 octets.

## Runs

| run | shows |
|---|---|
| `event_queue` | the ring: FIFO, exclusive slots, exact loss, delivery, refinement |
| `event_queue_full` | finding: a full lap of updates is lost although the host goes on processing |
| `param_sync` | parameter copies, in the code as it is and with the GUI pointer stored |
| `incoming_update` | finding: a host's change is not sent to an open GUI |
| `synth_voice` | frames, notes and phase over all block splits |
| `hot_reload` | both platforms: no stale call, no lost change, termination |
| `gui_lifecycle` | context, framebuffer and timer through any calls and events inside calls |
| `http_clients` | the three clients: responses fit their buffers, bodies are strings and freed, also after a cancellation |
| `tls_headers` | finding: the header array ends behind the buffer |
| `http_parser` | messages and chunked bodies: the answers do not depend on the cuts |
| `examples` | blur, file search, encrypted message, Base64 |
| `files_empty` | finding: an empty listing is read as if it had an entry |

Each property of a passing run has a mutant: an operator next to the original, marked
`Mutant:`, that changes the code the way a bug would and makes TLC find a violation.

## Proofs

`EventQueueProofs` proves, for every ring size from 2 and any events: `TypeOK`,
`IInv`, `Fifo`, `SameEventToHost`, `SlotExclusive`, `LapLosesWholeRings` and
`ImplementsChannel`. The invariant `IInv` adds to the properties what makes them inductive: the producer's slot is the
one at the head; unless overtaken, `Len(sent) = Len(received) + Window`, the slots of the
window hold the published and not yet received events, and the consumer's snapshot is
not ahead of the head. The lemma `Apart` (the filled slot is outside the window)
carries the two slot writes, `MaskOf` makes the remainder linear for the prover.
`LapInv` holds overtaken or not: what was sent and not received is
the window modulo `Size`, and the consumer's snapshot promises no more than that
(`NextRemainder`, `NextUnread`). The only assumption is `SizeAssumption`.

`GuiLifecycleProofs` proves `NoLeak` and `DrawsWithContext` for any set of sizes, from
`SizesAssumption`. The invariant is `Phase`: at each step of a running call, which of
parent, realized view, timer and context exist.

`HttpClientProofs` proves of the cute_tls client `WritesFit` and `RoomForHeaders` for every
record, padding and header size and every way a response is cut, from the assumptions that the
sizes are positive, a record is at least as long as the padding, and no read returns more than
asked; any `malloc` and `realloc` may fail. The invariant is that, with a buffer, between reads the response reaches at most into the padding, and
before each read leaves room for a record in the capacity. Of the libcurl client it proves
`BodyIsString` and `BodyFreed` (`CurlInv`: the body is one byte longer than what was received or
there is none, and `live` counts it and the session), of the xrequest client
`BufferHoldsResponse` (`XInv`: only the request to be cancelled runs with the flag set, and it
never receives), both for pieces of any size (`PieceSizes`). All are theorems of
`MCHttpClients`' specification, of which a state is a state of one client (`ClientsInv`).

`HttpParserProofs` proves every invariant of the run `http_parser`. Of the chunk decoder, for
every body, every cut and every width of `size_t`, from the assumptions on `Power` (the powers of
16), `Digit`, `Others`, `HexMax` and `Bodies`:

* `InBuffer`. That a size does not wrap around is inductive only together with its digits: while
  a size is read, size + 1 times the power of 16 for the digits still allowed stays within the
  range (`SizeInv`); that the next size begins at 0, because the chunk before is used up.
* `CutIndependent` (`CutsAreInvisible`). `Unchunked` walks over the chunks of a body of any
  length, so the invariant `CutInv` does not speak of its result but of its steps: the walk from
  the start over n characters has `Reached` the chunk that begins at i with the data d, for every
  n up to the whole body, and within that chunk the decoder's state says what of it was read
  (`InChunk`: digits, extension, data, the newline, trailing lines). Each action moves inside a
  chunk (`DecodingOn`) or takes the walk to the next one (`NextReached`). A decoder that has
  read all there is then answers as the walk does (`Waiting`), one that stops did so where the
  walk stops.

Of the parser, for every kind of message, every text that arrives, every cut and every array of
headers, from `HeadersAssumption` and `MessagesAssumption` (the kinds are the three functions,
messages are sequences of characters):

* `Decided` (`DecidedStays`, of every part of the text and not only of all but its last character).
  Of a text b and one that begins with it (`Pre`), each function
  returns the same, unless b was too short: that is `Agree`, proved function by function and
  time around the loop by time, up to `WholePre`. Its second half says that a success on the
  longer text that ends inside b is one on b, which is what the next theorem needs.
* `CutsDoNotMatter` (`CutsDecideNothing`). The invariant `Asked`: what was there at the last call
  was incomplete for one call on the whole too. A success ends with an empty line behind whole
  lines, in which no CR stands alone (`WholeLine`, `Lines`, `Clean`). If it ends in the new bytes, the
  scan that begins three bytes before these meets both newlines of that end (`ScanSuffices`)
  or finds an earlier pair; so the parse is not put off (`ParseIsWhole`).
* `HeadersAreLines` (`HeadersAreTheMessageLines`). The loop stands at the beginning of a line each
  time (`HeadersAreTheLines`), the header it reads is that line's text split at the first
  colon, or the whole of it for one that goes on (`HeaderIsLine`), and the line that ends it is
  the first empty one.

`ParamSyncProofs` proves `TypeOK`, `AudioInRange`, `Agreement`, `HostAgreement` and
`GestureAccounting` for any
number of parameters, ranges, mouse travel, host values, presets and ring capacity, from
`ParamAssumption`, which leaves the presets free.
`IInv` adds to them that the values on their way to the audio thread are in range or were brought by a
preset (so the drain adds none) and that `loadState` has stored the preset's value in the main copy before
it sends it. The argument is about `Final`, the value a copy has when what is in flight is
applied: a send of p makes its value final (`FinalAppend`), a drain of the oldest event leaves
the final value as it was (`FinalDrain`), and the other steps touch one parameter at a time.
`GestureInv` counts the BEGINs and ENDs of every prefix of the events in flight: whenever the
host stops draining, the gestures it has open are not negative, and with all drained they are
the drag and the abandoned ones.

`SynthVoiceProofs` proves `EachFrameOnce`, `SampleAccurate` and `PhaseContinuous` for any notes,
pitches, period, block sizes and messages, from `VoiceAssumption`. `IInv` says that the log is
the messages taken, none in the future, followed by the queue (`LogInv`); that the voice is what
the messages taken leave (`HeardInv`, kept by `HeardNext`, message by message); that for every
frame written the messages up to it are a prefix of the log that is heard as that frame
sounds (`FramesInv`); and that each phase follows from the latest sounding frame
(`PhaseInv`, with `AddMod` for the remainders). It holds a witness where the properties
CHOOSE the latest message or frame, so no induction over sequences is needed.

`HotReloadProofs` proves `CallsLoadedLibrary` and `ChangeRemembered` of both programs for any
number of edits and any interleaving with the watcher. The invariants are `Loaded` and
`MacLoaded` (where in the loop the pointers are set) and, on Windows, that without a loss
the pending notifications fit in the buffer (`WatchInv`). Each program is proved by itself and,
as a step of `MCHotReload` is a step of the program that runs (`StepOfOne`), so is
the composition that the run checks. Assumed are that the size of the
buffer is a natural number and, on macOS, that `NULL` is no version of a library.

`ExamplesProofs` is about the programs of `MCExamples`.

* The blur, for every image size, radius up to 254 and number of jobs: no index leaves the
  image, the line or the stack (`IndicesCorrect`), the jobs cover all lines (`JobsCover`,
  `NothingLeftOutCorrect`), `WindowInStack` (`WindowCorrect`) and `Blurred` (`BlurredCorrect`).
  `IInv` says where the source pointer is in each of the loops, what the fill loops
  have put on the stack so far, that pixels not handled yet are as they were, and that the three
  carried sums are those of the window around the present pixel (`WindowSums`), not only the
  result of additions and subtractions since the line began. `Slide` is the
  arithmetic of that: what is added in front, taken off behind and moved over the middle turns the
  sums of one window into those of the next. The sums are recursive functions, and the two facts
  about them that need induction, that they exist and that they slide, are proved by induction
  over a set of naturals (`SetInduction`). Assumed are `SizesPositive`, `RadiiAsDocumented`,
  `ImagesAreBytes`. `ExamplesBlur` says that every run of the examples is one of the blur.
* The file search, for any tree, limits on paths and links, changes made meanwhile and calls refused:
  `WalkComplete` (`FilesFound`). The calls on the stack are prefixes of one path
  (`CallsNested`); a path of entries that stay is given at most once and is not to come again
  (`GivenOnce`), and was given or is still to come, listed in one of the frames, in the entry in
  hand or below it (`SteadyGiven`). The proof asks of each frame what it still owes (`Due`), and
  how a step changes that for the last frame alone (`TopMay`, `TopMust`, `Following`). The paths to be given
  only become fewer (`FewerPaths`), by what is deleted or refused, and a call that fails owes nothing
  that is still among them (`NotRefused`).
  Assumed is `FilesAssumption`.
* Base64, for any octets and any text: `EncodesBits` (`EncodedBits`), `DecodesBits` (`DecodedBits`)
  and so `CodecCorrect` (`CodecIsCorrect`). A bit has one place in groups of three octets and of
  four characters (`BitPlaces`), within a group each formula of the code moves the bits where they
  belong (`SextetBits`, `PairBits`), and the three ifs behind the loops are a group cut short
  (`EncodedSextet`, `DecodedAs`). A text need not be an encoding: it may have any length, and
  anything behind the first character that stands for nothing.
* The encrypted message, for any message, nonce, stream and authenticator: `MessageArrives`
  (`MessageRead`). A text of octets comes back from Base64 unchanged if its length is a multiple of
  three (`RoundTrip`), and exactly then the length that main.c:160 asserts is the right one
  (`Announced`); adding the stream twice gives the text back (`SameDigits`, bit by bit), so the
  box opens for Bob (`BoxOpens`), who computes the same authenticator from the same key. Assumed are
  that the lengths are those of a box (`NaclAssumption`) and that stream and authenticator are
  octets (`CipherAssumption`).

Only model-checked:

* Liveness (`EventuallyReceived`, `ChangeEventuallyRuns`, `FramebufferFollows`,
  `WalkEnds` and their like): it rests on fairness, so on ENABLED, which the prover does not handle.
* `FlatColourKept`: no state is in it, it is a statement about the tables of the code, and the
  run evaluates it for every documented radius and colour: there is no larger instance to prove.

## Plan

Done: every part but those under "Not modelled", with proofs of every program. Each invariant that
a run checks is a theorem, but `FlatColourKept`, and so is each action property and the refinement
of the channel. Left is liveness, once a prover handles ENABLED.

## Not modelled

Drawing, formatting and logging; CPLUG, pugl, NanoVG, libcurl, TLS and xrequest (external,
modelled from their use; `libcurl_scu.c` only defines macros and includes libcurl). In the
parts that are modelled: the file times of `cute_files.h` and the extension test of the search's
callback, which keep no state; the arithmetic of the vendored cipher, authenticator, curve and signatures
of `tweetnacl.c`, which is out of TLC's reach and checked by its authors. The window
template: each `pw_` callback is one assignment to the size or a call of NanoVG, and the window
extension that orders them is not in the repository. The serialiser prints bytes in one loop.
Stack traces are one pass over frames that only prints; the macOS one closes `stderr` at its end.
Dialogs and FFT are single calls of third-party libraries, build files have no state.
