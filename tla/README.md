# Panesmith in TLA+

Panesmith runs terminal programs in *panes*: each pane is a child process on a
PTY, a reader thread that turns its output into frames, a surface (terminal
emulator) the host draws, a transcript, and a stream of events. A host program
owns a `PaneManager`, polls it from its UI loop, and can *attach* a pane, which
hands the real terminal to the child until the user types the detach chord.

This directory models the parts of that system whose correctness depends on the
order of steps - threads, frames, failures, hand-overs - and checks and proves
what they promise. Paths below are under `src/crates/`.

## Inventory

| Component | State it keeps | Operations | Interacts by | Hard about it | Correct when |
|---|---|---|---|---|---|
| PTY process, frame queue (`panesmith-core/src/pty.rs`) | bounded queue, overflow counters, reader thread, `child_exited` | read loop, `try_recv`, `resize`, `kill`, drop | mutex-shared queue; join | reader and manager interleave; overflow; kill joins the thread nobody drains | no loss goes unreported, order is kept, the end arrives, the join returns |
| `PaneManager` (`manager.rs`) | panes by id, each with state, exit, event log, sizes, surface, process, transcript | `spawn`, polls, `kill`, `remove`, `kill_and_remove`, `resize`, `write_bytes`, snapshots | calls into all others, events out | frames arrive during every operation; the end of a pane has three causes | one end, reported once; output accounted for; ids fresh; sizes agree |
| Event log and delivery (`manager.rs`, `event.rs`) | per-pane log, queue of undrained events, subscribers, sink | `push_event`, `drain_events`, `subscribe` | every operation pushes | retention, removal and reuse of ids before the host drains | each event arrives once, in order; the retained log is a suffix of known place |
| Transcript (`transcript.rs`) | raw and plain buffers, chunks, offsets, held-back prefix | `record`, `flush_pending`, retention | called for each output frame | three accounts of the same bytes; sequences cut by frames | text is that of the whole output; offsets place what is retained; limits hold |
| Mode overlay (`mode_overlay.rs`), vt100 surface (`vt100_surface.rs`) | modes, a tail of old output; screen, digest of history | `update_from_output`, `feed`, `resize`, `snapshot` | fed by each output frame | sequences cut by frames; history that changes without changing its length | modes are those of a terminal; every change of history is reported |
| Repro dump (`repro.rs`) | size history by offset | `dump_repro`, `PaneReplay` | transcript offsets, surface | retention cuts the beginning; sizes change between bytes | a replay shows what the pane showed |
| Viewport (`pane.rs`) | scroll offset, follow-tail | scroll, page, home, end, clamp, stabilise | surface metrics, attach loop | output while scrolled back | the user's place stays; at the tail all is seen |
| Detach matcher (`panesmith-attach/src/detach.rs`, twin in `manager/attach_support.rs`) | held bytes and their times | `feed_bytes`, `check_timeout` | between stdin and PTY writer | overlapping partial matches; timeouts | nothing typed is lost; detaches exactly on the chord |
| Attach of the manager (`manager.rs`, `manager/attach_support.rs`) | locals of `attach_blocking`, terminal guard | suspend, tick (size, stdin, output), finish, abort | terminal control, PTY, surface, transcript | every call fails; floods; the child ends meanwhile | everything borrowed is handed back; output is kept |
| Blocking attach session (`panesmith-attach/src/session.rs`, `attach.rs`) | bridge, guard, token, events | `run`, poll, drain, finish, abort | generic terminal and target | as above, and a second run after any outcome | as above; events tell what happened; no assertion fails |
| Crossterm host (`crossterm_host.rs`) | none but its restore token | suspend, restore | control sequences to the real terminal | failure between any two sequences, retried restore | what was switched is switched back |
| Input transactions, writer (`manager.rs`, `input_transaction.rs`, `pty.rs`) | plan, deadline | write steps, retry, echo verification | PTY writer; polls while waiting | transient errors, partial writes, timeouts | bytes written once; the report matches what was written |
| Termination (`pty.rs`) | kill target, grace timer | SIGTERM, wait, SIGKILL | signals, `child_exited` | exit and reaping race the signal | the child ends, and its group when asked for |
| Encoders, widgets, backend crate, harness, examples | - | pure functions, adapters, test doubles | - | - | left to unit tests |

The hazards of the code, each at its line and with the properties that cover
it, are listed in `PROJECT.json`.

## Modules

| Module | What it is | Built on |
|---|---|---|
| `PtyFrameQueue`, `PtyFrameQueueProofs` | the queue as a record and its operations (push, coalescing overflow, pop), and what they do to sums over its frames | |
| `PtyProcess` | reader thread x queue x polling manager x kill/drop x child | `PtyFrameQueue` |
| `AccountedStream` | abstract: the consumer is handed every frame in order, or a true report of a run of lost output; `PtyProcess` implements it | |
| `PtyProcessProofs` | `PtyProcess` is correct, and implements `AccountedStream`, for every capacity | `PtyProcess`, `PtyFrameQueueProofs` |
| `PaneManager`, `PaneManagerProofs` | the registry and every pane's life, and proofs for any number of panes | `PtyFrameQueue`, `PtyFrameQueueProofs` |
| `EventDelivery` | where the events go: numbering, retained logs, the queue the host drains; its proofs are in `PaneManagerProofs` | `PaneManager` |
| `TerminalBytes` | the output of a child as the scanners tell it apart | |
| `ModeOverlay` | the scanner that finds modes beside the surface's parser | `TerminalBytes` |
| `Vt100Surface` | what `feed`, `resize` and `snapshot` report, over a screen of whole rows | `ModeOverlay` |
| `ReproDump` | what a dump keeps and how a replay rebuilds the surface | `Vt100Surface` |
| `Transcript` | buffers, chunks, offsets, retention and both scanners | `TerminalBytes` |
| `Viewport` | metrics, keys and stabilisation of a window into history | |
| `PaneOutput` | one pane's output through all of these, with resizes and a user who scrolls | the last four |
| `DetachMatcher`, `DetachMatcherProofs` | the matcher byte by byte with time, and proofs for every chord | |
| `PaneAttach`, `PaneAttachProofs` | `attach_blocking` of the manager: stages, failures, flood, abort | |
| `CrosstermHost` | suspend and restore of a terminal, a result for every point of failure | |
| `BlockingAttach`, `BlockingAttachProofs` | `BlockingAttachSession::run` with bridge, guard and events | `CrosstermHost` |
| `InputTransaction`, `InputTransactionProofs` | one `send_input_transaction`: write steps, retries, polls, echo verification | |
| `KillProtocol`, `KillProtocolProofs` | how `kill` and drop end a child and its process group, and proofs of it | |
| `MC*` | instances of these for TLC | |

Definitions marked `mutant:` in a comment are deliberately wrong forms of the
definition that follows them. Nothing uses them; replacing the definition by one
of them must make a property fail, which shows that the property can tell.

### PtyProcess

`queue` is `PtyFrameQueueState`; the reader thread's program counter is
`reader`: `reading` (the read loop), `waiting` (`child.wait`), `reaped`,
`flagged` (`child_exited` stored, frame not pushed yet) and `done`. Pushing and
counting `seq` are one step as the counter is the thread's own and the push
holds the mutex. `manager` tells where the manager's thread is: polling, or
inside `kill` or drop (terminating, then joining). The child and the kernel are
the environment: output may come from descendants after the child has exited,
reads may fail at any time, end of file needs the other end closed. `sent` and
`received` are histories. Bytes are counted only.

### PaneManager

One record per pane holds what `PaneRuntimeState` holds of control: state, exit,
`exit_event_observed`, sequence number, event log, whether the transcript
holds bytes back; sizes are modelled in `PaneAttach`. The manager is
single-threaded, so an operation is one step unless it loops over `try_recv` or
blocks: `kill` is `BeginKill`, then `KillFails` or `KillReturns` when the reader
thread is done; `remove` drains (`RemoveDrains`), checks (`RemoveChecks`), drains
again until the queue is empty (`RemoveDrained`), then flushes and drops
(`RemoveFinishes`), where the thread of a pane that failed may have pushed more and
is joined. What bytes do to surface and transcript is an
outcome chosen from `Outcomes` (held back, rotated, accepted, changed); `PaneOutput`
shows what really happens to them. Of the reader thread only the steps that push
are kept; `PtyProcess` shows what they look like in detail. A synchronous poll of
many frames is many `PollFrame` steps.

### EventDelivery

`PaneManager` keeps each pane's whole history in `event_log`. `EventDelivery` runs
along with it: what a step appends to a history is what `push_event` was called
with, so `PushEvents`, conjoined to every step, retains (`RetainEventLog`) and
queues (`events`) the same events, the last ones of a removed pane included.
A retention policy is a set of at most one limit (`RetentionAssumption`): `Unlimited`
has none, `Disabled` is the limit 0. `DrainEvents` is the host's. Subscribers and the sink are handed each event in the
same call, so they see the same stream.

### PaneOutput and what it is built on

The child writes `Units`: lines, and whole control sequences - a reset, the
alternate screen, mouse modes with several parameters, a string ended by BEL, and one whose
end the transcript's two scanners see at different places, so that what follows is
forced out as text. The
reader thread cuts them into frames anywhere (`unwritten` is the rest of a unit
that was cut); a frame goes on at most into one more unit. A symbol of `TerminalBytes` stands for one or more bytes that make
no difference to be cut between; a line is its text and its newline.

`OutputFrame` is `record_output_frame`, in its order: overlay, transcript
(`Record`: completes the held-back prefix, strips, appends a chunk, forces out an
overlong prefix, enforces the limits), surface (`Feed`: reset detection across
feeds, counting of dropped rows, digest), then what the attach loop does with the
viewport (`Stabilize`). `StreamEnds` is `flush_pending` at exit, error or removal.
`ResizePane` notes the size at `next_raw_offset`. `PressKey` is a key or wheel
turn of an attached user. `Dump` and `FinalSurface` are `dump_repro` and
`PaneReplay::final_surface`. Scanners are folds over the symbols, one step per
symbol, each kept as the code has it - the two of the transcript disagree about
strings, and the overlay's has no parser state but a tail.

The vt100 parser is a library, and `NewScreen` to `VisibleRows` say what the
surface asks of it: rows enter at the bottom, scroll off the main screen into a
history of bounded capacity, and not off the alternate one. Rows are whole; there
are no columns, cells or styles.

The attach is one with `UseRealTerminalSize` and `FanoutToSurfaceAndStdout`. It
begins with a rendering at the tail; attaching anew is for the user what `End` is,
so attach and detach need no steps of their own here. One turn of the loop is one
frame: keys and output cannot interleave finer.

### DetachMatcher

`feed_bytes` is `BeginFeed` (timeout check), a `HoldByte`, `Detach` or `Mismatch`
per byte, and `EndFeed`; times are ages that stop at the timeout. Time does not
pass inside `feed_bytes`, which takes one instant for all its bytes. The twin in
`attach_support.rs` has the same steps; both are mapped.

### PaneAttach

`attach.stage` is the place in `attach_blocking`: `enter` (resize, mode, first
rendering), then a tick of `size`, `stdin`, `output` for ever, then `drain`,
`replay`, `restore_size`, `hand_back`, or `abort` after any error. Steps that
meet no other thread are merged (the whole abort is one step). Between attaches
the host polls, and resizes the pane (`PaneManager::resize` makes the same calls
as `resize_attached_pane`). The reader may
push output without end; since counters would never close the state space, one
frame - any - is watched and the others are alike. The passes of the detach
drain stand for its time limit.

### CrosstermHost and BlockingAttach

`CrosstermHost` models a terminal as the modes the control switches: raw mode,
screen, a stack of keyboard flags for each screen (as terminals with this protocol
have), mouse modes and the slot they are saved in. Flags are pushed and popped on
the stack of the screen that is shown at that moment.
`suspend_for_attach` and `restore_after_attach` are operators that yield the set of
their possible results: the retrying writer may give up after any prefix of the
control sequences, the flush or the switch of raw mode may fail. The five mouse
modes count as one, as they are switched by adjacent sequences.

`BlockingAttach` is `run` of the stand-alone session, stage by stage like
`PaneAttach`, over such a host. It differs from its twin as the code does: the PTY
is resized before the surface, the child's end does not end the attach, there is no
transcript, and the session can be run again. `bridge` is `AttachState`, or
`Panicked` once an assertion of `AttachBridge` has failed; `guard` the token of
`AttachGuard`; `events` what the run has pushed. `trouble` is a history of what went
wrong with the terminal itself: a suspend cut short, an ignored failure of its
clean-up, a restore repeated after it had popped the keyboard flags, a restore
given up.

### InputTransaction

`at` is the place in the call: the head of the loop (`step`), `write` and `flush`
of `write_bytes_retrying`, `after` a step, and `verify`, the loop that polls the
screen. The plan is what `text_input_steps` and the submit policy make of an
intent: text in chunks, a paste or key as one step, Enter as a step of its own
that submits. Bytes are places in the plan. What a poll finds - the screen
matches, the pane has ended - is the environment's choice, as are the writer's
errors. Time passes only in the sleeps of the verification.

### KillProtocol

`killer` is the place in `terminate_child_unix` and the join after it; the reader
thread appears only as the one who reaps the child and sets `child_exited`. The
child and its descendants fork, move in and out of the child's group (`setpgid`,
`setsid`), change credentials, and each may end whenever it likes, ignore SIGTERM,
or hold the terminal open. `descendants` counts those in the group that may be
signalled, those in it that may not, and those that left; a signal to the group
succeeds when it may reach one, and both signals may fail. `evaded` remembers
whether a process in the group could ever not be signalled, or one came back to it.
The module is the lower half of `PtyProcess`, which takes for granted what is
established here under conditions: a successful termination leaves a dead child,
and - with `kill_descendants`, the default, and nobody who evades the signals or
holds the terminal from outside the group - a terminal that gets closed.

## Runs

Runs with a liveness property check it together with safety under a specification
with fairness. `manager_two_panes` uses `DeliverySafe`; `output` and the three runs
that exhibit a disagreement use `Safe`. Deadlock is not checked where the system
really stops: a PTY that was dropped, a matcher that has detached, a call that has
returned, a session that has used up its runs.

| Run | Question | Bounds, and why they are enough |
|---|---|---|
| `pty` | Is every frame delivered or its loss reported, exactly, in order, in bounded memory, whatever kill, drop and exit do? Does kill return, does the end reach the consumer? | capacity 1, four reads of 1 or 2 bytes: overflow, a summary that grows, its removal and a second overflow all occur, also while the last frames are pushed; one failed kill |
| `manager_one_pane` | Is one pane's end reported once, never relabelled, with all output accounted for, and does a polling host learn of it? | capacity 1, three reads: output overflows; every outcome of a frame; one write |
| `manager_two_panes` | Are chosen ids fresh? Does the host get every event once and in order, and is a retained log the end of the history? | two ids, explicit or chosen, and two lives among them, so one pane can follow another under its id or run beside it; a host that drains at any time; no limit, a limit of two events (less than a life pushes), no log at all |
| `output` | Are transcript, modes, reported history, dumps and the attached view true to the output, however it is cut into frames? | three frames, each what the last one cut off and any part of one of seven units: sequences are cut at every place, resets, alternate screens, modes and strings meet lines in every order, and text is forced out beyond the limit; a history of two rows on a screen of two or three, so three lines fill it and more overwrite it; one resize; limits on bytes, lines, both and none; a kept tail of five symbols, shorter than two frames may be, longer than any sequence; a user who scrolls between frames |
| `detach` | Is detaching exact, is nothing lost, does a chord typed in time detach, is everything else forwarded in the end? | `abaa`, every input of 8 bytes over its letters - two whole chords -, timeout 2 |
| `attach` | Is everything handed back however attach ends, is output kept by a clean detach, can a flood or a change of size keep the user attached? | unbounded attaches, frames and size changes; three sizes of which one is refused; one frame per tick, two drain passes, queue of one: a frame is ready whenever one is taken |
| `blocking_attach` | Does the host get its terminal back and the pane its size, do the events tell the outcome, can the session be run again, does the chord end it? | two runs, so every outcome is followed by another run; a plain host and a full-screen one, under each screen policy; every write cut after every sequence; one resize of the terminal; a flooding, failing or ending child |
| `input` | Is `InputOutcome` the truth through retries, partial writes, errors and exits? Is submission held back until the echo was seen? Does the call return? | texts of up to four bytes in chunks of 0 (taken as 1), 2 or 3 bytes, or whole, with and without an Enter of two bytes: several steps, uneven last chunk, a step cut anywhere; two retries; a timeout of two polls |
| `kill` | Is everything dead that a successful kill promised to end? Does killing the group return? | three descendants, started at any time by any process: a group with a member, one that cannot be signalled and one outside; a grace period of two polls |

What they show, beyond "yes": `SizesAgree`, `HandedBack`, `HostHandedBack` and
`SizesHandedBack` state exactly which double failures leave something behind. In
particular a failed suspend or a repeated restore may leave the host's mouse modes or
keyboard flags other than they were (`HostHandedBack` names the conditions), as
restore is not idempotent for a stack; and of the keyboard flags under a policy that
switches the screen it says nothing, as they are not given back even without a
failure. `KillReturns` is about killing the group, of
processes that stay in it and can be signalled, or end by themselves.
`SeenAtTail` exempts one case, and `PlainTextExact` speaks of the time before text
was forced out; both are among the following.

### Disagreements between the code and its documentation

| Run | What TLC shows |
|---|---|
| `transcript_offset_finding` | text appended by a forced flush (`transcript.rs:145-152`) is missing from `next_plain_offset`, so `retained_plain_start_offset()` is not the offset its documentation says; it belongs to no chunk either, so later rotation cuts the text of other chunks, and it stays beyond `max_bytes` |
| `attach_final_finding` | under `StdoutOnlyThenReplay`, output replayed after the child's exit was handled may end in a sequence that stays held back, though the exit flushes such sequences so that they are not lost from the final transcript; its `Output` events follow `Exited` |
| `viewport_finding` | output moves the rows an attached user who scrolled back is looking at: `stabilize_attach_viewport_after_output` (`manager.rs:2740`) adds the new rows to the offset, but the clamp that follows takes the offset of the metrics, which were computed before, and discards the sum |

`output` forces out text, too: one of its units is a string that the first of these
is about, and a prefix may have three symbols there. Its `OffsetsExact` therefore
speaks of text offsets only as long as none was forced out, and `LimitsHold` states
what such text does to the limits. It belongs to no chunk, so `enforce_limits` can
never drop it by itself; it counts towards `max_bytes` all the same, its lines count
towards nothing. Forced out again and again it grows past `max_bytes` without bound,
although `transcript.rs:18-21` documents limits; from then on every chunk is dropped
as soon as it is recorded, and nothing else is retained. `LimitsHold` shows that
this is the only way in which the limits are exceeded, that the excess is exactly
the text forced out (`uncounted`), and that no subtraction underflows.

### Read in the code, shown by no run

Transcript and modes:
* once text was forced out, the lengths of the dropped chunks are taken from the
  front of `plain` (`transcript.rs:281-284`), which begins with other text: the cut
  may fall inside a character of several bytes, where `String::drain` panics. Text
  is whole symbols in the model;
* text with two escapes in a row, cut after the second, leaks parts of the sequence
  into the plain text: the scanner that looks for an incomplete end gives up on
  what the stripper takes for a new escape;
* a lone escape at the end of the stream stays in the text of `flush_pending`, whose
  documentation says incomplete sequences are dropped;
* parameter lists longer than the overlay's tail of 64 bytes are missed when they
  are cut; a reset with a control character inside it is missed by the overlay and by
  `feed_may_reset_scrollback`;
* the overlay reports `MouseMode::Sgr` for the encoding 1006 alone;
* `scrollback_lines_dropped` misses a row equal to the newest row before it
  (`vt100_surface.rs:196-225`), so `ScrollbackReported` asks only for "no more than".

Attached view:
* when output takes away the history a user looks at (a reset, an alternate screen),
  the view falls to the tail and is not rendered anew; `SeenAtTail` exempts that;
* after a resize to where there is no history the offset stays positive, and the
  view leaves the tail by itself when history grows;
* with `StdoutOnlyThenReplay`, what is rendered at the tail is a surface that has not
  been fed; a rendering does not restore the child's cursor;
* key sequences for the viewport that two reads divide go to the child.

Attach:
* when `write_stdout` fails, the frame taken from the queue is recorded nowhere, and
  with `StdoutOnlyThenReplay` any error drops the replay buffer
  (`manager.rs:1200-1247`), so `OutputKeptOnDetach` and `SurfaceSawAll` speak of attaches
  without an error;
* `AttachEnded` names the embedded size as `restored_size` also when restoring it
  failed (`manager.rs:1468`), and the chord as its reason when an error occurred while
  detaching;
* the keyboard flags are pushed before the screen is switched and popped before it is
  switched back (`crossterm_host.rs:170-173`, `185-194`, `238-246`). Under
  `LeaveAlternateScreen` with a host on its alternate screen, and under
  `EnterFreshAlternateScreen` with one on the main screen, push and pop meet
  different stacks: one set of flags too many stays on the host's screen, and one of
  the other screen's - the shell's, say - is popped, though nothing failed.
  `HostHandedBack` leaves the flags out under these two;
* a suspend whose writes fail before the keyboard flags are pushed still pops them;
  the modes a child switches itself on the lent terminal are not undone.

Manager and processes:
* what the reader thread of a pane that failed pushes after `remove` has found its
  queue empty (`manager.rs:2278`) and before the drop has joined the thread
  (`manager.rs:664`, `pty.rs:471`) is in no transcript and no `Overflow` event;
  `OutputAccounted` shows that nothing else is lost unreported, and from no other
  pane;
* with `kill_descendants` off, `kill` ends the child and then joins a reader thread
  that a surviving descendant, which holds the terminal open, keeps in `read`
  (`pty.rs:497`); with it on, a descendant that left the child's group (`setsid`,
  or the group a job-control shell gives each job) survives the signals and does
  the same. Whether the kernel hangs such a terminal up when the child, its
  session's leader, is dead differs between systems, and nothing is relied on;
* a signal to the group succeeds when it reached one process (`pty.rs:866-882`), so a
  kill that succeeds may leave alive a child or descendant that took other
  credentials; if it may signal none, it fails with the processes alive;
* `submitted` stays false when Enter was written, or a part of it, and the step then
  failed - so `OutcomeTruthful` asks only that `submitted` implies it was all sent;
* echo verification may match text that was on the screen before, as documented;
* a pane spawned under an id that was used before numbers its events from the start;
* `next_pane_id` overflows after an explicit id of `u64::MAX`.

## Fairness

* `PtyProcess`: the reader thread runs when it can (a thread; its queue never
  blocks it); the manager polls and finishes a termination or join it has begun,
  but need never begin one; a child whose termination succeeded exits, and the
  terminal of an exited child is eventually closed - a descendant that keeps it
  open for ever does make the code's join wait for ever, and is excluded here.
* `PaneManager`: reader threads end; calls the manager is inside of are finished;
  the host polls again and again - strong fairness, since each other call
  disables polling while it lasts. Hosts poll in their UI loop
  (`docs/embedding.md`).
* `DetachMatcher`: time passes and the attach loop, which sleeps at most its poll
  interval, checks the timeout again and again.
* `PaneAttach`, `BlockingAttach`: only that the blocking call goes on; nothing is
  assumed of child, user or terminal.
* `InputTransaction`: the call goes on, and each write, read and sleep in it returns -
  also a write to the terminal of a child that does not read, which may block in
  the code. Retries and the timeout bound the rest.
* `KillProtocol`: a call that was begun and the reader thread run on, and a read
  of a closed terminal returns. No process need end of itself; `KillReturns` has as
  its premise that those outside the group are gone for good at some time, and that
  none in it evaded the signals.

## Proofs

Every safety invariant the runs check is also proved for every value of the
constants, except those of `PaneOutput`. The assumptions are
the ones the modules name (`CapacityAssumption`, `BoundsAssumption`,
`MatcherAssumption` and so on); nothing else is assumed. Each module names the
parts of its inductive invariant, and each part was given to TLC on the run of its
module before it was proved. Each proof that a step preserves a part has a step
per action.

**`PtyFrameQueueProofs`** is what the next two rest on: what a push and a pop do to a
queue (`PushCases`, `PushCounts`, `PoppedCounts`), and sums over its frames. `Weigh`
gives every frame a number - bytes lost, frames lost, bytes carried - and `Total`
adds them up. That `Total` is additive at both ends and changes by the
difference when the last element does (`TotalAppend`, `TotalTail`,
`TotalReplaceLast`) needs an induction on the length. The library's induction
theorem takes an operator, which the provers cannot instantiate; `CountingUp` is
the same for a set of numbers, from the well-foundedness of `<`.

**`PtyProcessProofs`**, for every configured capacity, chunk sizes and bounds:
`TypeCorrect`, `NoSilentLoss` (`Contiguous`), `SummariesTruthful`
(`StreamTruthful`), `ExitClosesStream` (`ExitedIsLast`), `CountersExact`
(`QueueCountersExact`) and that the PTY implements `AccountedStream`
(`QueueKeepsPromise`). The properties alone are not inductive: coalescing writes
into the first summary of the queue, which is only sound when it is the *last*
frame. `SummaryInv` adds that - the flag says whether a summary is queued, there is
one at most, and while the reader is in its read loop it is last - and `ExitInv`
that an exit frame was produced only by a finished reader of a gone child. With
`Stream`, what the consumer got followed by what is queued, a push appends to the
stream or grows its last frame (`PushCases`, `StreamAppend`, `StreamReplaceLast`,
`EmitStep`), a poll leaves it as it is (`StreamPop`, `RecvStep`), and every other
step changes neither (`QuietStep`). For the refinement, `log` is `received`: a push
is `Produce`, a poll `Deliver` or `ReportLoss`, all else stutters. `CountInv` adds
for the counters that they are sums over the whole `Stream`, which a poll does not
change, that the queue is made of its output frames, its summary and its ends, and
that the reader's place bounds the ends it may have pushed: this is why the
queue never holds more than the capacity and three frames.

**`PaneManagerProofs`**, for any number of panes, every capacity and every outcome
of a frame: `AutoIdsFresh` (`AutoIdFresh`), `StateExplained` (`LogExplainsState`),
`ExitOnce` (`ExitReportedOnce`) and `AllOutputAccounted` (`OutputAccounted`).
`Matched` relates a pane to its PTY: recorded, reported lost and still queued bytes
add up to those produced; an exit that was observed leaves an empty queue and a
finished thread; killed or exited panes have a finished thread. `Settled` is what
that leaves of a removed pane - nothing in the queue unless it failed -, `ManagerOK` what the manager relies on inside of a
kill or a removal, and `IdInv` that the counter is past every id that was used. A
step touches one pane, so most of a proof is about one pane and its PTY, and
`Registry` carries it over to the map. What `LogExplainsState` and
`OutputAccounted` say of an event log is additive in its events: the sums are
`Total`s.

The same module proves `EventDelivery`, for every retention policy too:
`EveryEventOnce` (`StreamComplete`) and `RetentionExact` (`RetainedLogExact`). Both
rest on what a step of `PaneManager` may do to event logs, which is shown once.
Every operator on a pane extends its log and keeps `next_seq` its length (`Grows`,
`AllNumbered`); every step changes the log of one id at most, by appending to it,
also when that id's pane is removed or spawned in the step (`StepGrew`,
`GrewPushes`). So the flattened batch of all panes is that one pane's batch
(`StepDelivers`), and what is drained and queued stays each id's lives one after
another: `FlattenSeq` of a sequence with one more element is that element joined on
(`FlattenJoins`, `LivesAppend`). `Keeps` is the invariant of a retained log relative
to a length: it is preserved by retaining one event (`RetainKeeps`) and hence by the
batch of a step (`RetainsKeeps`, an induction over the batch). `DeliveryInv` joins
these.

**`DetachMatcherProofs`**, for every chord, alphabet and timeout:
`MatcherTypeCorrect`, `InputPreserved` (`NothingLost`), `DetachesExactly`
(`DetachExact`) and `PromptDetach` (`PromptChordDetaches`). For the first two,
`HeldBeginsChord` (what is held is the chord's beginning, so taking the chord out
on detach takes out what was typed) and that a detached matcher is fed no more;
the arithmetic of the overlap is in `OverlapIsLongest` and `SplitSequence`. The
other two are the correctness of the overlap search. Call a number of bytes a
`Border` when the last that many bytes in play are a beginning of the chord.
`MatchInv` says that what is held is the longest border there is, and that the whole
chord was one nowhere in play but where the matcher detached. A new border is an
old one and a byte that continues it, so after a mismatch the longest is among the
suffixes `OverlapLength` tries. `AgeInv` says that earlier bytes are no younger, that
held bytes have the ages at which they were typed, and that what a timeout put out
of play ends with fewer bytes than a chord after a byte as old as the timeout: a
chord that was typed in time cannot have lost its beginning to a timeout.

**`PaneAttachProofs`**, for all sizes, policies and bounds: `AttachTypeCorrect`,
`HostGetsTerminalBack` (`HandedBack`), `EmbeddedSizeRestored` (`SizesAgree`) and
`AttachedOutputKept` (`OutputKeptOnDetach`). `SizeInv` adds in which stages the pane
already has its embedded size, and `OutputInv` that a frame the call has taken is in
the transcript or in the replay, which is empty once it has been replayed.

**`BlockingAttachProofs`**, for all sizes, screen policies and bounds:
`SessionTypeCorrect`, `BridgeSafe` (`BridgeNeverPanics`), `SizesGivenBack`
(`SizesHandedBack`), `SurfaceComplete` (`SurfaceSawAll`), `EventsTruthful`
(`EventsTellOutcome`) and `HostTerminalBack` (`HostHandedBack`). `BridgeInv` gives
the states of the bridge in each stage; `SizeInv` and `OutputInv` are as above;
`EventInv` says that the stage is `abort` exactly when an `Error` was pushed and
that the last `Resized` has the size the pane has; `LentInv` that the guard
holds the one token of the run, and what the terminal that it stands for looks
like, as long as no write was cut. The lemmas on control sequences cover a write
cut after each sequence of suspend and of restore.

**`InputTransactionProofs`**, for every plan, chunk size, retry limit and timeout:
`OutcomeIsTruth` (`OutcomeTruthful`) and `EchoBeforeSubmit` (`SubmitOnlyAfterEcho`).
`OutcomeTruthful` speaks of the finished call and says nothing of the way there, so
it is not inductive. `AcceptedOK` says at each point of the loop which beginning of
the plan the PTY has taken - the steps before this one whole, and of this one what
is counted as written -, `SentOK` that `bytes_sent` lags behind by the step at
hand, and `OutcomeOK`, `DoneOK`, `VerifyOK` and `EchoOK` what outcome and
verification know there. A plan is flattened to its bytes; that its beginnings
grow step by step (`FlattenJoins`) is proved as the sums are.

**`KillProtocolProofs`**, for any number of descendants and any grace period:
`KillTypeCorrect` and `KillComplete` (`KillReachesAll`). The strengthening is that
the target is the group when descendants are to be killed (`TargetAsAsked`), that
the shared flag is only set for a child that is reaped (`FlagTruthful`) - without
it, skipping SIGKILL because of the flag could leave a child alive -, and that
`evaded` knows of everyone in the group who cannot be signalled (`EvasionKnown`).

Only model-checked:
* all liveness (`JoinReturns`, `EndDelivered`, `ExitNoticed`, `EverythingForwarded`,
  `DetachUnderFlood`, `ChordReturns`, `Returns`, `KillReturns`): the prover does not
  do fairness or ENABLED;
* everything of `PaneOutput` and of what it is built on (`OffsetsExact`, `LimitsHold`,
  `PlainTextExact`, `ModesExact`, `ScrollbackReported`, `ReplayMatches`,
  `SeenAtTail`): each scanner is a fold, and what it computes for every input and
  every way to cut it would take an induction of its own over that fold.
  `LimitsHold` and `OffsetsExact` are about retention only and would need an
  induction over the chunks and their sums; they are left for the checker, with the
  rest of the module.

## Not modelled

Left out of the modelled components:
* spawning, environment set-up and command validation, the accessors, formatting;
* subscribers and the event sink, which are given each event in the same call as the
  queue; a subscriber that is gone is forgotten;
* what happens to a terminal when a panic drops a guard;
* strings ended by ST, charset designations, UTF-8 in the scanners; cells, styles,
  columns, cursor and title of the surface;
* redaction and spawn metadata of repro dumps;
* reuse of a pid between reaping and a signal, and children without a known pid;
* the terminal encodings of keys, recognised before the matcher and the viewport.

Left out for good: the key, mouse and paste encoders (pure tables that unit tests
enumerate), the widget and the backend crate (thin adapters), the test harness,
fixtures and examples.

Work that is left: the scanners of `PaneOutput` (what each fold computes of every
input), from which `OffsetsExact` and `LimitsHold` would follow.
