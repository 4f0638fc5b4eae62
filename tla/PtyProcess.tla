------------------------------ MODULE PtyProcess ------------------------------
(***************************************************************************)
(* One pane's PTY: the reader thread that turns the child's output into    *)
(* frames (run_reader_thread), the bounded queue, the manager's thread     *)
(* that polls it (PtyProcess::try_recv), and kill/drop, which end the      *)
(* child and then wait for the reader thread while nobody polls.           *)
(*                                                                         *)
(* The child and the kernel's end of the PTY are the environment: the      *)
(* child exits by itself or because termination succeeded, and the reader  *)
(* sees bytes, end of file or an error accordingly.  How terminate_child   *)
(* escalates from SIGTERM to SIGKILL is left out: it ends, with success    *)
(* (the child is doomed) or with an error.                                 *)
(***************************************************************************)
EXTENDS PtyFrameQueue

CONSTANTS MaxReads,         \* bound: output frames the child can cause
          ChunkSizes,       \* byte counts one read can return
          MaxKillFailures   \* bound: terminations that fail

ASSUME BoundsAssumption == /\ MaxReads \in Nat
                           /\ ChunkSizes \subseteq Nat \ {0}
                           /\ MaxKillFailures \in Nat

VARIABLES
    queue,          \* the shared PtyFrameQueueState
    seq,            \* the reader thread's frame counter
    reader,         \* where the reader thread is
    child_exited,   \* the flag shared with kill
    child,          \* "running" or "exited"
    doomed,         \* termination of the child was reported successful
    slave_open,     \* some process holds the terminal's other end
    manager,        \* where the manager's thread is
    joined,         \* reader_thread was taken and joined
    kill_failures,  \* terminations that have failed so far
    sent,           \* history: the frames the reader produced
    received        \* history: the frames try_recv returned

threadVars == <<reader, child_exited, manager, joined, kill_failures>>
envVars    == <<child, doomed, slave_open>>
vars == <<queue, seq, sent, received, threadVars, envVars>>

Init ==
    /\ queue = EmptyQueue
    /\ seq = 0
    /\ reader = "reading"
    /\ child_exited = FALSE
    /\ child = "running" /\ doomed = FALSE /\ slave_open = TRUE
    /\ manager = "polling" /\ joined = FALSE /\ kill_failures = 0
    /\ sent = << >>
    /\ received = << >>

-----------------------------------------------------------------------------
(* The reader thread. *)

EndOffset(n) == IF n = 0 THEN 0 ELSE sent[n].end

\* seq += 1 and the push are one step: no other thread sees the counter, and
\* the push holds the queue's lock.
Emit(f) ==
    /\ seq' = seq + 1
    /\ queue' = Push(queue, f)
    /\ sent' = Append(sent, [kind |-> f.kind, bytes |-> f.bytes,
                             end |-> EndOffset(seq) + f.bytes])

ReadOutput ==
    /\ reader = "reading"
    /\ seq < MaxReads
    /\ \E bytes \in ChunkSizes : Emit(OutputFrame(seq + 1, bytes))
    /\ UNCHANGED <<received, threadVars, envVars>>

ReadEof ==
    /\ reader = "reading"
    /\ ~slave_open
    /\ reader' = "waiting"
    /\ UNCHANGED <<queue, seq, sent, received, child_exited, manager, joined,
                   kill_failures, envVars>>

\* read failed and try_wait already has the child's status
ReadErrorChildGone ==
    /\ reader = "reading"
    /\ child = "exited"
    /\ reader' = "reaped"
    /\ UNCHANGED <<queue, seq, sent, received, child_exited, manager, joined,
                   kill_failures, envVars>>

\* read failed while the child lives, or its status cannot be polled either
ReadErrorReported ==
    /\ reader = "reading"
    /\ Emit(ControlFrame("Error", seq + 1))
    /\ reader' = "waiting"
    /\ UNCHANGED <<received, child_exited, manager, joined, kill_failures, envVars>>

WaitReaps ==
    /\ reader = "waiting"
    /\ child = "exited"
    /\ reader' = "reaped"
    /\ UNCHANGED <<queue, seq, sent, received, child_exited, manager, joined,
                   kill_failures, envVars>>

\* mutant: the reader thread ends silently when wait fails
WaitFailsSilently ==
    /\ reader = "waiting"
    /\ reader' = "done"
    /\ UNCHANGED <<queue, seq, sent, received, child_exited, manager, joined,
                   kill_failures, envVars>>

WaitFails ==
    /\ reader = "waiting"
    /\ Emit(ControlFrame("Error", seq + 1))
    /\ reader' = "done"
    /\ UNCHANGED <<received, child_exited, manager, joined, kill_failures, envVars>>

StoreExited ==
    /\ reader = "reaped"
    /\ child_exited' = TRUE
    /\ reader' = "flagged"
    /\ UNCHANGED <<queue, seq, sent, received, manager, joined, kill_failures, envVars>>

\* mutant: the exit frame is pushed before the flag is stored
PushExitedBeforeFlag ==
    /\ reader = "reaped"
    /\ Emit(ControlFrame("Exited", seq + 1))
    /\ reader' = "done"
    /\ UNCHANGED <<received, child_exited, manager, joined, kill_failures, envVars>>

\* mutant: a full queue blocks the reader thread, as a bounded channel would
PushExitedBlocks ==
    /\ reader = "flagged"
    /\ Len(queue.frames) < OutputCapacity
    /\ Emit(ControlFrame("Exited", seq + 1))
    /\ reader' = "done"
    /\ UNCHANGED <<received, child_exited, manager, joined, kill_failures, envVars>>

PushExited ==
    /\ reader = "flagged"
    /\ Emit(ControlFrame("Exited", seq + 1))
    /\ reader' = "done"
    /\ UNCHANGED <<received, child_exited, manager, joined, kill_failures, envVars>>

Reader == \/ ReadOutput \/ ReadEof \/ ReadErrorChildGone \/ ReadErrorReported
          \/ WaitReaps \/ WaitFails \/ StoreExited \/ PushExited

-----------------------------------------------------------------------------
(* The manager's thread: it polls, or it is inside kill or drop. *)

TryRecv ==
    /\ manager = "polling"
    /\ queue.frames # << >>
    /\ queue' = Popped(queue)
    /\ received' = Append(received, Head(queue.frames))
    /\ UNCHANGED <<seq, sent, threadVars, envVars>>

\* kill, or the drop of the process: request_termination, then the join
BeginTermination(from, to) ==
    /\ manager = from
    /\ ~joined
    /\ manager' = to
    /\ UNCHANGED <<queue, seq, sent, received, reader, child_exited, joined,
                   kill_failures, envVars>>

BeginKill == BeginTermination("polling", "killing")
BeginDrop == BeginTermination("polling", "dropping")

\* A drop after a kill finds no reader thread and has nothing to wait for.
DropJoined ==
    /\ manager = "polling"
    /\ joined
    /\ manager' = "dropped"
    /\ UNCHANGED <<queue, seq, sent, received, reader, child_exited, joined,
                   kill_failures, envVars>>

Terminated ==
    /\ \/ manager = "killing"  /\ manager' = "joining"
       \/ manager = "dropping" /\ manager' = "drop_joining"
    /\ doomed' = TRUE
    /\ UNCHANGED <<queue, seq, sent, received, reader, child_exited, joined,
                   kill_failures, child, slave_open>>

\* kill returns the error and keeps the reader thread; drop joins regardless.
TerminationFails ==
    /\ kill_failures < MaxKillFailures
    /\ \/ manager = "killing"  /\ manager' = "polling"
       \/ manager = "dropping" /\ manager' = "drop_joining"
    /\ kill_failures' = kill_failures + 1
    /\ UNCHANGED <<queue, seq, sent, received, reader, child_exited, joined, envVars>>

Join ==
    /\ reader = "done"
    /\ \/ manager = "joining"      /\ manager' = "polling"
       \/ manager = "drop_joining" /\ manager' = "dropped"
    /\ joined' = TRUE
    /\ UNCHANGED <<queue, seq, sent, received, reader, child_exited,
                   kill_failures, envVars>>

Manager == \/ TryRecv \/ BeginKill \/ BeginDrop \/ DropJoined
           \/ Terminated \/ TerminationFails \/ Join

-----------------------------------------------------------------------------
(* The child and the kernel. *)

ChildExits ==
    /\ child = "running"
    /\ child' = "exited"
    /\ UNCHANGED <<queue, seq, sent, received, threadVars, doomed, slave_open>>

SlaveCloses ==
    /\ slave_open
    /\ slave_open' = FALSE
    /\ UNCHANGED <<queue, seq, sent, received, threadVars, child, doomed>>

Environment == ChildExits \/ SlaveCloses

Next == Reader \/ Manager \/ Environment

Safe == Init /\ [][Next]_vars

(***************************************************************************)
(* Fairness: the reader thread runs whenever it can; the manager polls     *)
(* while it has frames and finishes a termination and a join it began (but *)
(* need never begin one); a child whose termination succeeded exits, and   *)
(* the terminal of an exited child is eventually closed.                   *)
(***************************************************************************)
Fairness ==
    /\ WF_vars(Reader)
    /\ WF_vars(TryRecv)
    /\ WF_vars(Terminated \/ TerminationFails)
    /\ WF_vars(Join)
    /\ WF_vars(doomed /\ ChildExits)
    /\ WF_vars(child = "exited" /\ SlaveCloses)

Spec == Safe /\ Fairness

-----------------------------------------------------------------------------
(* Properties. *)

TypeOK ==
    /\ queue \in QueueState
    /\ seq \in Nat
    /\ reader \in {"reading", "waiting", "reaped", "flagged", "done"}
    /\ child_exited \in BOOLEAN
    /\ child \in {"running", "exited"}
    /\ doomed \in BOOLEAN
    /\ slave_open \in BOOLEAN
    /\ manager \in {"polling", "killing", "joining",
                    "dropping", "drop_joining", "dropped"}
    /\ joined \in BOOLEAN
    /\ kill_failures \in Nat
    /\ sent \in Seq([kind : FrameKinds, bytes : Nat, end : Nat])
    /\ received \in Seq(Frame)

\* Everything the consumer has been handed, then what still waits for it.
Stream == received \o queue.frames

LastSeq(f) == f.seq + f.frames - 1

\* The sequence numbers of the stream leave no gap and repeat nothing: each
\* frame starts where the one before it ends (an overflow summary ends at the
\* last frame it counts), and the last one ends at the reader's counter.
\* This is what lets a consumer detect and size every loss from seq alone.
ContiguousUpTo(s, n) ==
    /\ s = << >> => n = 0
    /\ s # << >> => s[1].seq = 1 /\ LastSeq(s[Len(s)]) = n
    /\ \A i \in 1 .. Len(s) - 1 : s[i + 1].seq = LastSeq(s[i]) + 1
Contiguous == ContiguousUpTo(Stream, seq)

\* A frame of the stream is one the reader produced under that number, byte
\* for byte, or it is a summary of a run of output frames and reports exactly
\* the bytes of that run: coalescing loses no count, and neither an exit nor
\* an error frame is ever dropped to overflow.
Truthful(f) ==
    /\ f.seq >= 1 /\ f.frames >= 1 /\ LastSeq(f) <= seq
    /\ f.kind # "Overflow" => /\ f.frames = 1
                              /\ f.kind = sent[f.seq].kind
                              /\ f.bytes = sent[f.seq].bytes
    /\ f.kind = "Overflow" =>
          /\ \A n \in f.seq .. LastSeq(f) : sent[n].kind = "Output"
          /\ f.bytes = EndOffset(LastSeq(f)) - EndOffset(f.seq - 1)
StreamTruthful == \A i \in 1 .. Len(Stream) : Truthful(Stream[i])

\* The cumulative counters behind overflow_stats() agree, at every moment,
\* with the summaries the consumer was handed and the one still queued.  And
\* a consumer that stops polling costs bounded memory: at most the capacity
\* of output, one summary, and the frames that end the stream.  The counter
\* push_output compares with the capacity is the true number of queued output
\* frames (so saturating_sub never saturates).
OfKind(frames, kind) == [i \in DOMAIN frames |-> IF frames[i].kind = kind THEN 1 ELSE 0]
LostFrames == [i \in DOMAIN Stream |->
                 IF Stream[i].kind = "Overflow" THEN Stream[i].frames ELSE 0]
LostBytes == [i \in DOMAIN Stream |->
                 IF Stream[i].kind = "Overflow" THEN Stream[i].bytes ELSE 0]
QueueCountersExact ==
    /\ queue.dropped_frames = Total(LostFrames)
    /\ queue.dropped_bytes = Total(LostBytes)
    /\ queue.queued_output_frames = Total(OfKind(queue.frames, "Output"))
    /\ queue.queued_output_frames <= OutputCapacity
    /\ Total(OfKind(queue.frames, "Overflow")) <= 1
    /\ Len(queue.frames) <= OutputCapacity + 3

\* The exit frame closes the stream: nothing follows it, the child really is
\* gone, and kill can see so (child_exited) before the consumer sees the frame.
ExitedIsLast ==
    \A i \in 1 .. Len(Stream) : Stream[i].kind = "Exited" =>
        /\ i = Len(Stream)
        /\ reader = "done" /\ child = "exited" /\ child_exited

\* The queue implements the accounted stream: every step of thread, queue and
\* consumer produces, delivers or reports a loss, in order, or is invisible.
Promise == INSTANCE AccountedStream WITH log <- received
ImplementsAccountedStream == Promise!Safe

\* kill waits for the reader thread while nobody polls; as a full queue never
\* blocks the reader, the join returns once the child can be made to exit.
JoinReturns ==
    (manager \in {"joining", "drop_joining"} /\ doomed) ~> joined

\* A consumer that keeps polling learns the end of the stream: after the
\* child has exited, every frame is eventually handed over, the last of them
\* an exit or an error frame.
EndDelivered ==
    child = "exited" ~>
        \/ manager \in {"dropping", "drop_joining", "dropped"}
        \/ /\ reader = "done" /\ queue.frames = << >> /\ received # << >>
           /\ received[Len(received)].kind \in {"Error", "Exited"}
=============================================================================
