-------------------------- MODULE InputTransaction --------------------------
(***************************************************************************)
(* One input transaction (PaneManager::send_input_transaction): the intent *)
(* becomes a plan of write steps; each is written with retries of          *)
(* transient errors (PtyWriter::write_bytes_retrying); between them frames *)
(* are polled; and what was typed may have to show on the pane's screen    *)
(* before the submit step is written.                                      *)
(*                                                                         *)
(* The call holds the manager's thread; the child, through the frames a    *)
(* poll handles, and the writer's errors are its environment: any poll may *)
(* find the screen changed, or the pane ended.  Bytes are told apart by    *)
(* their place in the plan.  Refusals before the first poll are left out.  *)
(***************************************************************************)
EXTENDS Naturals, SequencesExt

CONSTANTS MaxText,     \* bound: bytes of encoded text
          ChunkSizes,  \* chunk_size of the transaction; 0 is accepted
          EnterBytes,  \* what Enter encodes to: 1 byte, or 2 for CrLf
          MaxTransientRetries,
          Timeout      \* of the verification, in ticks

ASSUME TransactionAssumption ==
    /\ {MaxText, MaxTransientRetries, Timeout} \subseteq Nat
    /\ ChunkSizes \subseteq Nat
    /\ EnterBytes \in {1, 2}

VARIABLES
    plan,      \* the steps
    asked,     \* a verification was asked for
    at,        \* where the call is
    index,     \* the step it is at
    written,   \* bytes_written of this step
    retries,   \* of the transient error at hand
    verified,  \* the verification has been made
    elapsed,   \* its time
    outcome,   \* the InputOutcome
    ended,     \* the pane is Exited or Failed
    accepted,  \* history: the bytes the PTY has taken
    seen_at    \* history: how many, when the screen last matched; -1: never

call == <<plan, asked, at, index, verified>>
vars == <<call, written, retries, elapsed, outcome, ended, accepted, seen_at>>

-----------------------------------------------------------------------------
(* The plan. *)

Step(bytes, submits) == [bytes |-> bytes, submits |-> submits]

\* text_input_steps without bracketed paste: the encoded text in chunks.
Chunks(n, chunk_size) ==
    LET size == IF chunk_size = 0 THEN 1 ELSE chunk_size
        left(i) == n - (i - 1) * size
    IN  [i \in 1 .. (n + size - 1) \div size |->
            Step(IF left(i) < size THEN left(i) ELSE size, FALSE)]

\* A key, raw bytes (perhaps none) and a bracketed paste are one step.
Whole(n) == <<Step(n, FALSE)>>
Texts == {Chunks(n, c) : n \in 0 .. MaxText, c \in ChunkSizes} \cup {Whole(n) : n \in 1 .. MaxText}
Plans == {Whole(n) : n \in 0 .. MaxText} \cup Texts
         \cup {Append(text, Step(EnterBytes, TRUE)) : text \in Texts}

Submits == \E i \in DOMAIN plan : plan[i].submits

NoOutcome == [bytes_sent |-> 0, echoed |-> FALSE, submitted |-> FALSE,
              timed_out |-> FALSE, child_exited |-> FALSE, errors |-> {}]

Init ==
    /\ plan \in Plans /\ asked \in BOOLEAN
    /\ at = "begin" /\ index = 1
    /\ written = 0 /\ retries = 0
    /\ verified = FALSE /\ elapsed = 0
    /\ outcome = NoOutcome
    /\ ended \in BOOLEAN
    /\ accepted = << >> /\ seen_at = -1

-----------------------------------------------------------------------------
(* send_input_transaction *)

Goes(to) == at' = to /\ UNCHANGED <<plan, asked>>

\* poll_pane_frames: a pane that has ended stays so
Poll == ended' \in {ended, TRUE}

StopsExited == outcome' = [outcome EXCEPT !.child_exited = TRUE, !.errors = @ \cup {"ChildExited"}]

Begin ==
    /\ at = "begin"
    /\ Poll
    /\ IF ended' THEN StopsExited /\ Goes("done") ELSE UNCHANGED outcome /\ Goes("step")
    /\ UNCHANGED <<index, verified, written, retries, elapsed, accepted, seen_at>>

\* The head of the loop; a child found gone there has been found in AfterStep
\* already.  Before the first submit step the verification is
\* made, if one was asked for; otherwise it comes at the end.
BeginStep ==
    /\ at = "step"
    /\ Goes(IF index > Len(plan) THEN IF verified \/ ~asked THEN "done" ELSE "verify"
            ELSE IF plan[index].submits /\ asked /\ ~verified THEN "verify"
            ELSE IF plan[index].bytes = 0 THEN "after"
            ELSE "write")
    /\ elapsed' = 0 /\ written' = 0 /\ retries' = 0
    /\ UNCHANGED <<index, verified, outcome, ended, accepted, seen_at>>

AfterStep ==
    /\ at = "after"
    /\ Poll
    /\ IF ended' /\ index < Len(plan) THEN StopsExited /\ Goes("done")
       ELSE outcome' = [outcome EXCEPT !.child_exited = @ \/ ended'] /\ Goes("step")
    /\ index' = index + 1
    /\ UNCHANGED <<verified, written, retries, elapsed, accepted, seen_at>>

-----------------------------------------------------------------------------
(* write_input_transaction_step and write_bytes_retrying *)

Places(n) == [k \in 1 .. n |-> <<index, written + k>>]

\* mutant: a write of zero bytes counts as progress
WriteAcceptsZero ==
    /\ at = "write"
    /\ \E n \in 0 .. plan[index].bytes - written :
         /\ accepted' = accepted \o Places(n)
         /\ written' = written + n
         /\ Goes(IF written' = plan[index].bytes THEN "flush" ELSE "write")
    /\ retries' = 0
    /\ UNCHANGED <<index, verified, elapsed, outcome, ended, seen_at>>

\* Progress makes the retries start again.
WriteAccepts ==
    /\ at = "write"
    /\ \E n \in 1 .. plan[index].bytes - written :
         /\ accepted' = accepted \o Places(n)
         /\ written' = written + n
         /\ Goes(IF written' = plan[index].bytes THEN "flush" ELSE "write")
    /\ retries' = 0
    /\ UNCHANGED <<index, verified, elapsed, outcome, ended, seen_at>>

\* mutant: a retry starts the step over
RetryFromStart ==
    /\ at \in {"write", "flush"}
    /\ retries < MaxTransientRetries
    /\ retries' = retries + 1
    /\ written' = 0 /\ Goes("write")
    /\ UNCHANGED <<index, verified, elapsed, outcome, ended, accepted, seen_at>>

\* WouldBlock or Interrupted
Retry ==
    /\ at \in {"write", "flush"}
    /\ retries < MaxTransientRetries
    /\ retries' = retries + 1
    /\ UNCHANGED <<call, written, elapsed, outcome, ended, accepted, seen_at>>

\* Any error that lasts, a write of zero bytes and a poisoned lock included:
\* the bytes that did go out are counted.
WriteFails ==
    /\ at \in {"write", "flush"}
    /\ outcome' = [outcome EXCEPT !.bytes_sent = @ + written, !.errors = @ \cup {"Write"}]
    /\ Goes("done")
    /\ UNCHANGED <<index, verified, written, retries, elapsed, ended, accepted, seen_at>>

Flushed ==
    /\ at = "flush"
    /\ outcome' = [outcome EXCEPT !.bytes_sent = @ + written,
                                  !.submitted = @ \/ plan[index].submits]
    /\ Goes("after")
    /\ UNCHANGED <<index, verified, written, retries, elapsed, ended, accepted, seen_at>>

-----------------------------------------------------------------------------
(* verify_input_transaction_echo *)

\* After it the loop writes the submit step at hand, without looking at the
\* child again, or the call ends.
VerifiedGoes == Goes(IF index > Len(plan) THEN "done" ELSE "write")

Matches ==
    /\ at = "verify"
    /\ Poll
    /\ outcome' = [outcome EXCEPT !.echoed = TRUE]
    /\ verified' = TRUE /\ seen_at' = Len(accepted)
    /\ VerifiedGoes
    /\ UNCHANGED <<index, written, retries, elapsed, accepted>>

\* mutant: the submit step follows however the verification ended
GivesUpAndSubmits(changed) ==
    /\ at = "verify"
    /\ outcome' = [changed EXCEPT !.errors = @ \cup {"VerificationFailed"}]
    /\ verified' = TRUE
    /\ VerifiedGoes
    /\ UNCHANGED <<index, written, retries, elapsed, accepted, seen_at>>

GivesUp(changed) ==
    /\ at = "verify"
    /\ outcome' = [changed EXCEPT !.errors = @ \cup {"VerificationFailed"}]
    /\ verified' = TRUE
    /\ Goes("done")
    /\ UNCHANGED <<index, written, retries, elapsed, accepted, seen_at>>

ChildExits == Poll /\ ended' /\ GivesUp([outcome EXCEPT !.child_exited = TRUE])

TimesOut == /\ elapsed >= Timeout
            /\ ~ended /\ UNCHANGED ended
            /\ GivesUp([outcome EXCEPT !.timed_out = TRUE])

\* Neither: it sleeps, never past the timeout.
Sleeps ==
    /\ at = "verify"
    /\ ~ended
    /\ elapsed < Timeout
    /\ elapsed' \in elapsed + 1 .. Timeout
    /\ UNCHANGED <<call, written, retries, outcome, ended, accepted, seen_at>>

Next == \/ Begin \/ BeginStep \/ AfterStep
        \/ WriteAccepts \/ Retry \/ WriteFails \/ Flushed
        \/ Matches \/ ChildExits \/ TimesOut \/ Sleeps

\* The call goes on: its thread runs, and every read, write and sleep returns.
Spec == Init /\ [][Next]_vars /\ WF_vars(Next)

-----------------------------------------------------------------------------
(* Properties. *)

Planned == FlattenSeq([i \in DOMAIN plan |-> [k \in 1 .. plan[i].bytes |-> <<i, k>>]])

\* InputOutcome is the truth about the PTY: through partial writes, retries
\* and errors in any step the child is sent a beginning of the plan, nothing
\* twice, and bytes_sent says how much; only a call that has sent all of it
\* (and seen the echo, if one was asked for) counts as a success or submitted.
IsSuccess == outcome.errors = {} /\ ~outcome.timed_out
OutcomeTruthful ==
    /\ IsPrefix(accepted, Planned)
    /\ at = "done" =>
          /\ outcome.bytes_sent = Len(accepted)
          /\ outcome.submitted => Submits /\ accepted = Planned
          /\ IsSuccess => accepted = Planned /\ (asked => outcome.echoed) /\ outcome.submitted = Submits
          /\ "ChildExited" \in outcome.errors => ended /\ outcome.child_exited

\* When an echo was asked for, no byte of the submit step reaches the child
\* before the screen has matched, and it matched when all the text was out.
SubmitOnlyAfterEcho ==
    asked => \A p \in DOMAIN accepted :
        plan[accepted[p][1]].submits => seen_at >= 0 /\ seen_at < p
            /\ \A r \in seen_at + 1 .. p : plan[accepted[r][1]].submits

\* The call returns: retries are bounded for each byte sent, and polls for an
\* echo by the timeout, whatever the outcome of each write and poll.  That each
\* write returns is assumed: one to a terminal that nobody reads can block.
Returns == <>(at = "done")
=============================================================================
