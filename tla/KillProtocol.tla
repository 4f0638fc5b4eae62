----------------------------- MODULE KillProtocol -----------------------------
(***************************************************************************)
(* How kill, or the drop of a process, ends a child (terminate_child_unix  *)
(* in panesmith-core/src/pty.rs): SIGTERM, a grace period, SIGKILL, to the *)
(* child or to its process group, then the join of the reader thread.      *)
(*                                                                         *)
(* PtyProcess takes for granted that this ends, dooms the child, and that  *)
(* the terminal of a dead child is closed; here it is seen when that is    *)
(* so.  The child leads its session and its group.  A descendant starts in *)
(* the group of its parent and holds the terminal open; it may leave the   *)
(* group (setpgid, setsid), come back to it, or take credentials that      *)
(* forbid signalling it.  Processes may end at any time, on SIGTERM or     *)
(* not; a SIGKILL that reaches them ends them at once.  kill(2) reaches    *)
(* those of its target it may signal, and fails when there is none of      *)
(* these.  A zombie still exists for it, and pids are not reused while the *)
(* call runs.                                                              *)
(* should_skip_unix_sigkill reads a flag and probes: both only ever change *)
(* one way, so the two are one step.                                       *)
(***************************************************************************)
EXTENDS Naturals

CONSTANTS MaxForks,  \* bound: descendants started
          Grace      \* KillConfig::term_grace, in polls; 0 is accepted

ASSUME KillAssumption == MaxForks \in Nat /\ Grace \in Nat

VARIABLES
    kill_descendants, \* KillConfig::kill_descendants
    permitted,        \* whether the child may be signalled
    child,            \* "running", "zombie" or "reaped"
    descendants,      \* how many of each kind live
    forks,            \* how many were started
    evaded,           \* history: whether a process of the group could ever not
                      \* be signalled, or one came back to the group
    reader,           \* "reading", "waiting", "reaped" or "done"
    child_exited,     \* the flag it shares
    killer,           \* where the call is
    target,           \* "process" or "group"
    elapsed           \* of the grace period

processes == <<permitted, child, descendants, forks, evaded>>
thread == <<reader, child_exited>>
call == <<kill_descendants, killer, target, elapsed>>
vars == <<processes, thread, call>>

\* In the group and open to signals, in the group but not so, or out of it.
Kind == {"member", "guarded", "escaped"}

Init ==
    /\ kill_descendants \in BOOLEAN /\ permitted \in BOOLEAN
    /\ child = "running" /\ descendants = [k \in Kind |-> 0] /\ forks = 0
    /\ evaded = ~permitted
    /\ reader = "reading" /\ child_exited = FALSE
    /\ killer = "idle" /\ target = "process" /\ elapsed = 0

-----------------------------------------------------------------------------
(* The call. *)

\* kill(2) with this target would not be ESRCH.
Exists(t) ==
    child # "reaped" \/ (t = "group" /\ descendants["member"] + descendants["guarded"] > 0)

\* Nor would it be EPERM: one process of the target may be signalled.
MaySignal(t) ==
    (child # "reaped" /\ permitted) \/ (t = "group" /\ descendants["member"] > 0)

\* mutant: the child's exit settles it for its group, too
SkipSigkillOnceExited(t) == child_exited \/ ~Exists(t)

\* should_skip_unix_sigkill
SkipSigkill(t) == (t = "process" /\ child_exited) \/ ~Exists(t)

\* request_termination and resolve_initial_unix_kill_target: nothing is done
\* if nothing is left.  A failed kill may be tried again.
Resolve ==
    /\ killer \in {"idle", "failed"}
    /\ LET group == kill_descendants /\ Exists("group")
       IN  /\ target' = IF group THEN "group" ELSE "process"
           /\ killer' = IF ~group /\ SkipSigkill("process") THEN "join" ELSE "term"
    /\ UNCHANGED <<processes, thread, kill_descendants, elapsed>>

SendSigterm ==
    /\ killer = "term"
    /\ killer' = IF ~Exists(target) THEN "join"
                 ELSE IF MaySignal(target) THEN "wait" ELSE "failed"
    /\ elapsed' = 0
    /\ UNCHANGED <<processes, thread, kill_descendants, target>>

\* wait_for_unix_kill_grace
GraceSleep ==
    /\ killer = "wait"
    /\ ~SkipSigkill(target) /\ elapsed < Grace
    /\ elapsed' = elapsed + 1
    /\ UNCHANGED <<processes, thread, kill_descendants, killer, target>>

\* mutant: a child that outlives the grace period is left alone
GraceEndsTheCall ==
    /\ killer = "wait"
    /\ SkipSigkill(target) \/ elapsed >= Grace
    /\ killer' = "join"
    /\ UNCHANGED <<processes, thread, kill_descendants, target, elapsed>>

GraceEnds ==
    /\ killer = "wait"
    /\ SkipSigkill(target) \/ elapsed >= Grace
    /\ killer' = IF SkipSigkill(target) THEN "join" ELSE "kill"
    /\ UNCHANGED <<processes, thread, kill_descendants, target, elapsed>>

SendSigkill ==
    /\ killer = "kill"
    /\ killer' = IF Exists(target) /\ ~MaySignal(target) THEN "failed" ELSE "join"
    /\ child' = IF child = "running" /\ permitted THEN "zombie" ELSE child
    /\ descendants' = [descendants EXCEPT !["member"] = IF target = "group" THEN 0 ELSE @]
    /\ UNCHANGED <<permitted, forks, evaded, thread, kill_descendants, target, elapsed>>

\* join_reader_thread
Join ==
    /\ killer = "join"
    /\ reader = "done"
    /\ killer' = "returned"
    /\ UNCHANGED <<processes, thread, kill_descendants, target, elapsed>>

Call == SendSigterm \/ GraceSleep \/ GraceEnds \/ SendSigkill \/ Join

-----------------------------------------------------------------------------
(* The reader thread, after run_reader_thread; its frames are PtyProcess's. *)

Closed == child # "running" /\ \A k \in Kind : descendants[k] = 0

\* The read loop ends when the terminal is closed.  It may also end on an
\* error, or because the kernel hangs the terminal up, at any time.
ReadEnds ==
    /\ reader = "reading"
    /\ reader' = "waiting"
    /\ UNCHANGED <<processes, child_exited, call>>

WaitReaps ==
    /\ reader = "waiting"
    /\ child = "zombie"
    /\ child' = "reaped" /\ reader' = "reaped"
    /\ UNCHANGED <<permitted, descendants, forks, evaded, child_exited, call>>

\* The child's status cannot be had: the thread ends without the flag.
WaitFails ==
    /\ reader = "waiting"
    /\ reader' = "done"
    /\ UNCHANGED <<processes, child_exited, call>>

StoreExited ==
    /\ reader = "reaped"
    /\ child_exited' = TRUE /\ reader' = "done"
    /\ UNCHANGED <<processes, call>>

Thread == ReadEnds \/ WaitReaps \/ WaitFails \/ StoreExited

-----------------------------------------------------------------------------
(* The child and its descendants. *)

\* A new process is in the group of its parent, with its credentials.
Fork(kind) ==
    /\ \/ child = "running" /\ kind = (IF permitted THEN "member" ELSE "guarded")
       \/ descendants[kind] > 0
    /\ forks < MaxForks
    /\ forks' = forks + 1
    /\ descendants' = [descendants EXCEPT ![kind] = @ + 1]
    /\ UNCHANGED <<permitted, child, evaded, thread, call>>

\* setpgid, setsid, and the calls that change credentials.  Only a group that
\* exists can be come back to.
Moves(from, to) ==
    /\ from # to /\ descendants[from] > 0
    /\ from = "escaped" => Exists("group")
    /\ descendants' = [descendants EXCEPT ![from] = @ - 1, ![to] = @ + 1]
    /\ evaded' = (evaded \/ to = "guarded" \/ from = "escaped")
    /\ UNCHANGED <<permitted, child, forks, thread, call>>

ChangesCredentials ==
    /\ child = "running"
    /\ permitted' = ~permitted /\ evaded' = TRUE
    /\ UNCHANGED <<child, descendants, forks, thread, call>>

ChildExits ==
    /\ child = "running"
    /\ child' = "zombie"
    /\ UNCHANGED <<permitted, descendants, forks, evaded, thread, call>>

DescendantExits(kind) ==
    /\ descendants[kind] > 0
    /\ descendants' = [descendants EXCEPT ![kind] = @ - 1]
    /\ UNCHANGED <<permitted, child, forks, evaded, thread, call>>

Family ==
    \/ ChildExits \/ ChangesCredentials
    \/ \E k \in Kind : Fork(k) \/ DescendantExits(k)
    \/ \E from, to \in Kind : Moves(from, to)

Next == Resolve \/ Call \/ Thread \/ Family

Safe == Init /\ [][Next]_vars

(***************************************************************************)
(* Fairness: a call that was begun and the reader thread run on, and a     *)
(* read of a closed terminal returns.  No process need ever end of itself, *)
(* and no read of an open terminal need ever return.                       *)
(***************************************************************************)
Spec == Safe /\ WF_vars(Call) /\ WF_vars(Closed /\ ReadEnds)
             /\ WF_vars(WaitReaps) /\ WF_vars(StoreExited)

-----------------------------------------------------------------------------
(* Properties. *)

TypeOK ==
    /\ kill_descendants \in BOOLEAN /\ permitted \in BOOLEAN /\ evaded \in BOOLEAN
    /\ child \in {"running", "zombie", "reaped"}
    /\ descendants \in [Kind -> Nat] /\ forks \in 0 .. MaxForks
    /\ reader \in {"reading", "waiting", "reaped", "done"}
    /\ child_exited \in BOOLEAN
    /\ killer \in {"idle", "failed", "term", "wait", "kill", "join", "returned"}
    /\ target \in {"process", "group"}
    /\ elapsed \in 0 .. Grace

\* When a termination is reported successful the child is dead, and with
\* kill_descendants its whole group is: whoever ended in which order, whoever
\* ignored SIGTERM or was started during the grace period, and though the
\* child's own exit may long have been seen.  Of a group this is only so if
\* every process in it could be signalled: kill(2) reports success when it
\* reached one.  Nothing is said of those that left the group.
KillReachesAll ==
    killer \in {"join", "returned"} =>
        IF kill_descendants
        THEN ~evaded => child # "running" /\ descendants["member"] = 0
        ELSE child # "running"

\* So a kill of the child with its descendants returns, if those that left the
\* group end some time: none other is left to hold the terminal open, and the
\* reader thread ends.
Pending == killer \notin {"idle", "failed", "returned"}
KillReturns ==
    <>[](~evaded /\ descendants["escaped"] = 0) =>
        (Pending /\ kill_descendants ~> ~Pending)

=============================================================================
