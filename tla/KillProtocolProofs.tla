-------------------------- MODULE KillProtocolProofs --------------------------
(***************************************************************************)
(* KillProtocol reaches all it should, for every grace period, however     *)
(* many descendants are started and wherever they move.  What makes it     *)
(* inductive: while signals are being sent the target is what the setting  *)
(* asks for (the fallback from a missing group to the process never gets   *)
(* that far), the flag says the truth, the history knows of every process  *)
(* of the group that cannot be signalled, and the dead start no one.       *)
(***************************************************************************)
EXTENDS KillProtocol, TLAPS

Signalling == killer \in {"term", "wait", "kill"}
TargetAsAsked == Signalling => target = IF kill_descendants THEN "group" ELSE "process"
FlagTruthful == child_exited \/ reader = "reaped" => child = "reaped"
EvasionKnown == evaded \/ (permitted /\ descendants["guarded"] = 0)
IInv == TypeOK /\ TargetAsAsked /\ FlagTruthful /\ EvasionKnown /\ KillReachesAll

\* Initially nobody has been signalled, and the child has not been reaped.
LEMMA InitIInv == Init => IInv
<1>1. 0 \in Nat /\ 0 \in 0 .. MaxForks /\ 0 \in 0 .. Grace
    BY KillAssumption DEF KillAssumption
<1>2. Init => TypeOK
    BY <1>1 DEF Init, TypeOK
<1>3. Init => TargetAsAsked /\ FlagTruthful /\ EvasionKnown /\ KillReachesAll
    BY DEF Init, TargetAsAsked, Signalling, FlagTruthful, EvasionKnown, KillReachesAll, Kind
<1> QED
    BY <1>2, <1>3 DEF IInv

\* Every step keeps the variables in their types.
LEMMA StepTypeOK == TypeOK /\ [Next]_vars => TypeOK'
<1> SUFFICES ASSUME TypeOK, [Next]_vars PROVE TypeOK'
    OBVIOUS
<1> USE KillAssumption DEF TypeOK, Kind, processes, thread, call, vars
<1>1. CASE Resolve
    BY <1>1 DEF Resolve
<1>2. CASE Call
    BY <1>2 DEF Call, SendSigterm, GraceSleep, GraceEnds, SendSigkill, Join
<1>3. CASE Thread
    BY <1>3 DEF Thread, ReadEnds, WaitReaps, WaitFails, StoreExited
<1>4. CASE Family
  <2>1. ASSUME NEW k \in Kind, Fork(k) PROVE TypeOK'
    BY <2>1 DEF Fork
  <2>2. ASSUME NEW k \in Kind, DescendantExits(k) PROVE TypeOK'
    BY <2>2 DEF DescendantExits
  <2>3. ASSUME NEW from \in Kind, NEW to \in Kind, Moves(from, to) PROVE TypeOK'
    BY <2>3 DEF Moves
  <2>4. CASE ChildExits \/ ChangesCredentials
    BY <2>4 DEF ChildExits, ChangesCredentials
  <2> QED
    BY <1>4, <2>1, <2>2, <2>3, <2>4 DEF Family
<1>5. CASE UNCHANGED vars
    BY <1>5
<1> QED
    BY <1>1, <1>2, <1>3, <1>4, <1>5 DEF Next

\* A step that only the reader thread or the processes take changes neither
\* the place of the call nor its target, and the dead stay dead.
LEMMA OthersKeepReach ==
    ASSUME IInv, Thread \/ Family
    PROVE  TargetAsAsked' /\ FlagTruthful' /\ EvasionKnown' /\ KillReachesAll'
<1> USE DEF IInv, TypeOK, TargetAsAsked, Signalling, FlagTruthful, EvasionKnown,
            KillReachesAll, Kind, processes, thread, call
<1>1. CASE Thread
    BY <1>1 DEF Thread, ReadEnds, WaitReaps, WaitFails, StoreExited
<1>2. ASSUME NEW k \in Kind, Fork(k)
      PROVE  TargetAsAsked' /\ FlagTruthful' /\ EvasionKnown' /\ KillReachesAll'
    BY <1>2 DEF Fork
<1>3. ASSUME NEW k \in Kind, DescendantExits(k)
      PROVE  TargetAsAsked' /\ FlagTruthful' /\ EvasionKnown' /\ KillReachesAll'
    BY <1>3 DEF DescendantExits
<1>4. ASSUME NEW from \in Kind, NEW to \in Kind, Moves(from, to)
      PROVE  TargetAsAsked' /\ FlagTruthful' /\ EvasionKnown' /\ KillReachesAll'
    BY <1>4 DEF Moves
<1>5. CASE ChildExits \/ ChangesCredentials
    BY <1>5 DEF ChildExits, ChangesCredentials
<1> QED
    BY <1>1, <1>2, <1>3, <1>4, <1>5 DEF Family

\* A call that skips the rest because its target is gone has reached all.
LEMMA SkipMeansGone ==
    ASSUME IInv, SkipSigkill(target), Signalling
    PROVE  child # "running" /\ (kill_descendants => descendants["member"] = 0)
BY DEF IInv, TypeOK, TargetAsAsked, FlagTruthful, SkipSigkill, Exists, Kind

\* Each step of the call goes on to signal what was asked for, or has it gone.
LEMMA CallKeepsReach ==
    ASSUME IInv, Resolve \/ Call
    PROVE  TargetAsAsked' /\ FlagTruthful' /\ EvasionKnown' /\ KillReachesAll'
<1> USE DEF IInv, TypeOK, TargetAsAsked, Signalling, FlagTruthful, EvasionKnown,
            KillReachesAll, Kind, processes, thread, call
<1>1. CASE Resolve
    BY <1>1 DEF Resolve, SkipSigkill, Exists
<1>2. CASE SendSigterm
    BY <1>2 DEF SendSigterm, Exists
<1>3. CASE GraceSleep
    BY <1>3 DEF GraceSleep
<1>4. CASE GraceEnds
    BY <1>4, SkipMeansGone DEF GraceEnds
<1>5. CASE SendSigkill
    BY <1>5 DEF SendSigkill, Exists, MaySignal
<1>6. CASE Join
    BY <1>6 DEF Join
<1> QED
    BY <1>1, <1>2, <1>3, <1>4, <1>5, <1>6 DEF Call

\* Every step keeps the inductive invariant.
LEMMA StepIInv == IInv /\ [Next]_vars => IInv'
<1> SUFFICES ASSUME IInv, [Next]_vars PROVE IInv'
    OBVIOUS
<1>1. TypeOK'
    BY StepTypeOK DEF IInv
<1>2. TargetAsAsked' /\ FlagTruthful' /\ EvasionKnown' /\ KillReachesAll'
  <2>1. CASE UNCHANGED vars
    BY <2>1 DEF IInv, TargetAsAsked, Signalling, FlagTruthful, EvasionKnown,
                KillReachesAll, vars, processes, thread, call
  <2> QED
    BY <2>1, OthersKeepReach, CallKeepsReach DEF Next
<1> QED
    BY <1>1, <1>2 DEF IInv

\* The inductive invariant holds throughout.
LEMMA AlwaysIInv == Spec => []IInv
<1>1. Safe => []IInv
    BY InitIInv, StepIInv, PTL DEF Safe
<1> QED
    BY <1>1, PTL DEF Spec

\* The variables keep their types; the grace period is never exceeded.
THEOREM KillTypeCorrect == Spec => []TypeOK
BY AlwaysIInv, PTL DEF IInv

\* A termination reported successful leaves the child dead or, where its
\* descendants were asked for, no living member of the group it could signal
\* throughout.
THEOREM KillComplete == Spec => []KillReachesAll
BY AlwaysIInv, PTL DEF IInv
=============================================================================
