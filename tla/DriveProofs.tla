---------------------------- MODULE DriveProofs ----------------------------
(***************************************************************************)
(* Proofs about Drive.tla, for every cap on stderr and on memory, and      *)
(* whether or not a descendant can leave the group.  What a call returns   *)
(* is decided after everything it speaks of has ended, so the invariant    *)
(* follows three lives: the group's up to the final kill, the frame's      *)
(* through the stdout thread, and the measured memory's up to the verdict. *)
(***************************************************************************)
EXTENDS Drive, TLAPS

Killed == {"joinOut", "joinErr", "verdict", "done"}   \* after the final kill

\* The parent reaps the leader when it leaves the loop.  The group id is
\* somebody else's only once nobody is left in the group, so no kill of the
\* loop has met a stranger.
GroupInv ==
  /\ leader = "reaped" <=> pc \in After
  /\ recycled => leader = "reaped" /\ desc \notin {"group", "dying"}
  /\ pc \in Killed => desc # "group"
  /\ stray # "loop"

\* What the stdout thread has read and what is still in the pipe add up to
\* what was written; a frame was seen only when nobody was left to write.
FrameInv ==
  /\ outDrain = "header" => <<out, written>> \in
       {<< <<>>, "none">>, << <<"part">>, "part">>, << <<"huge">>, "spoilt">>}
  /\ outDrain = "body" => <<out, written>> \in {<< <<>>, "part">>, << <<"rest">>, "whole">>}
  /\ outDrain = "probe" => <<out, written>> \in {<< <<>>, "whole">>, << <<"more">>, "spoilt">>}
  /\ outEnd = "frame" => outDrain = "sent" /\ written = "whole" /\ ~Held

\* The joins come before the verdict, and a success is its last branch.
VerdictInv ==
  /\ pc \in {"joinErr", "verdict"} => outDrain = "sent"
  /\ pc = "verdict" => errDrain = "sent"
  /\ result = "ok" => /\ pc = "done" /\ outDrain = "sent" /\ errDrain = "sent"
                      /\ outEnd = "frame" /\ code = "zero" /\ errTotal =< MaxStderr
                      /\ memory = "none" /\ ~timedOut

\* A group that was over the ceiling when its leader was reaped is measured
\* until it ends, and the verdict stands by the time it is killed.
HeavyInv ==
  /\ grown # "none" => guarded
  /\ heavy # "no" => guarded /\ grown = "desc" /\ pc \in After
  /\ heavy = "killed" => pc \in Killed /\ (memory # "none" \/ timedOut)
  /\ heavy = "atReap" /\ desc = "group" =>
       /\ pc = "lastMeasure" => "desc" \in unread \/ sum > MaxResident \/ memory # "none"
       /\ pc = "finalKill" => memory # "none" \/ timedOut

IInv == TypeOK /\ GroupInv /\ FrameInv /\ VerdictInv /\ HeavyInv

\* The members of the group are the leader and the descendant.
LEMMA GroupMembers == InGroup \subseteq Proc
  BY DEF InGroup, Proc

\* The initial state satisfies the inductive invariant.
LEMMA InitIInv == Init => IInv
  <1> SUFFICES ASSUME Init PROVE IInv
    OBVIOUS
  <1>1. TypeOK
    <2>1. out \in {<<>>} \cup {<<t>> : t \in {"part", "rest", "huge", "more"}}
      BY DEF Init
    <2>2. errTotal \in 0..MaxStderr + 1 /\ err \in 0..1 /\ sum \in Nat
      BY DriveAssumption DEF Init
    <2> QED BY <2>1, <2>2 DEF Init, TypeOK
  <1>2. GroupInv /\ FrameInv /\ VerdictInv /\ HeavyInv
    BY DEF Init, GroupInv, FrameInv, VerdictInv, HeavyInv, After, Killed
  <1> QED BY <1>1, <1>2 DEF IInv

\* What the worker, its descendant and the kernel do: they never join the
\* group once it is killed, and write only while somebody holds the pipes.
LEMMA WorldKeepsIInv ==
  ASSUME IInv,
         \/ HelperRuns \/ AdapterExits \/ Fork \/ (\E p \in Proc : Grow(p)) \/ DescMoves \/ Die
         \/ (\E t \in {"part", "rest", "huge", "more"} : WriteOut(t)) \/ WriteErr \/ Recycle
  PROVE  IInv'
  <1> USE DEF IInv, TypeOK, GroupInv, FrameInv, VerdictInv, HeavyInv, Killed, After,
              LeaderLives, DescLives, Held, pipes, drains, parent
  <1>1. CASE HelperRuns
    BY <1>1 DEF HelperRuns
  <1>2. CASE AdapterExits
    BY <1>2 DEF AdapterExits
  <1>3. CASE Fork
    BY <1>3 DEF Fork
  <1>4. CASE \E p \in Proc : Grow(p)
    BY <1>4 DEF Grow, Proc
  <1>5. CASE DescMoves
    <2>1. desc' \in {desc, "escaped", "gone"} /\ holding' \in {holding, FALSE}
      BY <1>5 DEF DescMoves
    <2>2. desc \in {"group", "escaped"} /\ (desc' = "escaped" => desc \in {"group", "escaped"})
      BY <1>5 DEF DescMoves
    <2>3. TypeOK'
      <3>1. desc' \in {"none", "group", "escaped", "dying", "gone"} /\ holding' \in BOOLEAN
        BY <1>5 DEF DescMoves
      <3> QED BY <1>5, <3>1 DEF DescMoves
    <2>4. GroupInv' /\ VerdictInv'
      BY <1>5, <2>1, <2>2 DEF DescMoves
    <2>5. FrameInv'
      BY <1>5, <2>1, <2>2 DEF DescMoves
    <2>6. HeavyInv'
      BY <1>5, <2>1 DEF DescMoves
    <2> QED BY <2>3, <2>4, <2>5, <2>6
  <1>6. CASE Die
    <2>1. /\ leader' \in {leader, "zombie"} /\ desc' \in {desc, "gone"} /\ holding' \in {holding, FALSE}
          /\ leader' # leader => leader = "dying"
      BY <1>6 DEF Die
    <2>2. TypeOK'
      <3>1. /\ leader' \in {"helper", "adapter", "dying", "zombie", "reaped"}
            /\ desc' \in {"none", "group", "escaped", "dying", "gone"} /\ holding' \in BOOLEAN
        BY <1>6 DEF Die
      <3> QED BY <1>6, <3>1 DEF Die
    <2>3. GroupInv' /\ VerdictInv'
      BY <1>6, <2>1 DEF Die
    <2>4. FrameInv'
      BY <1>6, <2>1 DEF Die
    <2>5. HeavyInv'
      BY <1>6, <2>1 DEF Die
    <2> QED BY <2>2, <2>3, <2>4, <2>5
  <1>7. CASE \E t \in {"part", "rest", "huge", "more"} : WriteOut(t)
    BY <1>7 DEF WriteOut, world
  <1>8. CASE WriteErr
    BY <1>8 DEF WriteErr, world
  <1>9. CASE Recycle
    BY <1>9 DEF Recycle, InGroup, world
  <1> QED
    BY <1>1, <1>2, <1>3, <1>4, <1>5, <1>6, <1>7, <1>8, <1>9

\* What the drain threads do: they touch neither the group nor the verdict,
\* and a frame counts only when the probe meets the end of the file.
LEMMA DrainsKeepIInv ==
  ASSUME IInv, ReadOut \/ OutFails \/ ReadErr \/ ErrFails
  PROVE  IInv'
  <1> USE DriveAssumption
      DEF IInv, TypeOK, GroupInv, FrameInv, VerdictInv, HeavyInv, Held, LeaderLives, DescLives,
          Started, world, parent
  <1>1. CASE ReadOut
    <2>1. outDrain' \in {"header", "body", "probe", "sink", "sent"}
      BY <1>1 DEF ReadOut
    <2>2. outEnd' \in {"none", "frame", "empty", "truncated", "oversized", "trailing", "error"}
      <3>1. CASE out # <<>>
        BY <1>1, <3>1 DEF ReadOut
      <3>2. CASE out = <<>>
        BY <1>1, <3>2 DEF ReadOut, Eof
      <3> QED BY <3>1, <3>2
    <2>3. killNow' \in BOOLEAN /\ out' \in {<<>>, out}
      BY <1>1 DEF ReadOut, Eof
    <2>4. TypeOK'
      BY <1>1, <2>1, <2>2, <2>3 DEF ReadOut
    <2>5. GroupInv' /\ VerdictInv' /\ HeavyInv'
      BY <1>1 DEF ReadOut
    <2>6. FrameInv'
      <3>1. CASE out # <<>>
        BY <1>1, <3>1 DEF ReadOut, Eof
      <3>2. CASE out = <<>>
        BY <1>1, <3>2 DEF ReadOut, Eof
      <3> QED BY <3>1, <3>2
    <2> QED BY <2>4, <2>5, <2>6
  <1>2. CASE OutFails
    BY <1>2 DEF OutFails
  <1>3. CASE ReadErr
    <2>1. errTotal' \in 0..MaxStderr + 1
      BY <1>3 DEF ReadErr
    <2>2. killNow' \in BOOLEAN
      BY <1>3 DEF ReadErr
    <2>3. err' \in 0..1 /\ errDrain' \in {"read", "sent"}
      BY <1>3 DEF ReadErr
    <2>4. TypeOK'
      BY <1>3, <2>1, <2>2, <2>3 DEF ReadErr
    <2>5. GroupInv' /\ FrameInv' /\ VerdictInv' /\ HeavyInv'
      BY <1>3 DEF ReadErr
    <2> QED BY <2>4, <2>5
  <1>4. CASE ErrFails
    BY <1>4 DEF ErrFails
  <1> QED BY <1>1, <1>2, <1>3, <1>4

\* The leader is reaped with its group as it is: a group over the ceiling is
\* noted, and it belongs to a run that has one.
LEMMA TryWaitKeepsHeavyInv ==
  ASSUME IInv, TryWait
  PROVE  HeavyInv'
  <1> USE DEF IInv, TypeOK, GroupInv, HeavyInv, After, Killed, HeavyGroup, TryWait, Parent, pipes, drains
  <1>1. heavy = "no" /\ UNCHANGED <<guarded, grown, desc, unread, sum, memory, timedOut>>
    OBVIOUS
  <1>2. CASE leader = "zombie"
    <2>1. pc' = "lastListing" /\ heavy' \in {"no", "atReap"}
      BY <1>1, <1>2
    <2>2. heavy' # "no" => grown = "desc"
      BY <1>1, <1>2
    <2> QED BY <1>1, <2>1, <2>2
  <1>3. CASE leader # "zombie"
    BY <1>1, <1>3
  <1> QED BY <1>2, <1>3

\* A member over the ceiling that is read is counted, and one that cannot
\* be read fails the measurement.
LEMMA ReadMemberKeepsHeavyInv ==
  ASSUME IInv, NEW p \in Proc, ReadMember(p)
  PROVE  sum' \in Nat /\ unread' \subseteq Proc /\ HeavyInv'
  <1> USE DriveAssumption
      DEF IInv, TypeOK, GroupInv, HeavyInv, After, Killed, Proc, ReadMember, Parent, Rss, InGroup,
          world, pipes, drains
  <1>1. sum' \in Nat
    OBVIOUS
  <1>2. unread' \subseteq Proc
    OBVIOUS
  <1>3. HeavyInv'
    OBVIOUS
  <1> QED BY <1>1, <1>2, <1>3

\* What the parent does, from the request to the verdict.
LEMMA ParentKeepsIInv ==
  ASSUME IInv, ParentStep \/ SendSlowly
  PROVE  IInv'
  <1> USE DriveAssumption
      DEF IInv, TypeOK, Loop, After, Proc, Refusals, GroupInv, FrameInv, VerdictInv, HeavyInv, Killed,
          Parent, Verdicts, Held, LeaderLives, DescLives, world, pipes, drains
  <1>1. CASE SendRequest \/ SendSlowly
    <2>1. /\ pc \in {"request", "bigRequest"} /\ pc' = "tryWait"
          /\ UNCHANGED <<guarded, pipes, drains, recycled, world, Verdicts>>
      BY <1>1 DEF SendRequest, SendSlowly
    <2> QED BY <2>1
  <1>2. CASE TryWait
    <2>1. TypeOK' /\ GroupInv' /\ VerdictInv'
      BY <1>2 DEF TryWait
    <2>2. FrameInv'
      BY <1>2 DEF TryWait
    <2> QED BY <1>2, <2>1, <2>2, TryWaitKeepsHeavyInv
  <1>3. CASE Deadline
    BY <1>3 DEF Deadline
  <1>4. CASE Checks
    <2>1. pc' \in {"kill", "tryWait", "measure"} /\ unread' \subseteq Proc
      BY <1>4, GroupMembers DEF Checks
    <2>2. TypeOK'
      BY <1>4, <2>1 DEF Checks
    <2>3. GroupInv' /\ FrameInv' /\ VerdictInv' /\ HeavyInv'
      BY <1>4, <2>1 DEF Checks
    <2> QED BY <2>2, <2>3
  <1>5. CASE \E p \in Proc : ReadMember(p)
    <2>1. PICK p \in Proc : ReadMember(p)
      BY <1>5
    <2>2. sum' \in Nat /\ unread' \subseteq Proc /\ HeavyInv'
      BY <2>1, ReadMemberKeepsHeavyInv
    <2>3. TypeOK'
      BY <2>1, <2>2 DEF ReadMember
    <2>4. GroupInv' /\ FrameInv' /\ VerdictInv'
      BY <2>1 DEF ReadMember
    <2> QED BY <2>2, <2>3, <2>4
  <1>6. CASE Measured
    BY <1>6 DEF Measured, MemoryVerdict
  <1>7. CASE KillGroup
    BY <1>7 DEF KillGroup, Killpg
  <1>8. CASE WaitAfterKill
    BY <1>8 DEF WaitAfterKill
  <1>9. CASE LastListing
    <2>1. pc' \in {"lastMeasure", "finalKill"} /\ unread' \subseteq Proc
      BY <1>9, GroupMembers DEF LastListing
    <2>2. sum' \in Nat
      BY <1>9 DEF LastListing
    <2>3. TypeOK'
      BY <1>9, <2>1, <2>2 DEF LastListing
    <2>4. GroupInv' /\ FrameInv' /\ VerdictInv'
      BY <1>9, <2>1 DEF LastListing
    <2>5. HeavyInv'
      BY <1>9, <2>1 DEF LastListing, InGroup
    <2> QED BY <2>3, <2>4, <2>5
  <1>10. CASE LastMeasured
    BY <1>10 DEF LastMeasured, MemoryVerdict
  <1>11. CASE FinalKill
    BY <1>11 DEF FinalKill, Killpg
  <1>12. CASE Join
    BY <1>12 DEF Join
  <1>13. CASE Verdict
    BY <1>13 DEF Verdict, Outcome
  <1> QED
    BY <1>1, <1>2, <1>3, <1>4, <1>5, <1>6, <1>7, <1>8, <1>9, <1>10, <1>11, <1>12, <1>13
    DEF ParentStep

\* A step that changes nothing keeps the invariant.
LEMMA StutterKeepsIInv ==
  ASSUME IInv, UNCHANGED vars
  PROVE  IInv'
  BY DEF IInv, TypeOK, GroupInv, FrameInv, VerdictInv, HeavyInv, Held, LeaderLives, DescLives,
         vars, world, pipes, drains, parent

\* Every step keeps the invariant.
LEMMA NextIInv == IInv /\ [Next]_vars => IInv'
  BY WorldKeepsIInv, DrainsKeepIInv, ParentKeepsIInv, StutterKeepsIInv DEF Next

\* The lives of the group, of the frame and of the measured memory go as the
\* invariant says in every reachable state.
THEOREM InvariantHolds == Spec => []IInv
  BY InitIInv, NextIInv, PTL DEF Spec

\* Every variable of the call keeps its type.
THEOREM TypeCorrect == Spec => []TypeOK
  BY InvariantHolds, PTL DEF IInv

\* Whatever the flag, the clock, the exit and the drains raced, a success is
\* one whole frame of a worker that exited cleanly, with nobody left to write.
THEOREM SuccessIsWhole == Spec => []AcceptedIsWhole
  <1>1. IInv => AcceptedIsWhole
    BY DEF IInv, FrameInv, VerdictInv, AcceptedIsWhole
  <1> QED BY <1>1, InvariantHolds, PTL

\* A call that has returned leaves no member of its group running.
THEOREM NobodyStays == Spec => []GroupIsGone
  <1>1. IInv => GroupIsGone
    BY DEF IInv, GroupInv, Killed, After, GroupIsGone
  <1> QED BY <1>1, InvariantHolds, PTL

\* A group over the ceiling that outlived its leader never passes, whatever
\* the interval between two measurements.
THEOREM CeilingHolds == Spec => []BalloonNeverPasses
  <1>1. IInv => BalloonNeverPasses
    BY DEF IInv, VerdictInv, HeavyInv, BalloonNeverPasses
  <1> QED BY <1>1, InvariantHolds, PTL

\* No kill of the polling loop reaches a stranger.
THEOREM LoopKillsAreOwn == Spec => []LoopKillsOwnGroup
  <1>1. IInv => LoopKillsOwnGroup
    BY DEF IInv, GroupInv, LoopKillsOwnGroup
  <1> QED BY <1>1, InvariantHolds, PTL
=============================================================================
