------------------------------- MODULE Drive -------------------------------
(***************************************************************************)
(* One call of the sandboxed runner (Runner::run_unprobed and drive of     *)
(* src/src/runner/mod.rs): the parent's polling loop, its two drain        *)
(* threads, the clock, the worker that leads a process group of its own,   *)
(* and a descendant of it which may keep the pipes, leave the group, or    *)
(* outlive its leader.  The worker is not trusted: it writes, grows, forks,*)
(* hangs and exits as it likes.                                            *)
(*                                                                         *)
(* stdout carries the tokens part (the first bytes of the response frame), *)
(* rest (its last ones), huge (a header that declares more than the        *)
(* ceiling) and more (bytes after the frame); a pipe holds one token.      *)
(* stderr is counted in units.                                             *)
(***************************************************************************)
EXTENDS Naturals, Sequences

CONSTANTS MaxStderr,   \* Limits::max_stderr_bytes, in units
          MaxResident, \* Limits::max_resident_bytes, in units
          MayEscape    \* a descendant can leave the group (it cannot on Linux)

ASSUME DriveAssumption == /\ MaxStderr \in Nat
                          /\ MaxResident \in Nat
                          /\ MayEscape \in BOOLEAN

VARIABLES
  guarded,   \* the profile has a resident-memory ceiling
  leader,    \* helper, adapter, dying, zombie or reaped
  code,      \* its exit status
  desc,      \* the descendant: none, group, escaped, dying or gone
  holding,   \* the descendant still has the pipes' write ends
  grown,     \* the process that holds more than the ceiling, if any
  out,       \* the token in the stdout pipe
  written,   \* what the writers have put there so far
  err,       \* the unit in the stderr pipe
  outDrain,  \* the stdout thread: header, body, probe, sink or sent
  outEnd,    \* what it observed
  errDrain,  \* the stderr thread: read or sent
  errTotal,  \* the stderr units it has counted
  killNow,   \* the flag the threads raise
  pc,        \* where the parent is
  timedOut,  \* it gave up on the deadline
  unread,    \* group members the measurement has listed and not read yet
  sum,       \* resident units read so far
  memory,    \* the memory verdict
  recycled,  \* the group id now names a group of somebody else
  stray,     \* the kill that reached that group
  heavy,     \* whether a group over the ceiling outlived its leader
  result     \* what the call returns

world == <<leader, code, desc, holding, grown>>
pipes == <<out, written, err>>
drains == <<outDrain, outEnd, errDrain, errTotal, killNow>>
parent == <<pc, timedOut, unread, sum, memory, stray, heavy, result>>
vars == <<guarded, world, pipes, drains, parent, recycled>>

Proc == {"leader", "desc"}
Loop == {"tryWait", "checks", "measure", "kill", "reap"}
After == {"lastListing", "lastMeasure", "finalKill", "joinOut", "joinErr", "verdict", "done"}
Refusals == {"adapter_drain_timeout", "worker-memory-exceeded", "memory-monitor-failed",
             "adapter_timeout", "adapter_frame_oversized", "adapter_output_overflow",
             "sandbox_unavailable", "process-count-unavailable", "adapter_crash",
             "adapter_protocol_error"}

TypeOK ==
  /\ guarded \in BOOLEAN
  /\ leader \in {"helper", "adapter", "dying", "zombie", "reaped"}
  /\ code \in {"none", "zero", "setup", "count", "other", "signal"}
  /\ desc \in {"none", "group", "escaped", "dying", "gone"} /\ holding \in BOOLEAN
  /\ grown \in Proc \cup {"none"}
  /\ out \in {<<>>} \cup {<<t>> : t \in {"part", "rest", "huge", "more"}}
  /\ written \in {"none", "part", "whole", "spoilt"} /\ err \in 0..1
  /\ outDrain \in {"header", "body", "probe", "sink", "sent"}
  /\ outEnd \in {"none", "frame", "empty", "truncated", "oversized", "trailing", "error"}
  /\ errDrain \in {"read", "sent"} /\ errTotal \in 0..MaxStderr + 1
  /\ killNow \in BOOLEAN
  /\ pc \in {"request", "bigRequest"} \cup Loop \cup After
  /\ timedOut \in BOOLEAN /\ unread \subseteq Proc /\ sum \in Nat
  /\ memory \in {"none", "worker-memory-exceeded", "memory-monitor-failed"}
  /\ recycled \in BOOLEAN /\ stray \in {"none", "loop", "final"}
  /\ heavy \in {"no", "atReap", "killed"}
  /\ result \in {"none", "ok"} \cup Refusals

Init ==
  /\ guarded \in BOOLEAN
  /\ leader = "helper" /\ code = "none"
  /\ desc = "none" /\ holding = FALSE
  /\ grown = "none"
  /\ out = <<>> /\ written = "none" /\ err = 0
  /\ outDrain = "header" /\ outEnd = "none" /\ errDrain = "read" /\ errTotal = 0
  /\ killNow = FALSE
  /\ pc \in {"request", "bigRequest"} /\ timedOut = FALSE /\ unread = {} /\ sum = 0 /\ memory = "none"
  /\ recycled = FALSE /\ stray = "none" /\ heavy = "no" /\ result = "none"

-----------------------------------------------------------------------------
(* The worker, its descendant and the kernel *)

LeaderLives == leader \in {"helper", "adapter", "dying"}
DescLives == desc \in {"group", "escaped", "dying"}
InGroup == (IF LeaderLives \/ leader = "zombie" THEN {"leader"} ELSE {})
             \cup (IF desc \in {"group", "dying"} THEN {"desc"} ELSE {})

\* Somebody has the write ends of stdout and stderr.
Held == LeaderLives \/ (DescLives /\ holding)
MayWrite == leader = "adapter" \/ (desc \in {"group", "escaped"} /\ holding)

\* The helper engages the jail and execs the adapter mode, or refuses with
\* the exit code that names why.
HelperRuns == /\ leader = "helper"
              /\ \/ leader' = "adapter" /\ UNCHANGED code
                 \/ leader' = "zombie" /\ code' \in {"setup", "count"}
              /\ UNCHANGED <<guarded, desc, holding, grown, pipes, drains, parent, recycled>>

AdapterExits == /\ leader = "adapter"
                /\ leader' = "zombie" /\ code' \in {"zero", "other"}
                /\ UNCHANGED <<guarded, desc, holding, grown, pipes, drains, parent, recycled>>

Fork == /\ leader = "adapter" /\ desc = "none"
        /\ desc' = "group" /\ holding' \in BOOLEAN
        /\ UNCHANGED <<guarded, leader, code, grown, pipes, drains, parent, recycled>>

\* One process holds a unit, and one that grew holds more than the ceiling.
Rss(p) == IF grown = p THEN MaxResident + 1 ELSE 1

Grow(p) == /\ \/ p = "leader" /\ leader = "adapter"
              \/ p = "desc" /\ desc \in {"group", "escaped"}
           /\ guarded /\ grown = "none"
           /\ grown' = p
           /\ UNCHANGED <<guarded, leader, code, desc, holding, pipes, drains, parent, recycled>>

\* The descendant leaves the group, lets the pipes go, or ends.
DescMoves == /\ \/ MayEscape /\ desc = "group" /\ desc' = "escaped" /\ UNCHANGED holding
                \/ desc \in {"group", "escaped"} /\ holding /\ holding' = FALSE /\ UNCHANGED desc
                \/ desc \in {"group", "escaped"} /\ desc' = "gone" /\ holding' = FALSE
             /\ UNCHANGED <<guarded, leader, code, grown, pipes, drains, parent, recycled>>

\* A killed process ends some time after the signal.
Die == /\ \/ leader = "dying" /\ leader' = "zombie" /\ UNCHANGED <<desc, holding>>
          \/ desc = "dying" /\ desc' = "gone" /\ holding' = FALSE /\ UNCHANGED leader
       /\ UNCHANGED <<guarded, code, grown, pipes, drains, parent, recycled>>

WriteOut(t) ==
  /\ MayWrite /\ outDrain # "sent" /\ out = <<>>
  /\ \/ t \in {"part", "huge"} /\ written = "none"
     \/ t = "rest" /\ written = "part"
     \/ t = "more" /\ written \in {"whole", "spoilt"}
  /\ out' = <<t>>
  /\ written' = CASE t = "part" -> "part" [] t = "rest" -> "whole" [] OTHER -> "spoilt"
  /\ UNCHANGED <<guarded, world, err, drains, parent, recycled>>

WriteErr == /\ MayWrite /\ errDrain # "sent" /\ err = 0
            /\ err' = 1
            /\ UNCHANGED <<guarded, world, out, written, drains, parent, recycled>>

\* Once the leader is reaped and nobody is left, the id is free again.
Recycle == /\ leader = "reaped" /\ InGroup = {} /\ ~recycled
           /\ recycled' = TRUE
           /\ UNCHANGED <<guarded, world, pipes, drains, parent>>

-----------------------------------------------------------------------------
(* The drain threads: read_frame, the probe byte and the sink *)

Started == pc \notin {"request", "bigRequest"}
Eof == out = <<>> /\ ~Held

\* Faulty variant: the byte after the frame is not looked for.
ReadOutNoProbe ==
  /\ Started /\ outDrain # "sent"
  /\ \/ /\ out # <<>>
        /\ out' = <<>>
        /\ \/ /\ outDrain = "header" /\ out[1] = "part"
              /\ outDrain' = "body" /\ UNCHANGED <<outEnd, killNow>>
           \/ /\ outDrain = "body" /\ outDrain' = "sent" /\ outEnd' = "frame" /\ UNCHANGED killNow
           \/ /\ outDrain = "header" /\ out[1] = "huge"
              /\ outDrain' = "sink" /\ outEnd' = "oversized" /\ killNow' = TRUE
           \/ /\ outDrain = "sink" /\ UNCHANGED <<outDrain, outEnd, killNow>>
     \/ /\ Eof
        /\ outDrain' = "sent"
        /\ outEnd' = CASE outDrain = "header" -> "empty" [] outDrain = "body" -> "truncated"
                       [] OTHER -> outEnd
        /\ UNCHANGED <<out, killNow>>
  /\ UNCHANGED <<guarded, world, written, err, errDrain, errTotal, parent, recycled>>

\* Bytes after the frame and an oversized header raise the flag and are
\* read away until the end of the file.
ReadOut ==
  /\ Started /\ outDrain # "sent"
  /\ \/ /\ out # <<>>
        /\ out' = <<>>
        /\ \/ /\ outDrain = "header" /\ out[1] = "part"
              /\ outDrain' = "body" /\ UNCHANGED <<outEnd, killNow>>
           \/ /\ outDrain = "body" /\ outDrain' = "probe" /\ UNCHANGED <<outEnd, killNow>>
           \/ /\ \/ outDrain = "header" /\ out[1] = "huge" /\ outEnd' = "oversized"
                 \/ outDrain = "probe" /\ outEnd' = "trailing"
              /\ outDrain' = "sink" /\ killNow' = TRUE
           \/ /\ outDrain = "sink" /\ UNCHANGED <<outDrain, outEnd, killNow>>
     \/ /\ Eof
        /\ outDrain' = "sent"
        /\ outEnd' = CASE outDrain = "header" -> "empty" [] outDrain = "body" -> "truncated"
                       [] outDrain = "probe" -> "frame" [] OTHER -> outEnd
        /\ UNCHANGED <<out, killNow>>
  /\ UNCHANGED <<guarded, world, written, err, errDrain, errTotal, parent, recycled>>

OutFails == /\ Started /\ outDrain \in {"header", "body", "probe"}
            /\ outDrain' = "sent" /\ outEnd' = "error" /\ killNow' = TRUE
            /\ out' = <<>>
            /\ UNCHANGED <<guarded, world, written, err, errDrain, errTotal, parent, recycled>>

\* Faulty variant: the stderr thread stops reading at the cap.
ReadErrStopping ==
  /\ Started /\ errDrain = "read" /\ errTotal =< MaxStderr
  /\ \/ /\ err = 1 /\ err' = 0 /\ errTotal' = errTotal + 1
        /\ UNCHANGED <<errDrain, killNow>>
     \/ /\ err = 0 /\ ~Held /\ errDrain' = "sent" /\ UNCHANGED <<err, errTotal, killNow>>
  /\ UNCHANGED <<guarded, world, out, written, outDrain, outEnd, parent, recycled>>

ReadErr ==
  /\ Started /\ errDrain = "read"
  /\ \/ /\ err = 1 /\ err' = 0
        /\ errTotal' = IF errTotal > MaxStderr THEN errTotal ELSE errTotal + 1
        /\ killNow' = (killNow \/ errTotal' > MaxStderr)
        /\ UNCHANGED errDrain
     \/ /\ err = 0 /\ ~Held /\ errDrain' = "sent" /\ UNCHANGED <<err, errTotal, killNow>>
  /\ UNCHANGED <<guarded, world, out, written, outDrain, outEnd, parent, recycled>>

ErrFails == /\ Started /\ errDrain = "read" /\ errDrain' = "sent" /\ err' = 0
            /\ UNCHANGED <<guarded, world, out, written, outDrain, outEnd, errTotal, killNow,
                           parent, recycled>>

-----------------------------------------------------------------------------
(* The parent *)

Parent(next) == pc' = next /\ UNCHANGED <<guarded, pipes, drains, recycled>>
Verdicts == <<timedOut, unread, sum, memory, stray, heavy, result>>

\* write_frame to the worker's stdin comes before drive: a request the pipe
\* does not hold waits for a reader, and fails when there is none.
SendRequest == /\ \/ pc = "request"
                  \/ pc = "bigRequest" /\ ~LeaderLives
               /\ Parent("tryWait") /\ UNCHANGED <<world, Verdicts>>
SendSlowly == /\ pc = "bigRequest" /\ leader = "adapter"
              /\ Parent("tryWait") /\ UNCHANGED <<world, Verdicts>>

HeavyGroup == desc = "group" /\ grown = "desc"

TryWait == /\ pc = "tryWait"
           /\ IF leader = "zombie"
              THEN /\ leader' = "reaped" /\ Parent("lastListing")
                   /\ heavy' = IF HeavyGroup THEN "atReap" ELSE heavy
              ELSE /\ Parent("checks") /\ UNCHANGED <<leader, heavy>>
           /\ UNCHANGED <<code, desc, holding, grown, timedOut, unread, sum, memory, stray, result>>

\* The checks of one round.  The clock may have passed the deadline in any
\* round, and the measurement, which lists the group first, may be due.
Deadline == /\ pc = "checks"
            /\ Parent("kill") /\ timedOut' = TRUE
            /\ UNCHANGED <<world, unread, sum, memory, stray, heavy, result>>

Checks == /\ pc = "checks"
          /\ \/ killNow /\ Parent("kill") /\ UNCHANGED unread
             \/ ~killNow /\ Parent("tryWait") /\ UNCHANGED unread
             \/ ~killNow /\ guarded /\ Parent("measure") /\ unread' = InGroup
          /\ UNCHANGED <<world, timedOut, sum, memory, stray, heavy, result>>

\* Faulty variant: a member that cannot be read is taken for one that ended.
ReadMemberTrusting(p) ==
  /\ pc \in {"measure", "lastMeasure"} /\ p \in unread
  /\ unread' = unread \ {p}
  /\ \E readable \in BOOLEAN :
       sum' = IF readable /\ p \in InGroup /\ ~(p = "leader" /\ leader = "zombie")
              THEN sum + Rss(p) ELSE sum
  /\ Parent(pc)
  /\ UNCHANGED <<world, timedOut, memory, stray, heavy, result>>

\* One listed process: gone, or in another group by now, it counts for
\* nothing, and a zombie has no resident pages.  Any other read error fails
\* the measurement, as does a re-check that cannot say that it is gone.
ReadMember(p) ==
  /\ pc \in {"measure", "lastMeasure"} /\ p \in unread
  /\ \/ /\ unread' = unread \ {p}
        /\ sum' = IF p \in InGroup /\ ~(p = "leader" /\ leader = "zombie")
                  THEN sum + Rss(p) ELSE sum
        /\ UNCHANGED memory
     \/ /\ unread' = {} /\ memory' = "memory-monitor-failed" /\ UNCHANGED sum
  /\ Parent(pc)
  /\ UNCHANGED <<world, timedOut, stray, heavy, result>>

MemoryVerdict == IF memory # "none" THEN memory
                 ELSE IF sum > MaxResident THEN "worker-memory-exceeded" ELSE "none"

Measured == /\ pc = "measure" /\ unread = {}
            /\ memory' = MemoryVerdict /\ sum' = 0
            /\ Parent(IF memory' = "none" THEN "tryWait" ELSE "kill")
            /\ UNCHANGED <<world, timedOut, unread, stray, heavy, result>>

\* killpg: whoever bears the group id by now.
Killpg == IF recycled
          THEN UNCHANGED <<leader, code, desc>>
          ELSE /\ IF leader \in {"helper", "adapter"}
                  THEN leader' = "dying" /\ code' = "signal"
                  ELSE UNCHANGED <<leader, code>>
               /\ desc' = IF desc = "group" THEN "dying" ELSE desc

\* Faulty variant: the leader is waited for before its group is killed, and
\* an id with nobody left in it may be somebody else's by then.
KillGroupAfterWait ==
  /\ pc = "kill" /\ leader = "zombie"
  /\ leader' = "reaped"
  /\ desc' = IF desc = "group" THEN "dying" ELSE desc
  /\ stray' = IF desc = "group" THEN stray ELSE "loop"
  /\ Parent("lastListing")
  /\ UNCHANGED <<code, holding, grown, timedOut, unread, sum, memory, heavy, result>>

KillGroup == /\ pc = "kill"
             /\ Killpg
             /\ stray' = IF recycled THEN "loop" ELSE stray
             /\ Parent("reap")
             /\ UNCHANGED <<holding, grown, timedOut, unread, sum, memory, heavy, result>>

WaitAfterKill == /\ pc = "reap" /\ leader = "zombie"
                 /\ leader' = "reaped"
                 /\ Parent("lastListing")
                 /\ UNCHANGED <<code, desc, holding, grown, Verdicts>>

\* Faulty variant: a group whose leader has ended is not measured again.
LastListingNever == /\ pc = "lastListing"
                    /\ Parent("finalKill")
                    /\ UNCHANGED <<world, Verdicts>>

\* The group is measured once more unless a verdict stands already.  An id
\* that was recycled lists strangers.
LastListing ==
  /\ pc = "lastListing"
  /\ IF guarded /\ memory = "none" /\ ~timedOut
     THEN /\ Parent("lastMeasure")
          /\ IF recycled THEN sum' \in {0, MaxResident + 1} /\ UNCHANGED unread
                         ELSE unread' = InGroup /\ UNCHANGED sum
     ELSE Parent("finalKill") /\ UNCHANGED <<unread, sum>>
  /\ UNCHANGED <<world, timedOut, memory, stray, heavy, result>>

LastMeasured == /\ pc = "lastMeasure" /\ unread = {}
                /\ memory' = MemoryVerdict
                /\ Parent("finalKill")
                /\ UNCHANGED <<world, timedOut, unread, sum, stray, heavy, result>>

\* Faulty variant: the group is killed only when the loop gave up.
FinalKillOnFailure == /\ pc = "finalKill"
                      /\ IF code = "zero" THEN UNCHANGED <<leader, code, desc>> ELSE Killpg
                      /\ Parent("joinOut")
                      /\ UNCHANGED <<holding, grown, Verdicts>>

FinalKill == /\ pc = "finalKill"
             /\ Killpg
             /\ stray' = IF recycled THEN "final" ELSE stray
             /\ heavy' = IF heavy = "atReap" /\ desc = "group" THEN "killed" ELSE heavy
             /\ Parent("joinOut")
             /\ UNCHANGED <<holding, grown, timedOut, unread, sum, memory, result>>

\* Faulty variant: the drains are joined without a bound.
JoinForEver == /\ \/ pc = "joinOut" /\ outDrain = "sent" /\ Parent("joinErr")
                  \/ pc = "joinErr" /\ errDrain = "sent" /\ Parent("verdict")
               /\ UNCHANGED <<world, Verdicts>>

\* Both drains share one bound; one that is not through by then is detached.
Join == /\ \/ pc = "joinOut" /\ outDrain = "sent" /\ Parent("joinErr") /\ UNCHANGED result
           \/ pc = "joinErr" /\ errDrain = "sent" /\ Parent("verdict") /\ UNCHANGED result
           \/ /\ \/ pc = "joinOut" /\ outDrain # "sent"
                 \/ pc = "joinErr" /\ errDrain # "sent"
              /\ result' = "adapter_drain_timeout" /\ Parent("done")
        /\ UNCHANGED <<world, timedOut, unread, sum, memory, stray, heavy>>

\* Faulty variant: a whole frame is taken whatever the worker's exit was.
OutcomeOfFrame(valid) ==
  CASE memory # "none"              -> memory
    [] timedOut                     -> "adapter_timeout"
    [] outEnd = "oversized"         -> "adapter_frame_oversized"
    [] errTotal > MaxStderr         -> "adapter_output_overflow"
    [] outEnd = "trailing"          -> "adapter_output_overflow"
    [] outEnd = "frame" /\ valid -> "ok"
    [] OTHER                        -> "adapter_crash"

\* Faulty variant: the worker's exit is passed on as the reason code.
OutcomeUnnamed(valid) == IF code \in {"zero", "setup", "count"} THEN "ok" ELSE code

\* What went wrong first in this order names the call.  valid says whether
\* the frame parses as one response with exactly one of its two bodies.
Outcome(valid) ==
  CASE memory # "none"              -> memory
    [] timedOut                     -> "adapter_timeout"
    [] outEnd = "oversized"         -> "adapter_frame_oversized"
    [] errTotal > MaxStderr         -> "adapter_output_overflow"
    [] outEnd = "trailing"          -> "adapter_output_overflow"
    [] code = "setup"               -> "sandbox_unavailable"
    [] code = "count"               -> "process-count-unavailable"
    [] code # "zero"                -> "adapter_crash"
    [] outEnd # "frame"             -> "adapter_protocol_error"
    [] ~valid                       -> "adapter_protocol_error"
    [] OTHER                        -> "ok"

Verdict == /\ pc = "verdict"
           /\ \E valid \in BOOLEAN : result' = Outcome(valid)
           /\ Parent("done")
           /\ UNCHANGED <<world, timedOut, unread, sum, memory, stray, heavy>>

ParentStep == \/ SendRequest \/ TryWait \/ Deadline \/ Checks
              \/ \E p \in Proc : ReadMember(p)
              \/ Measured \/ KillGroup \/ WaitAfterKill
              \/ LastListing \/ LastMeasured \/ FinalKill \/ Join \/ Verdict

Next == \/ ParentStep \/ SendSlowly
        \/ HelperRuns \/ AdapterExits \/ Fork \/ (\E p \in Proc : Grow(p)) \/ DescMoves \/ Die
        \/ (\E t \in {"part", "rest", "huge", "more"} : WriteOut(t)) \/ WriteErr
        \/ Recycle
        \/ ReadOut \/ OutFails \/ ReadErr \/ ErrFails

\* The parent and its threads are scheduled, a signalled process dies, and
\* the clock passes the deadline however many rounds the loop takes.  The
\* worker and its descendant owe nothing.
Fairness == /\ WF_vars(ParentStep) /\ SF_vars(Deadline)
            /\ WF_vars(ReadOut) /\ WF_vars(ReadErr) /\ WF_vars(Die)

Spec == Init /\ [][Next]_vars /\ Fairness

-----------------------------------------------------------------------------
(* Properties *)

\* A response is accepted only from a worker that exited cleanly after one
\* whole frame and nothing else, with nobody left to write more, within the
\* caps: whatever the flag, the clock, the exit and the drains raced, no
\* violation and no kill is reported as success (drive).
AcceptedIsWhole ==
  result = "ok" => /\ written = "whole"
                   /\ code = "zero" /\ ~Held
                   /\ errTotal =< MaxStderr /\ memory = "none"

\* When the call returns the leader is reaped and every member of its group
\* has been killed, a descendant that let the pipes go included; only one
\* that left the group can be running (the group-lifetime contract of drive).
GroupIsGone == pc = "done" => leader = "reaped" /\ desc # "group"

\* A member that held more than the ceiling when its leader was reaped, and
\* that the final kill found alive, is never part of a success: a clean exit
\* inside the first polling interval does not bypass the guard.
BalloonNeverPasses == result = "ok" => heavy # "killed"

\* The kills of the polling loop come before the leader is reaped, so the
\* group id is theirs; only the final kill can meet a recycled one.
LoopKillsOwnGroup == stray # "loop"

\* Whatever the worker does, a call whose request was taken returns: the
\* deadline ends the wait and the join bound ends the drains (drive).
CallReturns == (pc # "bigRequest") ~> (pc = "done")

\* After the call no drain thread stays behind, unless somebody outside the
\* group still holds the pipes: a violation does not stop the reading.
DrainsEnd == (pc = "done") ~> ((outDrain = "sent" /\ errDrain = "sent")
                                 \/ (desc = "escaped" /\ holding))
=============================================================================
