------------------------------- MODULE Calls -------------------------------
(***************************************************************************)
(* The sandboxed calls of one process: converters on several threads that  *)
(* share one probe cache, each call of Runner::run from the policy digest  *)
(* through the capability probe to the adapter mode, the helper that       *)
(* engages the jail, and the worker modes that execute pinned external     *)
(* engines (src/src/runner, src/src/convert/subprocess.rs).  A deployment  *)
(* may replace the worker binary or an engine's file between any two       *)
(* steps.  What happens inside one spawn, between the request and the      *)
(* verdict, is the module Drive; here a spawn ends with what the mode      *)
(* reports, or with a refusal of the parent.                               *)
(***************************************************************************)
EXTENDS Naturals, Sequences, FiniteSets

CONSTANTS Caller,    \* threads that convert
          MaxCalls,  \* bound on the conversions begun
          MaxSwaps   \* bound on the files the deployment replaces

ASSUME CallsAssumption == MaxCalls \in Nat /\ MaxSwaps \in Nat

VARIABLES
  platform,   \* linux or macos
  worker,     \* the build at the worker's path, or absent
  engine,     \* what is at each engine's path
  located,    \* the runner each mode keeps: unset, ready or failed
  cache,      \* the policy digests whose probe passed
  call,       \* what each caller is doing
  begun, swaps,
  passed,     \* history: <<class, build>> pairs every stage of a probe ran on
  doubtful    \* history: digests whose pass does not speak for their worker

vars == <<platform, worker, engine, located, cache, call, begun, swaps, passed, doubtful>>
fixed == <<platform, located, begun>>
deployed == <<worker, engine, swaps>>
history == <<passed, doubtful>>

\* What a build's helper engages: "noNet" and "noFilter" are builds whose
\* helper misses a layer.
Build == {"good", "noNet", "noFilter"}
Job == {"pdf", "audio", "svg"}
Mode == {"pdf", "asr", "svg-raster", "image-ocr"}
Role == {"cli", "weights", "probe", "raster", "encoder"}

Class(mode) == CASE mode = "asr" -> "accelerator"
                 [] mode = "svg-raster" -> "provider"
                 [] OTHER -> "plain"
ExecGrants(mode) == CASE mode = "asr" -> {"cli", "probe"}
                      [] mode = "svg-raster" -> {"raster", "encoder"}
                      [] OTHER -> {}
ReadGrants(mode) == IF mode = "asr" THEN {"weights"} ELSE {}
Grants(mode) == ExecGrants(mode) \cup ReadGrants(mode)

\* Faulty variant: the digest forgets the worker binary's hash.
DigestWithoutWorker(mode, build) ==
  [exec |-> ExecGrants(mode), read |-> ReadGrants(mode), class |-> Class(mode)]

\* Faulty variant: the digest forgets the runtime profile and the grants.
DigestWithoutClass(mode, build) == [worker |-> build]

\* A provider's closure is granted with its role.
Digest(mode, build) ==
  [worker |-> build, exec |-> ExecGrants(mode), read |-> ReadGrants(mode), class |-> Class(mode)]

\* Faulty variant: the network stage alone is the probe.
NetStageOnly == <<"net">>

Stages == IF platform = "linux" THEN <<"net", "filter">> ELSE <<"net">>
Required == IF platform = "linux" THEN {"net", "filter"} ELSE {"net"}

\* The layers that confine a mode: on macOS sandbox-exec's, whatever the
\* build; on Linux what the helper of this build engages, and the network
\* stage of the probe asks for no syscall filter.
Layers(build, stage) ==
  IF platform = "macos" THEN {"net"}
  ELSE (IF build = "noNet" THEN {} ELSE {"net"})
         \cup (IF build = "noFilter" \/ stage = "net" THEN {} ELSE {"filter"})

\* Faulty variant: both provider roles are verified before either runs (and
\* the other chains do nothing).
ChainVerifiedUpFront(mode) ==
  IF mode = "svg-raster"
  THEN <<<<"verify", "raster">>, <<"version", "raster">>, <<"verify", "encoder">>,
         <<"version", "encoder">>, <<"run", "raster">>, <<"run", "encoder">>>>
  ELSE <<>>

\* What the jail lets a mode do with files beyond its own directory, its
\* worker and the system's runtime.  Seatbelt adds the accelerator's devices
\* and the provider's closure and services, each only for its class together
\* with an executable to grant.
LandlockRights(mode) == ({"exec", "read"} \X ExecGrants(mode)) \cup ({"read"} \X ReadGrants(mode))
SeatbeltRights(mode) ==
  LandlockRights(mode) \cup
  IF ExecGrants(mode) = {} THEN {}
  ELSE CASE Class(mode) = "accelerator" -> {"directory", "device"} \X ExecGrants(mode)
         [] Class(mode) = "provider" -> {"closure", "service"} \X ExecGrants(mode)
         [] OTHER -> {}
Rights(mode) == IF platform = "linux" THEN LandlockRights(mode) ELSE SeatbeltRights(mode)

\* What a worker mode does to its engines, in order.
Chain(mode) ==
  CASE mode = "asr" -> <<<<"verify", "cli">>, <<"verify", "weights">>, <<"verify", "probe">>,
                         <<"run", "probe">>, <<"run", "cli">>>>
    [] mode = "svg-raster" ->
         <<<<"verify", "raster">>, <<"version", "raster">>, <<"run", "raster">>,
           <<"verify", "encoder">>, <<"version", "encoder">>, <<"run", "encoder">>>>
    [] OTHER -> <<>>

Idle == [mode |-> "pdf", pc |-> "idle", stage |-> "none", digest |-> <<>>,
         build |-> "good", layers |-> {}, todo |-> <<>>, doubt |-> FALSE,
         swapped |-> {}, unexcused |-> {}]

\* The runners built with their converters, and whether the provider's
\* closures and names pass ProviderJail's constructor.  The PDF mode (and
\* with it any mode without engines) locates its worker at its first call.
Constructed(wired) ==
  [m \in Mode |-> CASE m = "pdf" -> "unset"
                   [] worker = "absent" \/ (Class(m) = "provider" /\ ~wired) -> "failed"
                   [] OTHER -> "ready"]

Init ==
  /\ platform \in {"linux", "macos"}
  /\ worker \in Build \cup {"absent"}
  /\ engine = [r \in Role |-> "pinned"]
  /\ \E wired \in BOOLEAN : located = Constructed(wired)
  /\ cache = {} /\ call = [c \in Caller |-> Idle] /\ begun = 0 /\ swaps = 0
  /\ passed = {} /\ doubtful = {}

-----------------------------------------------------------------------------
(* The deployment *)

\* The call has hashed the worker it is about to spawn.
Measured == {"lookup", "grants", "spawn", "helper", "mode", "insert"}
Working(c) == call[c].pc = "mode" /\ call[c].stage = "adapter"

\* The first worker is any; the last matters while a call can still run.
ReplaceWorker ==
  /\ begun > 0 /\ (begun < MaxCalls \/ \E c \in Caller : call[c].pc # "idle")
  /\ swaps < MaxSwaps /\ swaps' = swaps + 1
  /\ worker' \in (Build \cup {"absent"}) \ {worker}
  /\ call' = [c \in Caller |-> IF call[c].pc \in Measured /\ ~Working(c)
                               THEN [call[c] EXCEPT !.doubt = TRUE] ELSE call[c]]
  /\ UNCHANGED <<fixed, engine, cache, history>>

\* "absent" is anything but a regular file.  A file no call under way is
\* granted is left alone: who is to replace it can do so after the call began.
ReplaceEngine(r) ==
  /\ swaps < MaxSwaps /\ swaps' = swaps + 1
  /\ \E c \in Caller : call[c].pc # "idle" /\ r \in Grants(call[c].mode)
  /\ \E x \in {"pinned", "drifted", "absent"} \ {engine[r]} :
       engine' = [engine EXCEPT ![r] = x]
  /\ call' = [c \in Caller |-> IF Working(c) /\ r \in Grants(call[c].mode)
                               THEN [call[c] EXCEPT !.swapped = @ \cup {r}] ELSE call[c]]
  /\ UNCHANGED <<fixed, worker, cache, history>>

-----------------------------------------------------------------------------
(* From the converter to the spawn *)

Regular(r) == engine[r] # "absent"

\* The call is over: the refusal, or the text, is the converter's outcome.
Return(c) == call' = [call EXCEPT ![c] = Idle]
Go(c, pc) == call' = [call EXCEPT ![c].pc = pc]

Begin(c, j) ==
  /\ call[c].pc = "idle" /\ begun < MaxCalls
  /\ begun' = begun + 1
  /\ LET m == CASE j = "pdf" -> "pdf" [] j = "audio" -> "asr" [] j = "svg" -> "svg-raster"
     IN  call' = [call EXCEPT ![c] = [Idle EXCEPT !.mode = m, !.pc = "locate"]]
  /\ UNCHANGED <<platform, located, deployed, cache, history>>

\* The parent names an absent provider component itself; then it takes the
\* converter's runner, which keeps the failure to find a worker as well.
TakeRunner(c) ==
  /\ call[c].pc = "locate"
  /\ LET m == call[c].mode
         found == CASE located[m] # "unset" -> located[m]
                    [] worker = "absent" -> "failed"
                    [] OTHER -> "ready"
     IN  IF m = "svg-raster" /\ \E r \in Grants(m) : ~Regular(r)
         THEN Return(c) /\ UNCHANGED located              \* rasterizer-missing
         ELSE /\ located' = [located EXCEPT ![m] = found]
              /\ IF found = "failed" THEN Return(c)       \* worker_not_found
                 ELSE Go(c, "digest")
  /\ UNCHANGED <<platform, begun, deployed, cache, history>>

PolicyDigest(c) ==
  /\ call[c].pc = "digest"
  /\ IF worker = "absent" THEN Return(c)                  \* worker_not_found
     ELSE call' = [call EXCEPT ![c].digest = Digest(call[c].mode, worker),
                               ![c].doubt = FALSE, ![c].pc = "lookup"]
  /\ UNCHANGED <<fixed, deployed, cache, history>>

\* Faulty variant: the digest enters the cache before its probe has passed.
InsertFirst(c) ==
  /\ call[c].pc = "lookup"
  /\ call' = [call EXCEPT ![c].pc = "grants",
       ![c].stage = IF call[c].digest \in cache THEN "adapter" ELSE Stages[1]]
  /\ cache' = cache \cup {call[c].digest}
  /\ UNCHANGED <<fixed, deployed, history>>

\* The lock is not held over the probe: two callers may both run it.
EnsureProbed(c) ==
  /\ call[c].pc = "lookup"
  /\ call' = [call EXCEPT ![c].pc = "grants",
       ![c].stage = IF call[c].digest \in cache THEN "adapter" ELSE Stages[1]]
  /\ UNCHANGED <<fixed, deployed, cache, history>>

\* Every grant is a regular file right now, and the inputs can be staged.
CheckGrants(c) ==
  /\ call[c].pc = "grants"
  /\ \/ (\A r \in Grants(call[c].mode) : Regular(r)) /\ Go(c, "spawn")
     \/ Return(c)                                         \* adapter_spawn_error
  /\ UNCHANGED <<fixed, deployed, cache, history>>

\* The Linux backend has no provider profile and refuses the class; no
\* command ever runs the worker outside the jail.
Supported(mode) == platform = "macos" \/ Class(mode) # "provider"

Spawn(c) ==
  /\ call[c].pc = "spawn"
  /\ IF worker # "absent" /\ Supported(call[c].mode)
     THEN call' = [call EXCEPT ![c].build = worker, ![c].pc = "helper"]
     ELSE Return(c)                \* adapter_spawn_error, sandbox_unavailable
  /\ UNCHANGED <<fixed, deployed, cache, history>>

\* The helper engages its layers one after the other and execs the mode.
Helper(c) ==
  /\ call[c].pc = "helper" /\ worker # "absent"
  /\ platform = "linux" => \A r \in Grants(call[c].mode) : Regular(r)
  /\ call' = [call EXCEPT
       ![c].layers = Layers(call[c].build, call[c].stage), ![c].pc = "mode",
       ![c].todo = IF call[c].stage = "adapter" THEN Chain(call[c].mode) ELSE <<>>,
       ![c].swapped = {}]
  /\ UNCHANGED <<fixed, deployed, cache, history>>

\* Or it exits with the code of a refusal, and nothing is exec'd: a limit, a
\* layer or a descriptor that fails, a process count the host does not give,
\* a grant that cannot be opened any more, a worker that is gone.
HelperRefuses(c) ==
  /\ call[c].pc = "helper"
  /\ Return(c)                     \* sandbox_unavailable, process-count-unavailable
  /\ UNCHANGED <<fixed, deployed, cache, history>>

-----------------------------------------------------------------------------
(* The probe *)

\* All four attempts have to be denied, which they are under the network
\* layer; an attempt that connects, times out or is not reported fails.
NetProbe(c) ==
  /\ call[c].pc = "mode" /\ call[c].stage = "net"
  /\ \/ /\ "net" \in call[c].layers
        /\ call' = IF Len(Stages) = 2 THEN [call EXCEPT ![c].stage = "filter", ![c].pc = "grants"]
                   ELSE [call EXCEPT ![c].pc = "insert"]
     \/ Return(c)                  \* sandbox_probe_failed
  /\ UNCHANGED <<fixed, deployed, cache, history>>

\* The kernel kills a mode that creates a socket under the filter.  A mode
\* that crashes for another reason looks the same to the parent, and its
\* pass is doubtful.
FilterProbe(c) ==
  /\ call[c].pc = "mode" /\ call[c].stage = "filter"
  /\ \/ "filter" \in call[c].layers /\ Go(c, "insert")
     \/ call' = [call EXCEPT ![c].pc = "insert", ![c].doubt = TRUE]
     \/ Return(c)                  \* sandbox_probe_failed
  /\ UNCHANGED <<fixed, deployed, cache, history>>

Insert(c) ==
  /\ call[c].pc = "insert"
  /\ cache' = cache \cup {call[c].digest}
  /\ call' = [call EXCEPT ![c].stage = "adapter", ![c].pc = "grants"]
  /\ IF call[c].doubt
     THEN doubtful' = doubtful \cup {call[c].digest} /\ UNCHANGED passed
     ELSE /\ passed' = passed \cup {<<Class(call[c].mode), call[c].build>>}
          /\ UNCHANGED doubtful
  /\ UNCHANGED <<fixed, deployed>>

-----------------------------------------------------------------------------
(* The adapter mode *)

NextIs(c, op) == Working(c) /\ call[c].todo # <<>> /\ Head(call[c].todo)[1] = op

\* A provider's executable lies in its closure, which is pinned as well as
\* its hash.
Pinned(r) == engine[r] = "pinned"

\* Present, a regular file where that is asked, and with what is
\* pinned.  The first step of a chain may also be refused for the source: no
\* speech, no geometry.
Verify(c) ==
  /\ NextIs(c, "verify")
  /\ \/ /\ Pinned(Head(call[c].todo)[2])
        /\ call' = [call EXCEPT ![c].todo = Tail(@)]
     \/ Return(c)                 \* -missing, -mismatch, -hash-drift
  /\ UNCHANGED <<fixed, deployed, cache, history>>

Uses(r) == IF r = "cli" THEN {"cli", "weights"} ELSE {r}

\* The engines that would run with r although they are not pinned, and were
\* not swapped since they were verified.
Unexcused(c, r) == {u \in Uses(r) : ~Pinned(u)} \ call[c].swapped

\* An engine runs from its path, whatever is there by now.
Executes(r, mode) == Regular(r) /\ <<"exec", r>> \in Rights(mode)

\* A provider's verification ends with a first execution, which has to
\* report the pinned version.
AssertVersion(c) ==
  /\ NextIs(c, "version")
  /\ LET r == Head(call[c].todo)[2]
     IN  \/ /\ Executes(r, call[c].mode)
            /\ call' = [call EXCEPT ![c].todo = Tail(@), ![c].unexcused = @ \cup Unexcused(c, r)]
         \/ Return(c)              \* -version-drift
  /\ UNCHANGED <<fixed, deployed, cache, history>>

\* The engine does its work, and the mode checks what it left: its exit, the
\* raster's geometry, the output file.  After an execution of the provider
\* chain only a later swap excuses.
Execute(c) ==
  /\ NextIs(c, "run")
  /\ LET r == Head(call[c].todo)[2]
     IN  \/ /\ Executes(r, call[c].mode)
            /\ call' = [call EXCEPT ![c].todo = Tail(@), ![c].unexcused = @ \cup Unexcused(c, r),
                 ![c].swapped = IF call[c].mode = "svg-raster" THEN {} ELSE @]
         \/ Return(c)              \* -exec-failed, geometry, area cap, empty output
  /\ UNCHANGED <<fixed, deployed, cache, history>>

\* The mode answers, or the parent refuses (module Drive).  The recognition
\* call follows a provider call that delivered its raster.
Answer(c) ==
  /\ Working(c) /\ call[c].todo = <<>>
  /\ \/ /\ call[c].mode = "svg-raster"
        /\ call' = [call EXCEPT ![c] = [Idle EXCEPT !.mode = "image-ocr", !.pc = "locate"]]
     \/ Return(c)
  /\ UNCHANGED <<fixed, deployed, cache, history>>

Step(c) ==
  \/ TakeRunner(c) \/ PolicyDigest(c) \/ EnsureProbed(c) \/ CheckGrants(c) \/ Spawn(c)
  \/ Helper(c) \/ HelperRefuses(c) \/ NetProbe(c) \/ FilterProbe(c) \/ Insert(c)
  \/ Verify(c) \/ AssertVersion(c) \/ Execute(c) \/ Answer(c)

Next ==
  \/ ReplaceWorker
  \/ \E r \in Role : ReplaceEngine(r)
  \/ \E c \in Caller : (\E j \in Job : Begin(c, j)) \/ Step(c)

Spec == Init /\ [][Next]_vars

-----------------------------------------------------------------------------
(* Properties *)

\* Types.  A call that looks the cache up carries a whole digest.
TypeOK ==
  /\ platform \in {"linux", "macos"} /\ worker \in Build \cup {"absent"}
  /\ engine \in [Role -> {"pinned", "drifted", "absent"}]
  /\ located \in [Mode -> {"unset", "ready", "failed"}]
  /\ begun \in 0..MaxCalls /\ swaps \in 0..MaxSwaps
  /\ passed \subseteq {"plain", "accelerator", "provider"} \X Build
  /\ doubtful \subseteq cache
  /\ \A c \in Caller :
       /\ call[c].mode \in Mode /\ call[c].build \in Build
       /\ call[c].layers \subseteq {"net", "filter"}
       /\ call[c].pc \in Measured => call[c].digest \in
            [worker : Build, exec : SUBSET Role, read : SUBSET Role,
             class : {"plain", "accelerator", "provider"}]

\* An adapter mode works only under the full jail, which a probe of the same
\* class showed for the build it was spawned from: whoever ran that probe,
\* whatever failed in between, and whatever the deployment put at the
\* worker's path.  Left out are a worker replaced while this call, or the
\* call that ran the probe, was under way, and a probe whose filter stage
\* ended by a crash of another kind.
ProbedAsSpawned ==
  \A c \in Caller : Working(c) /\ ~call[c].doubt /\ call[c].digest \notin doubtful =>
    /\ call[c].layers = Required
    /\ <<Class(call[c].mode), call[c].build>> \in passed

\* An engine that is not the pinned one runs only if it was put there after
\* its own verification, and in the provider chain after the execution
\* before it: each verification comes immediately before its execution.
EnginesRunVerified == \A c \in Caller : call[c].unexcused = {}

=============================================================================
