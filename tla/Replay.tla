-------------------------------- MODULE Replay --------------------------------
(***************************************************************************)
(* Kernel replays that share a cache (scripts/assumptions.py, kernel_replay *)
(* and replay_and_freshness).  Several audits of one build replay their    *)
(* modules at once; a module is checked under a claim of its own, and a    *)
(* pass is merged into the cache under the cache's lock.  Meanwhile the    *)
(* compiled library or the toolchain may change, and an audit be killed.   *)
(*                                                                         *)
(* A digest is a version: the library and the toolchain never return to an *)
(* earlier one.  All modules are cacheable; Lake receipts, private         *)
(* packages and the number of workers are left out (any number of modules  *)
(* of an audit may be under way).                                          *)
(***************************************************************************)
EXTENDS Integers

CONSTANTS
  Audit,
  Module,
  Scope,       \* the modules each audit replays
  MaxChanges   \* bound on the changes of the library and the toolchain

ASSUME ReplayAssumption == Scope \in [Audit -> SUBSET Module] /\ MaxChanges \in Nat

VARIABLES
  apc,        \* where an audit is
  task,       \* where the replay of a module of an audit is
  digests,    \* the version of each module the audit's report records
  bound,      \* lake_inputs: the library the audit is bound to
  toolchain,  \* runtime_sha: the toolchain the audit is bound to
  published,  \* the modules whose pass the audit merged
  cache,      \* a set with the contents of the cache, or empty
  merging,    \* what the holder of the cache's lock has loaded
  olean,      \* the compiled library: the version of each module
  runtime,    \* the version of the toolchain
  checked     \* the passes of the checker: the module, the library and the toolchain (history)

audits == <<apc, task, digests, bound, toolchain, published>>
world  == <<olean, runtime>>
replay == <<audits, cache, merging, world, checked>>

Library == [Module -> 0..MaxChanges]

ReplayOK ==
  /\ apc \in [Audit -> {"off", "extract", "digest", "bind", "replay", "close", "raise",
                        "passed", "failed", "error", "killed"}]
  /\ task \in [Audit -> [Module ->
       {"wait", "claimed", "missed", "pass", "merge", "reused", "passed", "rejected", "raised"}]]
  /\ digests \in [Audit -> Library] /\ bound \in [Audit -> Library]
  /\ toolchain \in [Audit -> 0..MaxChanges]
  /\ published \in [Audit -> SUBSET Module]
  /\ olean \in Library /\ runtime \in 0..MaxChanges

ReplayAt(l) ==
  /\ apc = [a \in Audit |-> l]
  /\ task = [a \in Audit |-> [m \in Module |-> "wait"]]
  /\ digests = [a \in Audit |-> [m \in Module |-> 0]] /\ bound = digests
  /\ toolchain = [a \in Audit |-> 0]
  /\ published = [a \in Audit |-> {}]
  /\ cache = {} /\ merging = {}
  /\ olean = [m \in Module |-> 0] /\ runtime = 0
  /\ checked = {}

ReplayInit == ReplayAt("extract")

-----------------------------------------------------------------------------
(* An audit.                                                               *)

Audits(a, from, to) == apc[a] = from /\ apc' = [apc EXCEPT ![a] = to]

(* The extraction records the toolchain. *)
Extract(a) ==
  /\ Audits(a, "extract", "digest")
  /\ toolchain' = [toolchain EXCEPT ![a] = runtime]
  /\ UNCHANGED <<task, digests, bound, published, cache, merging, world, checked>>

(* The report's digests. *)
Digest(a) ==
  /\ Audits(a, "digest", "bind")
  /\ digests' = [digests EXCEPT ![a] = olean]
  /\ UNCHANGED <<task, bound, toolchain, published, cache, merging, world, checked>>

(* library_compiled_inputs, then the first check of the toolchain. *)
Bind(a) ==
  /\ Audits(a, "bind", IF runtime = toolchain[a] THEN "replay" ELSE "error")
  /\ bound' = [bound EXCEPT ![a] = olean]
  /\ UNCHANGED <<task, digests, toolchain, published, cache, merging, world, checked>>

-----------------------------------------------------------------------------
(* The replay of a module.                                                 *)

Tasks(a, m, from, to) ==
  /\ apc[a] = "replay"
  /\ task[a][m] = from
  /\ task' = [task EXCEPT ![a][m] = to]

Claims(a, m) == apc[a] = "replay" /\ task[a][m] \in {"claimed", "missed", "pass", "merge"}

(* Mutant: the cache is not bound to the compiled inputs. *)
LoadedUnbound(a) ==
  {p \in UNION {c.passed : c \in {d \in cache : d.toolchain = toolchain[a]}} :
     \A c \in cache : \A q \in c.passed : q.module \in Scope[a] => q.digest = digests[a][q.module]}

(* load: the passes of the cache, unless they are of another build. *)
Loaded(a) ==
  {p \in UNION {c.passed : c \in {d \in cache : d.inputs = bound[a] /\ d.toolchain = toolchain[a]}} :
     \A c \in cache : \A q \in c.passed : q.module \in Scope[a] => q.digest = digests[a][q.module]}

Own(a, m) == [module |-> m, digest |-> digests[a][m]]

(* Mutant: no claim. *)
ClaimTaken(a, m) ==
  /\ m \in Scope[a]
  /\ Tasks(a, m, "wait", "claimed")
  /\ UNCHANGED <<apc, digests, bound, toolchain, published, cache, merging, world, checked>>

Claim(a, m) ==
  /\ m \in Scope[a]
  /\ \A b \in Audit : ~Claims(b, m)
  /\ Tasks(a, m, "wait", "claimed")
  /\ UNCHANGED <<apc, digests, bound, toolchain, published, cache, merging, world, checked>>

Look(a, m) ==
  /\ Tasks(a, m, "claimed", IF Own(a, m) \in Loaded(a) THEN "reused" ELSE "missed")
  /\ UNCHANGED <<apc, digests, bound, toolchain, published, cache, merging, world, checked>>

(* run_checker reads the library and the toolchain there are. *)
RunChecker(a, m) ==
  /\ \/ /\ Tasks(a, m, "missed", "pass")
        /\ checked' = checked \cup {[module |-> m, inputs |-> olean, toolchain |-> runtime]}
     \/ Tasks(a, m, "missed", "rejected") /\ UNCHANGED checked
  /\ UNCHANGED <<apc, digests, bound, toolchain, published, cache, merging, world>>

(* Mutant: the cache's lock is not taken. *)
MergeUnlocked(a, m) ==
  /\ IF olean = bound[a]
       THEN Tasks(a, m, "pass", "merge") /\ merging' = {Loaded(a)}
       ELSE Tasks(a, m, "pass", "raised") /\ UNCHANGED merging
  /\ UNCHANGED <<apc, digests, bound, toolchain, published, cache, world, checked>>

(* The cache's lock, validate_inputs, and load. *)
Merge(a, m) ==
  /\ \A b \in Audit, n \in Module : ~(Claims(b, n) /\ task[b][n] = "merge")
  /\ IF olean = bound[a]
       THEN Tasks(a, m, "pass", "merge") /\ merging' = {Loaded(a)}
       ELSE Tasks(a, m, "pass", "raised") /\ UNCHANGED merging
  /\ UNCHANGED <<apc, digests, bound, toolchain, published, cache, world, checked>>

(* write_report: the cache is replaced. *)
WriteCache(a, m) ==
  /\ Tasks(a, m, "merge", "passed")
  /\ cache' = {[toolchain |-> toolchain[a], inputs |-> bound[a], passed |-> loaded \cup {Own(a, m)}] :
                 loaded \in merging}
  /\ merging' = {}
  /\ published' = [published EXCEPT ![a] = @ \cup {m}]
  /\ UNCHANGED <<apc, digests, bound, toolchain, world, checked>>

-----------------------------------------------------------------------------
(* The end of a replay.                                                    *)

(* Mutant: the toolchain is not looked at again. *)
CollectOnly(a) ==
  /\ \A m \in Scope[a] : ~Claims(a, m)
  /\ LET raised == \E m \in Scope[a] : task[a][m] = "raised"
     IN  /\ raised \/ \A m \in Scope[a] : task[a][m] # "wait"
         /\ Audits(a, "replay", IF raised THEN "raise" ELSE "close")
  /\ UNCHANGED <<task, digests, bound, toolchain, published, cache, merging, world, checked>>

(* The results are collected: an exception of a task is raised when the    *)
(* tasks under way have ended; then the toolchain is looked at.            *)
Collect(a) ==
  /\ \A m \in Scope[a] : ~Claims(a, m)
  /\ LET raised == \E m \in Scope[a] : task[a][m] = "raised"
     IN  /\ raised \/ \A m \in Scope[a] : task[a][m] # "wait"
         /\ Audits(a, "replay", IF raised \/ runtime # toolchain[a] THEN "raise" ELSE "close")
  /\ UNCHANGED <<task, digests, bound, toolchain, published, cache, merging, world, checked>>

(* The compiled inputs are looked at again. *)
Close(a) ==
  /\ Audits(a, "close",
       IF olean # bound[a] THEN "raise"
       ELSE IF \E m \in Scope[a] : task[a][m] = "rejected" THEN "failed" ELSE "passed")
  /\ UNCHANGED <<task, digests, bound, toolchain, published, cache, merging, world, checked>>

(* The handler removes the cache if this replay merged passes into it; it  *)
(* does not take the cache's lock.                                         *)
Withdraw(a) ==
  /\ Audits(a, "raise", "error")
  /\ cache' = IF published[a] = {} THEN cache ELSE {}
  /\ UNCHANGED <<task, digests, bound, toolchain, published, merging, world, checked>>

AuditStep(a) ==
  \/ Extract(a) \/ Digest(a) \/ Bind(a)
  \/ \E m \in Module : Claim(a, m) \/ Look(a, m) \/ RunChecker(a, m) \/ Merge(a, m) \/ WriteCache(a, m)
  \/ Collect(a) \/ Close(a) \/ Withdraw(a)

-----------------------------------------------------------------------------
(* What the audits do not control.                                         *)

(* SIGKILL: the locks are released. *)
KillAudit(a) ==
  /\ apc[a] \in {"replay", "close", "raise"}
  /\ apc' = [apc EXCEPT ![a] = "killed"]
  /\ merging' = IF \E m \in Module : Claims(a, m) /\ task[a][m] = "merge" THEN {} ELSE merging
  /\ UNCHANGED <<task, digests, bound, toolchain, published, cache, world, checked>>

IsNew(v) == v > runtime /\ \A m \in Module : v > olean[m]

(* The library is rebuilt, or the toolchain replaced. *)
Rebuild(m) ==
  /\ \E v \in 1..MaxChanges : IsNew(v) /\ olean' = [olean EXCEPT ![m] = v]
  /\ UNCHANGED <<audits, cache, merging, runtime, checked>>

Upgrade ==
  /\ \E v \in 1..MaxChanges : IsNew(v) /\ runtime' = v
  /\ UNCHANGED <<audits, cache, merging, olean, checked>>

AuditsEnded == \A a \in Audit : apc[a] \in {"off", "passed", "failed", "error", "killed"}

ReplayRuns == \E a \in Audit : AuditStep(a)

ReplayNext ==
  \/ ReplayRuns \/ \E a \in Audit : KillAudit(a)
  \/ ~AuditsEnded /\ (Upgrade \/ \E m \in Module : Rebuild(m))

ReplaySpec == ReplayInit /\ [][ReplayNext]_replay /\ WF_replay(ReplayRuns)

-----------------------------------------------------------------------------
(* Properties.                                                             *)

(* When a replay passes, each of its modules, checked by itself or by      *)
(* another audit, passed under the very library and toolchain the replay   *)
(* is bound to: no pass is from the other side of a change.                *)
PassedAsBound ==
  \A a \in Audit : apc[a] = "passed" =>
    \A m \in Scope[a] : [module |-> m, inputs |-> bound[a], toolchain |-> toolchain[a]] \in checked

(* verify_fresh accepts the report. *)
Accepted(a) ==
  /\ apc[a] = "passed"
  /\ runtime = toolchain[a]
  /\ \A m \in Scope[a] : olean[m] = digests[a][m]

(* So each module of a report that is accepted passed with the very bytes  *)
(* the report names, though they are read before the library is bound.     *)
AcceptedIsChecked ==
  \A a \in Audit : Accepted(a) =>
    \A m \in Scope[a] : \E c \in checked :
      /\ c.module = m
      /\ c.toolchain = toolchain[a]
      /\ \A n \in Scope[a] : c.inputs[n] = digests[a][n]

(* "Concurrent audits replay each module once between them": while nothing *)
(* changes and nobody is killed, no module that has passed is checked      *)
(* again; merges of passes do not overwrite one another.                   *)
Unchanged == runtime = 0 /\ \A m \in Module : olean[m] = 0

ReplayedOnce ==
  [][Unchanged /\ (\A a \in Audit : apc[a] # "killed") =>
       \A a \in Audit, m \in Module :
         task[a][m] = "missed" /\ task'[a][m] # "missed" =>
           \A c \in checked : c.module # m]_replay

ReplayKept == [](PassedAsBound /\ AcceptedIsChecked) /\ ReplayedOnce

=============================================================================
