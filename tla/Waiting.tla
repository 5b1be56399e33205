------------------------------- MODULE Waiting -------------------------------
(***************************************************************************)
(* Waiting for other sessions: the dependency wait of a run started with   *)
(* --after (start binds each dependency to the run it finds, the sidecar   *)
(* scans until all have ended, src/sidecar.rs), and the wait command       *)
(* (src/commands/wait.rs).                                                 *)
(*                                                                         *)
(* The sessions waited for are seen from outside: their sidecars log an    *)
(* end, write it to meta.json, release the lock or die anywhere, and other *)
(* commands reconcile, remove and start them again (Supervision and        *)
(* SessionDirectory are about how).  A behaviour has one of the two        *)
(* waiters.                                                                *)
(***************************************************************************)
EXTENDS Naturals, Sequences, FiniteSets, SequencesExt

CONSTANTS
    After,     \* the sessions waited for, in the order given
    Scenarios  \* waiter, its options --any-exit or --any and --timeout, the ends that
               \* sidecars log, and two bounds: times a session is started again, kill
               \* requests written

\* What a sidecar logs as the end of a run (killed: by a kill or the run's own timeout),
\* and what reconciliation makes of a run whose sidecar logged none.
Ends == {"ok", "killed", "error", "sidecar_failed", "spawn_failed",
         "dep_failed", "dep_timed_out", "dep_killed"}
Outcomes == Ends \cup {"lost"}

ASSUME WaitingAssumption ==
    /\ After \in Seq(Range(After)) /\ After # <<>> /\ IsInjective(After)
    /\ Scenarios \subseteq [waiter : {"after", "wait"}, any : BOOLEAN, timed : BOOLEAN,
                            ends : SUBSET Ends, starts : Nat, kills : Nat]

VARIABLES
    sess,     \* the sessions: their directory, run, record, logged end and lock
    ended,    \* history: what meta.json said a run ended with
    opts,     \* the scenario
    dw,       \* start and the sidecar of the dependent run
    request,  \* its kill_request file
    asked,    \* history: the requests that were written
    expired,  \* the waiter's deadline has passed
    cw        \* the wait command

sessVars == <<sess, ended>>
waitVars == <<sessVars, opts, dw, request, asked, expired, cw>>

Deps == Range(After)

NoDir == [dir |-> "absent", run |-> 0, meta |-> "none", logged |-> "none", locked |-> FALSE]

WaitInit ==
    /\ sess = [d \in Deps |-> [NoDir EXCEPT !.dir = "meta", !.run = 1, !.meta = "live",
                                            !.locked = TRUE]]
    /\ ended = {}
    /\ opts \in Scenarios
    /\ dw = [pc |-> "bind", i |-> 1, bound |-> [d \in Deps |-> 0], latched |-> {},
             ready |-> FALSE, outcome |-> "none"]
    /\ request = "none" /\ asked = <<>> /\ expired = FALSE
    /\ cw = [pc |-> "open", i |-> 1, got |-> <<>>, warned |-> {}, code |-> 0]

(***************************************************************************)
(* The sessions waited for                                                 *)
(***************************************************************************)
Change(d, s) == sess' = [sess EXCEPT ![d] = s]
ByOthers == UNCHANGED <<opts, dw, request, asked, expired, cw>>

Records(d, o) == ended' = ended \cup {<<d, sess[d].run, o>>}

\* The terminal event, the terminal meta.json, the lock.
LogsEnd(d, o) ==
    /\ sess[d].locked /\ sess[d].meta = "live" /\ sess[d].logged = "none"
    /\ Change(d, [sess[d] EXCEPT !.logged = o])
    /\ UNCHANGED ended /\ ByOthers

WritesEnd(d) ==
    /\ sess[d].locked /\ sess[d].meta = "live" /\ sess[d].logged # "none"
    /\ Change(d, [sess[d] EXCEPT !.meta = sess[d].logged])
    /\ Records(d, sess[d].logged)
    /\ ByOthers

Releases(d) ==
    /\ sess[d].locked /\ sess[d].meta \in Outcomes
    /\ Change(d, [sess[d] EXCEPT !.locked = FALSE])
    /\ UNCHANGED ended /\ ByOthers

Dies(d) ==
    /\ sess[d].locked /\ sess[d].dir = "meta" /\ sess[d].meta = "live"
    /\ Change(d, [sess[d] EXCEPT !.locked = FALSE])
    /\ UNCHANGED ended /\ ByOthers

\* reconcile_sidecar_gone: heal from the log, or infer the loss.
Reconcile(d) ==
    IF sess[d].meta = "live" /\ ~sess[d].locked
    THEN LET o == IF sess[d].logged = "none" THEN "lost" ELSE sess[d].logged
         IN  Change(d, [sess[d] EXCEPT !.meta = o]) /\ Records(d, o)
    ELSE UNCHANGED <<sess, ended>>

Reconciled(d) ==
    /\ sess[d].meta = "live" /\ ~sess[d].locked
    /\ Reconcile(d)
    /\ ByOthers

\* prune, or the first half of start --replace; start creates the directory, and its
\* sidecar writes meta.json under the lock.
Removed(d) ==
    /\ sess[d].meta \in Outcomes /\ ~sess[d].locked
    /\ Change(d, [NoDir EXCEPT !.run = sess[d].run])
    /\ UNCHANGED ended /\ ByOthers

\* Bound: the scenario says how often sessions are started again.
StartsLeft == FoldSet(LAMBDA e, n : n + sess[e].run, 0, Deps) < Len(After) + opts.starts

Created(d) ==
    /\ sess[d].dir = "absent"
    /\ StartsLeft
    /\ Change(d, [NoDir EXCEPT !.dir = "empty", !.run = sess[d].run + 1, !.locked = TRUE])
    /\ UNCHANGED ended /\ ByOthers

WritesStart(d) ==
    /\ sess[d].dir = "empty"
    /\ Change(d, [sess[d] EXCEPT !.dir = "meta", !.meta = "live"])
    /\ UNCHANGED ended /\ ByOthers

\* What the sessions do is explored until the waiter is through.
Sessions(d) ==
    /\ dw.pc # "done" /\ cw.pc \notin {"done", "timeout", "error"}
    /\ \/ \E o \in Ends : o \in opts.ends /\ LogsEnd(d, o)
       \/ WritesEnd(d) \/ Releases(d) \/ Dies(d) \/ Reconciled(d)
       \/ Removed(d) \/ Created(d) \/ WritesStart(d)

(***************************************************************************)
(* The dependency wait                                                     *)
(***************************************************************************)
Dependent == opts.waiter = "after"
ByDependent == UNCHANGED <<sessVars, opts, asked, expired, cw>>
This == After[dw.i]

Resolve(outcome) == dw' = [dw EXCEPT !.pc = "done", !.outcome = outcome, !.ready = TRUE]

\* start resolves --after: a dependency without a session or a record is refused.
Bind ==
    /\ Dependent /\ dw.pc = "bind"
    /\ IF sess[This].dir # "meta"
       THEN dw' = [dw EXCEPT !.pc = "done", !.outcome = "refused"]
       ELSE dw' = [dw EXCEPT !.bound[This] = sess[This].run,
                             !.i = IF @ = Len(After) THEN 1 ELSE @ + 1,
                             !.pc = IF dw.i = Len(After) THEN "kill" ELSE @]
    /\ UNCHANGED request /\ ByDependent

\* kill writes a request, forced or not, for the run it read; one that is aimed at an
\* earlier run of the name, or cannot be parsed, is stale.
WritesRequest(k) ==
    /\ Dependent /\ dw.pc \notin {"bind", "done"} /\ Len(asked) < opts.kills
    /\ request' = k
    /\ asked' = Append(asked, k)
    /\ UNCHANGED <<sessVars, opts, dw, expired, cw>>

Requests == {"kill", "kill_force", "stale"}

DeadlinePasses ==
    /\ opts.timed /\ ~expired
    /\ dw.pc # "done" /\ cw.pc \notin {"done", "timeout", "error"}
    /\ expired' = TRUE
    /\ UNCHANGED <<sessVars, opts, dw, request, asked, cw>>

\* scan_iteration, first: a kill request for this run ends the wait, another is removed.
ScanKill ==
    /\ Dependent /\ dw.pc = "kill"
    /\ CASE request = "none" -> dw' = [dw EXCEPT !.pc = "deadline"] /\ UNCHANGED request
         [] request = "stale" -> dw' = [dw EXCEPT !.pc = "unlink"] /\ UNCHANGED request
         [] OTHER -> Resolve(request) /\ request' = "none"
    /\ ByDependent

\* The file is removed by path, and with it what was written since it was read.
ScanUnlink ==
    /\ Dependent /\ dw.pc = "unlink"
    /\ request' = "none"
    /\ dw' = [dw EXCEPT !.pc = "deadline"]
    /\ ByDependent

\* Then the timeout.
ScanDeadline ==
    /\ Dependent /\ dw.pc = "deadline"
    /\ IF expired THEN Resolve("timed_out") ELSE dw' = [dw EXCEPT !.pc = "scan", !.i = 1]
    /\ UNCHANGED request /\ ByDependent

Satisfies(o) == opts.any \/ o = "ok"

\* scan_iteration's end: all latched, or another poll.  The first scan is followed by
\* readiness.
Scanned(latched) ==
    IF dw.i < Len(After)
    THEN dw' = [dw EXCEPT !.i = @ + 1, !.latched = latched]
    ELSE dw' = [dw EXCEPT !.latched = latched, !.ready = TRUE,
                          !.pc = IF latched = Deps THEN "done" ELSE "kill",
                          !.outcome = IF latched = Deps THEN "spawn" ELSE @]

\* Mutant: the run id is not compared with the bound one.
ScanDependency_Unbound ==
    /\ Dependent /\ dw.pc = "scan"
    /\ LET s == sess[This]
       IN  CASE This \in dw.latched -> Scanned(dw.latched)
             [] This \notin dw.latched /\ s.dir # "meta" -> Resolve("failed")
             [] OTHER ->
                    CASE s.meta = "live" -> Scanned(dw.latched)
                      [] s.meta # "live" /\ Satisfies(s.meta) -> Scanned(dw.latched \cup {This})
                      [] OTHER -> Resolve("failed")
    /\ UNCHANGED request /\ ByDependent

\* Then the next dependency that is not latched: it fails the wait if it is gone, cannot
\* be read, is another run or ended without satisfying.
ScanDependency ==
    /\ Dependent /\ dw.pc = "scan"
    /\ LET s == sess[This]
       IN  CASE This \in dw.latched -> Scanned(dw.latched)
             [] This \notin dw.latched /\ (s.dir # "meta" \/ s.run # dw.bound[This]) ->
                    Resolve("failed")
             [] OTHER ->
                    CASE s.meta = "live" -> Scanned(dw.latched)
                      [] s.meta # "live" /\ Satisfies(s.meta) -> Scanned(dw.latched \cup {This})
                      [] OTHER -> Resolve("failed")
    /\ UNCHANGED request /\ ByDependent

DependentSteps == Bind \/ ScanKill \/ ScanUnlink \/ ScanDeadline \/ ScanDependency

(***************************************************************************)
(* The wait command                                                        *)
(***************************************************************************)
Waits == opts.waiter = "wait"
ByWait == UNCHANGED <<opts, dw, request, asked, expired>>
Name == After[cw.i]
Got == {d \in Deps : \E k \in DOMAIN cw.got : cw.got[k].name = d}

\* single_exit_code
ExitCode == [ok |-> 0, killed |-> 0, error |-> 42, sidecar_failed |-> 5, spawn_failed |-> 2,
             lost |-> 3, dep_failed |-> 4, dep_timed_out |-> 124, dep_killed |-> 137]

Severity(code) ==
    CASE code = 2 -> 6 [] code = 3 -> 5 [] code = 5 -> 4 [] code \in {4, 124, 137} -> 3
      [] code = 42 -> 1 [] OTHER -> 0

\* Mutant: the last failure wins.
Worse_Last(worst, o) == IF ExitCode[o] # 0 THEN ExitCode[o] ELSE worst

\* derive_exit_code, outcome after outcome.
Worse(worst, o) ==
    IF ExitCode[o] # 0 /\ (worst = 0 \/ Severity(ExitCode[o]) > Severity(worst))
    THEN ExitCode[o] ELSE worst

\* The terminal record of a session, of those that got one.
ReportOf(got, d) == CHOOSE g \in Range(got) : g.name = d
ReportedIn(got) == {got[k].name : k \in DOMAIN got}

\* The records are gone through in the order of the request, not that of their arrival.
DeriveExitCode(got) ==
    LET worst[n \in 0..Len(After)] ==
            IF n = 0 THEN 0
            ELSE IF After[n] \in ReportedIn(got)
                 THEN Worse(worst[n - 1], ReportOf(got, After[n]).outcome)
                 ELSE worst[n - 1]
    IN  worst[Len(After)]

\* Every session is opened before the first is read.
WaitOpens ==
    /\ Waits /\ cw.pc = "open"
    /\ cw' = IF \E d \in Deps : sess[d].dir = "absent"
             THEN [cw EXCEPT !.pc = "error"]
             ELSE [cw EXCEPT !.pc = "read"]
    /\ UNCHANGED <<sess, ended>> /\ ByWait

NextSession == IF cw.i < Len(After) THEN [cw EXCEPT !.i = @ + 1, !.pc = "read"]
                              ELSE [cw EXCEPT !.i = 1, !.pc = "check"]

\* Mutant: the record is not reconciled.
WaitReads_Unreconciled ==
    /\ Waits /\ cw.pc = "read"
    /\ cw' = CASE Name \in Got -> NextSession
               [] Name \notin Got /\ sess[Name].dir # "meta" -> [cw EXCEPT !.pc = "error"]
               [] OTHER -> IF sess[Name].meta \in Outcomes
                           THEN [cw EXCEPT !.pc = "release",
                                    !.got = Append(@, [name |-> Name, run |-> sess[Name].run,
                                                       outcome |-> sess[Name].meta])]
                           ELSE NextSession
    /\ UNCHANGED <<sess, ended>> /\ ByWait

\* One session of a pass: read its record, reconcile it, and see whether it has ended.
\* reconcile reads the record again under the lock, so both are one step.
WaitReads ==
    /\ Waits /\ cw.pc = "read"
    /\ IF Name \in Got \/ sess[Name].dir # "meta"
       THEN /\ cw' = IF Name \in Got THEN NextSession ELSE [cw EXCEPT !.pc = "error"]
            /\ UNCHANGED <<sess, ended>>
       ELSE /\ Reconcile(Name)
            /\ cw' = IF sess'[Name].meta \in Outcomes
                     THEN [cw EXCEPT !.pc = "release",
                              !.got = Append(@, [name |-> Name, run |-> sess[Name].run,
                                                 outcome |-> sess'[Name].meta])]
                     ELSE NextSession
    /\ ByWait

\* Mutant: the release of the lock is not waited for.
WaitReleased_Skips ==
    /\ Waits /\ cw.pc = "release"
    /\ cw' = NextSession
    /\ UNCHANGED <<sess, ended>> /\ ByWait

\* await_release: the lock is free, or cannot be asked about; or the grace passes, with a
\* warning.
WaitReleased ==
    /\ Waits /\ cw.pc = "release" /\ ~sess[Name].locked
    /\ cw' = NextSession
    /\ UNCHANGED <<sess, ended>> /\ ByWait

WaitGrace ==
    /\ Waits /\ cw.pc = "release" /\ sess[Name].locked
    /\ cw' = [NextSession EXCEPT !.warned = @ \cup {Name}]
    /\ UNCHANGED <<sess, ended>> /\ ByWait

\* After a pass: done, out of time, or sleep.
WaitChecks ==
    /\ Waits /\ cw.pc = "check"
    /\ LET done == IF opts.any THEN cw.got # <<>> ELSE Got = Deps
       IN  cw' = CASE done -> [cw EXCEPT !.pc = "done", !.code = DeriveExitCode(cw.got)]
                   [] ~done /\ expired -> [cw EXCEPT !.pc = "timeout", !.code = 1]
                   [] OTHER -> [cw EXCEPT !.pc = "read"]
    /\ UNCHANGED <<sess, ended>> /\ ByWait

WaitSteps == WaitOpens \/ WaitReads \/ WaitReleased \/ WaitGrace \/ WaitChecks

WaitNext ==
    \/ \E d \in Deps : Sessions(d)
    \/ \E k \in Requests : WritesRequest(k)
    \/ DeadlinePasses
    \/ DependentSteps
    \/ WaitSteps

WaitSpec == WaitInit /\ [][WaitNext]_waitVars

(***************************************************************************)
(* Properties                                                              *)
(***************************************************************************)
\* The dependent run's fate follows from the runs it was bound to: it is spawned only if
\* each of those very runs ended, and well unless --any-exit; it fails only if one of
\* them did not, or was removed; a kill or a timeout is one that was asked for, and of
\* the strength asked for; and start returns only when every dependency was looked at.
DependencyJustified ==
    LET EndOf(d) == {o \in Outcomes : <<d, dw.bound[d], o>> \in ended}
    IN  /\ dw.outcome = "spawn" => \A d \in Deps : \E o \in EndOf(d) : Satisfies(o)
        /\ dw.outcome = "failed" =>
               \E d \in Deps :
                  \/ \E o \in EndOf(d) : ~Satisfies(o)
                  \/ EndOf(d) # {} /\ (sess[d].dir = "absent" \/ sess[d].run # dw.bound[d])
        /\ dw.outcome = "timed_out" => expired
        /\ dw.outcome \in {"kill", "kill_force"} => dw.outcome \in Range(asked)

\* What wait reports happened: each run it lists ended that way and, unless wait warned,
\* its sidecar has let go of the session; and without --any nothing is missing.
WaitReports ==
    /\ \A k \in DOMAIN cw.got :
        LET g == cw.got[k]
        IN  /\ <<g.name, g.run, g.outcome>> \in ended
            /\ g.name \notin cw.warned => ~(sess[g.name].run = g.run /\ sess[g.name].locked)
    /\ IF opts.any THEN Got # {} ELSE Got = Deps

\* The order of gravity that derive_exit_code states.
Gravity == [ok |-> 0, killed |-> 0, error |-> 1, dep_failed |-> 3, dep_timed_out |-> 3,
            dep_killed |-> 3, sidecar_failed |-> 4, lost |-> 5, spawn_failed |-> 6]

\* And the exit code is that of an end in the list such that none in it is graver.
WaitHonest ==
    cw.pc = "done" =>
        /\ WaitReports
        /\ \E k \in DOMAIN cw.got :
              /\ cw.code = ExitCode[cw.got[k].outcome]
              /\ \A j \in DOMAIN cw.got : Gravity[cw.got[j].outcome] <= Gravity[cw.got[k].outcome]

\* No one waits for nothing: the dependency wait resolves once none of the bound runs is
\* recorded as live, once the deadline has passed, and when a kill is asked for (unless
\* a stale request got in its way); and wait returns when no session has a sidecar any
\* more, for it reconciles them itself.
WaitsResolve ==
    LET Over(d) == dw.bound[d] # 0
                   /\ ~(sess[d].run = dw.bound[d] /\ sess[d].meta = "live")
    IN  /\ (expired \/ \A d \in Deps : Over(d)) ~> (~Dependent \/ dw.pc = "done")
        /\ request \in {"kill", "kill_force"} ~> (dw.pc = "done" \/ "stale" \in Range(asked))
        /\ <>[](\A d \in Deps : ~sess[d].locked)
               => <>(~Waits \/ cw.pc \in {"done", "timeout", "error"})

=============================================================================
