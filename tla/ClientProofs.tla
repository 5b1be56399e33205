---------------------------- MODULE ClientProofs ----------------------------
(***************************************************************************)
(* Proofs about the commands that wait: --after and wait (Waiting), for    *)
(* any sessions waited for, started again any number of times, with the    *)
(* exit code; log and its followers (LogFollow), for any query and any     *)
(* log; exec (Exec): whether two commands are with the shell, and whose    *)
(* lines an answer holds, for any number of clients; the sockets of PTY    *)
(* runs (AttachSockets), for any runs and sessions; and the attach client  *)
(* (AttachClient), for any user and any limits.                            *)
(*                                                                         *)
(* What prune's sweep takes is right because of facts that outlive each of *)
(* its steps: a sidecar that died stays dead, nothing publishes a dead     *)
(* run's socket again, and a path that nobody removed is still there.      *)
(***************************************************************************)
EXTENDS Waiting, Exec, LogFollow, AttachClient, AttachSockets, DataLemmas

(***************************************************************************)
(* Waiting: the inductive invariant                                        *)
(***************************************************************************)
SessRecs == [dir : {"absent", "empty", "meta"}, run : Nat \ {0}, meta : {"none", "live"} \cup Outcomes,
             logged : {"none"} \cup Ends, locked : BOOLEAN]
DependentPcs == {"bind", "kill", "unlink", "deadline", "scan", "done"}
Fates == {"none", "refused", "kill", "kill_force", "timed_out", "failed", "spawn"}
DependentRecs == [pc : DependentPcs, i : DOMAIN After, bound : [Deps -> Nat], latched : SUBSET Deps,
                  ready : BOOLEAN, outcome : Fates]
Reports == [name : Deps, run : Nat, outcome : Outcomes]

\* What the wait command keeps; its exit code is computed at the end.
WaitRec(w) ==
    w \in [pc : {"open", "read", "release", "check", "done", "timeout", "error"}, i : DOMAIN After,
           got : Seq(Reports), warned : SUBSET Deps, code : {w.code}]

WaitTypes ==
    /\ sess \in [Deps -> SessRecs] /\ dw \in DependentRecs
    /\ request \in {"none"} \cup Requests /\ asked \in Seq(Requests)
    /\ WaitRec(cw)

\* The run r of session d ended, and meta.json said so, in the record of all such ends.
EndIn(record, d, r) == \E o \in Outcomes : <<d, r, o>> \in record

\* What a session shows was recorded when it came about, and a session is removed only
\* after its run ended.
Shown(d) ==
    /\ sess[d].dir = "meta" <=> sess[d].meta # "none"
    /\ sess[d].meta \in Outcomes => <<d, sess[d].run, sess[d].meta>> \in ended
    /\ sess[d].dir = "absent" => EndIn(ended, d, sess[d].run)

\* The run that a dependency is bound to is there and live, or it ended.
Bound(d) ==
    dw.bound[d] # 0 =>
        /\ dw.bound[d] <= sess[d].run
        /\ sess[d].run = dw.bound[d] => sess[d].dir # "empty"
        /\ EndIn(ended, d, dw.bound[d]) \/ (sess[d].run = dw.bound[d] /\ sess[d].meta = "live")

\* Dependencies are bound in order before the first scan; the latched ones satisfied.
Scanning ==
    /\ dw.pc = "bind" => dw.latched = {} /\ \A j \in DOMAIN After : j < dw.i => dw.bound[After[j]] # 0
    /\ dw.pc \notin {"bind", "done"} => \A d \in Deps : dw.bound[d] # 0
    /\ dw.pc # "done" => dw.outcome = "none"
    /\ \A d \in dw.latched : \E o \in Outcomes : <<d, dw.bound[d], o>> \in ended /\ Satisfies(o)
    /\ request # "none" => request \in Range(asked)

\* A run that wait lists, once per session, ended, and its lock is released unless wait is waiting for that
\* or warned.
Listed ==
    /\ \A k \in DOMAIN cw.got :
        LET g == cw.got[k]
        IN  /\ <<g.name, g.run, g.outcome>> \in ended
            /\ g.run <= sess[g.name].run
            /\ sess[g.name].run = g.run /\ sess[g.name].locked =>
                  g.name \in cw.warned \/ (cw.pc = "release" /\ g.name = Name)
    /\ \A j, k \in DOMAIN cw.got : cw.got[j].name = cw.got[k].name => j = k
    /\ cw.pc = "done" => IF opts.any THEN Got # {} ELSE Got = Deps

WaitInv ==
    /\ WaitTypes /\ (\A d \in Deps : Shown(d) /\ Bound(d)) /\ Scanning /\ DependencyJustified
    /\ Listed

(***************************************************************************)
(* The sessions waited for                                                 *)
(***************************************************************************)
\* The sessions, in their order.
LEMMA AfterTypes ==
    /\ Len(After) \in Nat /\ Len(After) >= 1 /\ DOMAIN After = 1..Len(After) /\ 1 \in DOMAIN After
    /\ \A j \in DOMAIN After : After[j] \in Deps
    /\ \A d \in Deps : \E j \in DOMAIN After : After[j] = d
<1>1. After \in Seq(Range(After)) /\ After # <<>>
    BY WaitingAssumption
<1> QED
    BY <1>1 DEF Deps, Range

\* A session only moves on: to the end of its run, away, and to a later run.  The lock of
\* a run is not taken again.
MovesOn ==
    /\ ended \subseteq ended'
    /\ \A d \in Deps :
        /\ sess'[d].run >= sess[d].run
        /\ sess'[d].run # sess[d].run => sess[d].dir = "absent"
        /\ sess'[d].run = sess[d].run =>
              /\ sess'[d].locked => sess[d].locked
              /\ sess'[d].dir = "empty" => sess[d].dir = "empty"
              /\ sess[d].dir = "absent" => sess'[d].dir = "absent"
              /\ sess[d].meta = "live" => sess'[d].meta = "live" \/ EndIn(ended', d, sess[d].run)

\* One session's change keeps the others'.
LEMMA OneMoves ==
    ASSUME WaitTypes, \A e \in Deps : Shown(e), NEW d \in Deps, NEW s \in SessRecs, Change(d, s),
           ended \subseteq ended',
           s.dir = "meta" <=> s.meta # "none",
           s.meta \in Outcomes => <<d, s.run, s.meta>> \in ended',
           s.dir = "absent" => EndIn(ended', d, s.run),
           s.run >= sess[d].run, s.run # sess[d].run => sess[d].dir = "absent",
           s.run = sess[d].run =>
              /\ s.locked => sess[d].locked
              /\ s.dir = "empty" => sess[d].dir = "empty"
              /\ sess[d].dir = "absent" => s.dir = "absent"
              /\ sess[d].meta = "live" => s.meta = "live" \/ EndIn(ended', d, sess[d].run)
    PROVE  sess' \in [Deps -> SessRecs] /\ MovesOn /\ \A e \in Deps : Shown(e)'
<1>1. /\ sess \in [Deps -> SessRecs] /\ sess' \in [Deps -> SessRecs] /\ sess'[d] = s
      /\ \A e \in Deps : e # d => sess'[e] = sess[e]
    BY DEF WaitTypes, Change
<1>2. \A e \in Deps : sess[e].run \in Nat
    BY <1>1 DEF SessRecs
<1>3. \A e \in Deps : \A r : EndIn(ended, e, r) => EndIn(ended', e, r)
    BY DEF EndIn
<1>4. MovesOn
    BY <1>1, <1>2 DEF MovesOn
<1>5. ASSUME NEW e \in Deps PROVE Shown(e)'
  <2>1. CASE e = d
    BY <1>1, <2>1 DEF Shown
  <2>2. CASE e # d
    BY <1>1, <1>3, <2>2 DEF Shown
  <2> QED
    BY <2>1, <2>2
<1> QED
    BY <1>1, <1>4, <1>5

\* Nothing of the sessions changes.
LEMMA NoneMoves ==
    ASSUME WaitTypes, \A e \in Deps : Shown(e), sess' = sess, ended' = ended
    PROVE  sess' \in [Deps -> SessRecs] /\ MovesOn /\ \A e \in Deps : Shown(e)'
<1>1. sess' \in [Deps -> SessRecs] /\ \A e \in Deps : sess[e].run \in Nat
    BY DEF WaitTypes, SessRecs
<1>2. MovesOn
    BY <1>1 DEF MovesOn
<1>3. \A e \in Deps : Shown(e)'
    BY DEF Shown
<1> QED
    BY <1>1, <1>2, <1>3

\* Reconciling a session is moving on.
LEMMA ReconcileMoves ==
    ASSUME WaitTypes, \A e \in Deps : Shown(e), NEW d \in Deps, Reconcile(d)
    PROVE  sess' \in [Deps -> SessRecs] /\ MovesOn /\ \A e \in Deps : Shown(e)'
<1> DEFINE o == IF sess[d].logged = "none" THEN "lost" ELSE sess[d].logged
           s == [sess[d] EXCEPT !.meta = o]
<1>0. sess[d] \in SessRecs /\ Shown(d)
    BY DEF WaitTypes
<1>1. CASE sess[d].meta = "live" /\ ~sess[d].locked
  <2>1. Change(d, s) /\ ended' = ended \cup {<<d, sess[d].run, o>>}
    BY <1>1 DEF Reconcile, Records
  <2>2. o \in Outcomes
    BY <1>0 DEF SessRecs, Outcomes
  <2> HIDE DEF o
  <2>3. /\ s \in SessRecs /\ s.dir = sess[d].dir /\ s.run = sess[d].run /\ s.meta = o
        /\ s.locked = sess[d].locked /\ s.run \in Nat
    BY <1>0, <2>2 DEF SessRecs
  <2>4. s.dir = "meta" /\ s.meta # "none" /\ EndIn(ended', d, s.run)
    <3>1. <<d, s.run, o>> \in ended' /\ sess[d].dir = "meta"
      BY <1>0, <1>1, <2>1, <2>3 DEF Shown
    <3>2. o # "none"
      BY <2>2 DEF Outcomes, Ends
    <3> QED
      BY <2>2, <2>3, <3>1, <3>2 DEF EndIn
  <2>5. <<d, s.run, s.meta>> \in ended' /\ ended \subseteq ended' /\ sess[d].dir = "meta"
    BY <2>1, <2>3, <2>4
  <2> HIDE DEF s
  <2>6. s.run >= sess[d].run
    BY <2>3
  <2> QED
    BY <2>1, <2>3, <2>4, <2>5, <2>6, OneMoves
<1>2. CASE ~(sess[d].meta = "live" /\ ~sess[d].locked)
    BY <1>2, NoneMoves DEF Reconcile
<1> QED
    BY <1>1, <1>2

\* Everything that happens to a session is moving on.
LEMMA SessionsMove ==
    ASSUME WaitTypes, \A e \in Deps : Shown(e), NEW d \in Deps, Sessions(d)
    PROVE  sess' \in [Deps -> SessRecs] /\ MovesOn /\ \A e \in Deps : Shown(e)'
<1>0. sess[d] \in SessRecs /\ Shown(d) /\ sess[d].run \in Nat
    BY DEF WaitTypes, SessRecs
<1>1. ASSUME NEW o \in Ends, LogsEnd(d, o)
      PROVE  sess' \in [Deps -> SessRecs] /\ MovesOn /\ \A e \in Deps : Shown(e)'
  <2> DEFINE s == [sess[d] EXCEPT !.logged = o]
  <2>1. /\ s \in SessRecs /\ s.dir = sess[d].dir /\ s.run = sess[d].run /\ s.meta = sess[d].meta
        /\ s.locked = sess[d].locked /\ Change(d, s) /\ ended' = ended
    BY <1>0, <1>1 DEF SessRecs, LogsEnd
  <2> HIDE DEF s
  <2>2. EndIn(ended, d, s.run) => EndIn(ended', d, s.run)
    BY <2>1 DEF EndIn
  <2> QED
    BY <1>0, <2>1, <2>2, OneMoves DEF Shown
<1>2. CASE WritesEnd(d)
  <2> DEFINE s == [sess[d] EXCEPT !.meta = sess[d].logged]
  <2>1. sess[d].meta = "live" /\ sess[d].logged \in Ends /\ sess[d].dir = "meta"
    BY <1>0, <1>2 DEF WritesEnd, SessRecs, Shown
  <2>2. /\ s \in SessRecs /\ s.dir = sess[d].dir /\ s.run = sess[d].run /\ s.meta = sess[d].logged
        /\ s.locked = sess[d].locked /\ Change(d, s)
        /\ ended' = ended \cup {<<d, sess[d].run, sess[d].logged>>}
    BY <1>0, <1>2, <2>1 DEF SessRecs, WritesEnd, Records, Outcomes
  <2> HIDE DEF s
  <2>3. s.meta # "none" /\ s.meta \in Outcomes /\ EndIn(ended', d, s.run)
    BY <2>1, <2>2 DEF Ends, Outcomes, EndIn
  <2>4. <<d, s.run, s.meta>> \in ended' /\ ended \subseteq ended' /\ s.run >= sess[d].run
    BY <1>0, <2>2
  <2> QED
    BY <2>1, <2>2, <2>3, <2>4, OneMoves
<1>3. CASE Releases(d) \/ Dies(d)
  <2> DEFINE s == [sess[d] EXCEPT !.locked = FALSE]
  <2>1. /\ s \in SessRecs /\ s.dir = sess[d].dir /\ s.run = sess[d].run /\ s.meta = sess[d].meta
        /\ ~s.locked /\ Change(d, s) /\ ended' = ended
    BY <1>0, <1>3 DEF SessRecs, Releases, Dies
  <2> HIDE DEF s
  <2>2. EndIn(ended, d, s.run) => EndIn(ended', d, s.run)
    BY <2>1 DEF EndIn
  <2> QED
    BY <1>0, <2>1, <2>2, OneMoves DEF Shown
<1>4. CASE Reconciled(d)
    BY <1>4, ReconcileMoves DEF Reconciled
<1>5. CASE Removed(d)
  <2> DEFINE s == [NoDir EXCEPT !.run = sess[d].run]
  <2>1. /\ s \in SessRecs /\ s.dir = "absent" /\ s.run = sess[d].run /\ s.meta = "none"
        /\ ~s.locked /\ Change(d, s) /\ ended' = ended /\ sess[d].meta \in Outcomes
    BY <1>0, <1>5 DEF SessRecs, Removed, NoDir
  <2> HIDE DEF s
  <2>2. EndIn(ended', d, s.run) /\ s.meta \notin Outcomes
    BY <1>0, <2>1 DEF EndIn, Shown, Outcomes, Ends
  <2>3. s.run >= sess[d].run /\ ended \subseteq ended' /\ sess[d].meta # "live"
    BY <1>0, <2>1 DEF Outcomes, Ends
  <2> QED
    BY <2>1, <2>2, <2>3, OneMoves
<1>6. CASE Created(d)
  <2> DEFINE s == [NoDir EXCEPT !.dir = "empty", !.run = sess[d].run + 1, !.locked = TRUE]
  <2>1. /\ s \in SessRecs /\ s.dir = "empty" /\ s.run = sess[d].run + 1 /\ s.meta = "none"
        /\ Change(d, s) /\ ended' = ended /\ sess[d].dir = "absent"
    <3>1. sess[d].run + 1 \in Nat \ {0} /\ Change(d, s) /\ ended' = ended /\ sess[d].dir = "absent"
      BY <1>0, <1>6 DEF Created
    <3> QED
      BY <3>1 DEF SessRecs, NoDir
  <2> HIDE DEF s
  <2>2. s.meta \notin Outcomes /\ s.run >= sess[d].run /\ s.run # sess[d].run
    BY <1>0, <2>1 DEF Outcomes, Ends
  <2> QED
    BY <2>1, <2>2, OneMoves
<1>7. CASE WritesStart(d)
  <2> DEFINE s == [sess[d] EXCEPT !.dir = "meta", !.meta = "live"]
  <2>1. /\ s \in SessRecs /\ s.dir = "meta" /\ s.run = sess[d].run /\ s.meta = "live"
        /\ s.locked = sess[d].locked /\ Change(d, s) /\ ended' = ended /\ sess[d].dir = "empty"
    BY <1>0, <1>7 DEF SessRecs, WritesStart
  <2> HIDE DEF s
  <2>2. s.meta \notin Outcomes /\ s.run >= sess[d].run /\ ended \subseteq ended'
    BY <1>0, <2>1 DEF Outcomes, Ends
  <2> QED
    BY <2>1, <2>2, OneMoves
<1> QED
    BY <1>1, <1>2, <1>3, <1>4, <1>5, <1>6, <1>7 DEF Sessions

(***************************************************************************)
(* What moving on keeps                                                    *)
(***************************************************************************)
\* Bindings, latches and a fate stand whatever the sessions do.
LEMMA DependentStands ==
    ASSUME WaitInv, sess' \in [Deps -> SessRecs], MovesOn, dw' = dw, opts' = opts,
           request' = request, asked' = asked, expired' = expired
    PROVE  (\A d \in Deps : Bound(d)') /\ Scanning' /\ DependencyJustified'
<1>0. /\ sess \in [Deps -> SessRecs] /\ dw \in DependentRecs /\ ended \subseteq ended'
      /\ \A d \in Deps : Shown(d) /\ Bound(d)
      /\ Scanning /\ DependencyJustified
    BY DEF WaitInv, WaitTypes, MovesOn
<1>1. \A d \in Deps : sess[d].run \in Nat /\ dw.bound[d] \in Nat /\ sess'[d].run >= sess[d].run
    BY <1>0 DEF SessRecs, DependentRecs, MovesOn
<1>2. \A d \in Deps : \A r : EndIn(ended, d, r) => EndIn(ended', d, r)
    BY <1>0 DEF EndIn
<1>3. ASSUME NEW d \in Deps, dw.bound[d] # 0, sess'[d].run \in Nat PROVE Bound(d)'
  <2>1. Bound(d) /\ Shown(d)
    BY <1>0
  <2>2. CASE sess'[d].run = sess[d].run
    BY <1>1, <1>2, <1>3, <2>1, <2>2 DEF Bound, MovesOn
  <2>3. CASE sess'[d].run # sess[d].run
    <3>1. sess[d].dir = "absent" /\ sess[d].meta = "none"
      BY <2>1, <2>3 DEF MovesOn, Shown
    <3>2. EndIn(ended', d, dw.bound[d])
      BY <1>2, <1>3, <2>1, <3>1 DEF Bound
    <3> QED
      BY <1>1, <1>3, <2>1, <2>3, <3>2 DEF Bound
  <2> QED
    BY <2>2, <2>3
<1>4. \A o : Satisfies(o)' = Satisfies(o)
    BY DEF Satisfies
<1>5. Scanning'
    BY <1>0, <1>4 DEF Scanning
<1>6. \A d \in Deps : sess'[d].run \in Nat
    BY DEF SessRecs
<1>7. ASSUME NEW d \in Deps, sess[d].dir = "absent" \/ sess[d].run # dw.bound[d]
      PROVE  sess'[d].dir = "absent" \/ sess'[d].run # dw.bound[d]
  <2>1. dw.bound[d] <= sess[d].run
    BY <1>0, <1>1 DEF Bound
  <2> QED
    BY <1>1, <1>6, <1>7, <2>1 DEF MovesOn
<1>8. DependencyJustified'
  <2>1. ASSUME dw.outcome = "spawn", NEW d \in Deps
        PROVE  \E o \in Outcomes : <<d, dw.bound[d], o>> \in ended' /\ Satisfies(o)'
    BY <1>0, <1>4, <2>1 DEF DependencyJustified
  <2>2. ASSUME dw.outcome = "failed"
        PROVE  \E d \in Deps :
                  \/ \E o \in Outcomes : <<d, dw.bound[d], o>> \in ended' /\ ~Satisfies(o)'
                  \/ /\ \E o \in Outcomes : <<d, dw.bound[d], o>> \in ended'
                     /\ sess'[d].dir = "absent" \/ sess'[d].run # dw.bound[d]
    BY <1>0, <1>4, <1>7, <2>2 DEF DependencyJustified
  <2> QED
    BY <1>0, <2>1, <2>2 DEF DependencyJustified
<1>9. \A d \in Deps : Bound(d)'
    BY <1>3, <1>6 DEF Bound
<1> QED
    BY <1>5, <1>8, <1>9

\* What wait listed stands too.
LEMMA ListStands ==
    ASSUME WaitInv, sess' \in [Deps -> SessRecs], MovesOn, cw' = cw, opts' = opts
    PROVE  Listed'
<1>0. /\ sess \in [Deps -> SessRecs] /\ cw.got \in Seq(Reports) /\ Listed /\ ended \subseteq ended'
    BY DEF WaitInv, WaitTypes, WaitRec, MovesOn
<1>1. ASSUME NEW k \in DOMAIN cw.got
      PROVE  LET g == cw.got[k]
             IN  /\ <<g.name, g.run, g.outcome>> \in ended'
                 /\ g.run <= sess'[g.name].run
                 /\ sess'[g.name].run = g.run /\ sess'[g.name].locked =>
                       g.name \in cw.warned \/ (cw.pc = "release" /\ g.name = Name)
  <2> DEFINE g == cw.got[k]
  <2>0. g \in Reports
    BY <1>0
  <2>1. g.name \in Deps /\ g.run \in Nat
    BY <2>0 DEF Reports
  <2> HIDE DEF g
  <2>2. /\ <<g.name, g.run, g.outcome>> \in ended /\ g.run <= sess[g.name].run
        /\ sess[g.name].run = g.run /\ sess[g.name].locked =>
              g.name \in cw.warned \/ (cw.pc = "release" /\ g.name = Name)
    BY <1>0 DEF Listed, g
  <2>3. sess[g.name].run \in Nat /\ sess'[g.name].run \in Nat
    BY <1>0, <2>1 DEF SessRecs
  <2>4. /\ sess'[g.name].run >= sess[g.name].run
        /\ sess'[g.name].run = sess[g.name].run /\ sess'[g.name].locked => sess[g.name].locked
    BY <2>1 DEF MovesOn
  <2>5. /\ <<g.name, g.run, g.outcome>> \in ended'
        /\ g.run <= sess'[g.name].run
        /\ sess'[g.name].run = g.run /\ sess'[g.name].locked =>
              g.name \in cw.warned \/ (cw.pc = "release" /\ g.name = Name)
    BY <1>0, <2>1, <2>2, <2>3, <2>4
  <2> QED
    BY <2>5 DEF g
<1>2. cw.pc = "done" => IF opts.any THEN Got' # {} ELSE Got' = Deps
    BY <1>0 DEF Listed, Got
<1>3. Name' = Name
    BY DEF Name
<1>4. \A j, k \in DOMAIN cw.got : cw.got[j].name = cw.got[k].name => j = k
    BY <1>0 DEF Listed
<1> QED
    BY <1>1, <1>2, <1>3, <1>4 DEF Listed

(***************************************************************************)
(* The dependency wait                                                     *)
(***************************************************************************)
\* Facts that hold as long as the sessions and the wait command stay.
LEMMA SessionsStay ==
    ASSUME WaitInv, sess' = sess, ended' = ended, cw' = cw, opts' = opts
    PROVE  sess' \in [Deps -> SessRecs] /\ MovesOn /\ (\A d \in Deps : Shown(d)') /\ Listed'
BY NoneMoves, ListStands DEF WaitInv

\* The fields of the dependent run.
LEMMA DependentTypes ==
    ASSUME dw \in DependentRecs
    PROVE  /\ dw.pc \in DependentPcs /\ dw.i \in DOMAIN After /\ dw.latched \subseteq Deps
           /\ This \in Deps /\ dw.outcome \in Fates /\ dw.bound \in [Deps -> Nat]
BY AfterTypes DEF DependentRecs, This

\* Binding one more dependency, to the run that is there.
LEMMA BindKeeps ==
    ASSUME WaitInv, Bind
    PROVE  WaitInv'
<1>0. /\ WaitTypes /\ Scanning /\ sess \in [Deps -> SessRecs] /\ dw \in DependentRecs
      /\ \A d \in Deps : Shown(d) /\ Bound(d)
      /\ dw.pc = "bind" /\ dw.outcome = "none" /\ dw.latched = {} /\ request' = request
      /\ sess' = sess /\ ended' = ended /\ opts' = opts /\ asked' = asked /\ expired' = expired /\ cw' = cw
    BY DEF WaitInv, WaitTypes, Scanning, Bind, ByDependent, sessVars
<1>1. sess' \in [Deps -> SessRecs] /\ (\A d \in Deps : Shown(d)') /\ Listed'
    BY <1>0, SessionsStay
<1>2. /\ dw.i \in DOMAIN After /\ This \in Deps /\ dw.bound \in [Deps -> Nat]
    BY <1>0, DependentTypes
<1>3. CASE sess[This].dir # "meta"
  <2>1. dw' = [dw EXCEPT !.pc = "done", !.outcome = "refused"]
    BY <1>3 DEF Bind
  <2>2. /\ dw' \in DependentRecs /\ dw'.pc = "done" /\ dw'.outcome = "refused" /\ dw'.bound = dw.bound
        /\ dw'.latched = {}
    BY <1>0, <2>1 DEF DependentRecs, DependentPcs, Fates
  <2>3. \A d \in Deps : Bound(d)'
    BY <1>0, <2>2 DEF Bound, EndIn
  <2> QED
    BY <1>0, <1>1, <2>2, <2>3 DEF WaitInv, WaitTypes, Scanning, DependencyJustified
<1>4. CASE sess[This].dir = "meta"
  <2> DEFINE b == [dw.bound EXCEPT ![This] = sess[This].run]
             j == IF dw.i = Len(After) THEN 1 ELSE dw.i + 1
  <2>1. dw' = [dw EXCEPT !.bound = b, !.i = j, !.pc = IF dw.i = Len(After) THEN "kill" ELSE "bind"]
    BY <1>0, <1>4 DEF Bind, DependentRecs
  <2>2. b \in [Deps -> Nat] /\ j \in DOMAIN After
    BY <1>0, <1>2, AfterTypes, SMTT(30) DEF SessRecs
  <2>3. /\ dw' \in DependentRecs /\ dw'.outcome = "none" /\ dw'.bound = b /\ dw'.i = j
        /\ dw'.pc = (IF dw.i = Len(After) THEN "kill" ELSE "bind") /\ dw'.latched = {}
    BY <1>0, <2>1, <2>2 DEF DependentRecs, DependentPcs
  <2>4. sess[This].run \in Nat \ {0}
    BY <1>0, <1>2 DEF SessRecs
  <2> HIDE DEF b, j
  <2>5. ASSUME NEW d \in Deps PROVE Bound(d)'
    <3>1. b[d] = IF d = This THEN sess[This].run ELSE dw.bound[d]
      BY <1>2, <1>0 DEF b
    <3>2. Bound(d) /\ Shown(d) /\ sess[d].run \in Nat
      BY <1>0 DEF SessRecs
    <3>3. CASE d = This
      <4>1. sess[d].meta = "live" \/ sess[d].meta \in Outcomes
        BY <1>0, <1>4, <3>2, <3>3 DEF SessRecs, Shown
      <4>2. EndIn(ended, d, b[d]) \/ sess[d].meta = "live"
        BY <3>1, <3>2, <3>3, <4>1 DEF Shown, EndIn
      <4> QED
        BY <1>0, <1>4, <2>3, <3>1, <3>2, <3>3, <4>2 DEF Bound
    <3>4. CASE d # This
      BY <1>0, <2>3, <3>1, <3>2, <3>4 DEF Bound
    <3> QED
      BY <3>3, <3>4
  <2>6. \A k \in DOMAIN After : k <= dw.i => b[After[k]] # 0
    <3>1. ASSUME NEW k \in DOMAIN After, k <= dw.i PROVE b[After[k]] # 0
      <4>1. After[k] \in Deps /\ k \in Nat /\ dw.i \in Nat
        BY <1>2, AfterTypes
      <4>2. CASE k = dw.i
        BY <1>2, <2>4, <4>2 DEF b, This
      <4>3. CASE k # dw.i
        BY <1>0, <1>2, <2>4, <3>1, <4>1, <4>3 DEF b, Scanning
      <4> QED
        BY <4>2, <4>3
    <3> QED
      BY <3>1
  <2>7. CASE dw.i = Len(After)
    <3>1. \A d \in Deps : b[d] # 0
      BY <2>6, <2>7, AfterTypes
    <3>2. Scanning'
      BY <1>0, <2>3, <2>7, <3>1 DEF Scanning
    <3> QED
      BY <1>0, <1>1, <2>3, <2>5, <3>2 DEF WaitInv, WaitTypes, DependencyJustified
  <2>8. CASE dw.i # Len(After)
    <3>1. \A k \in DOMAIN After : k < j => b[After[k]] # 0
      BY <1>2, <2>6, <2>8, AfterTypes DEF j
    <3>2. Scanning'
      BY <1>0, <2>3, <2>8, <3>1 DEF Scanning
    <3> QED
      BY <1>0, <1>1, <2>3, <2>5, <3>2 DEF WaitInv, WaitTypes, DependencyJustified
  <2> QED
    BY <2>7, <2>8
<1> QED
    BY <1>3, <1>4

\* A step of the dependent run that keeps its bindings keeps what the sessions showed.
LEMMA BindingsStay ==
    ASSUME WaitInv, ByDependent, dw' \in DependentRecs, dw'.bound = dw.bound,
           request' \in {"none"} \cup Requests, Scanning', DependencyJustified'
    PROVE  WaitInv'
<1>1. sess' = sess /\ ended' = ended /\ opts' = opts /\ asked' = asked /\ expired' = expired /\ cw' = cw
    BY DEF ByDependent, sessVars
<1>2. sess' \in [Deps -> SessRecs] /\ (\A d \in Deps : Shown(d)') /\ Listed'
    BY <1>1, SessionsStay
<1>3. \A d \in Deps : Bound(d)'
    BY <1>1 DEF WaitInv, Bound
<1> QED
    BY <1>1, <1>2, <1>3 DEF WaitInv, WaitTypes

\* The wait ends with an outcome: what was latched stays.
LEMMA ResolveKeeps ==
    ASSUME WaitInv, ByDependent, NEW out \in Fates, Resolve(out), dw.pc # "done",
           request' \in {"none", request},
           out = "spawn" => \A d \in Deps : \E o \in Outcomes : <<d, dw.bound[d], o>> \in ended /\ Satisfies(o),
           out = "failed" =>
               \E d \in Deps :
                  \/ \E o \in Outcomes : <<d, dw.bound[d], o>> \in ended /\ ~Satisfies(o)
                  \/ EndIn(ended, d, dw.bound[d]) /\ (sess[d].dir = "absent" \/ sess[d].run # dw.bound[d]),
           out = "timed_out" => expired,
           out \in {"kill", "kill_force"} => out \in Range(asked)
    PROVE  WaitInv'
<1>0. /\ dw \in DependentRecs /\ Scanning /\ request \in {"none"} \cup Requests
      /\ sess' = sess /\ ended' = ended /\ opts' = opts /\ asked' = asked /\ expired' = expired
    BY DEF WaitInv, WaitTypes, ByDependent, sessVars
<1>1. /\ dw' \in DependentRecs /\ dw'.bound = dw.bound /\ dw'.pc = "done" /\ dw'.outcome = out
      /\ dw'.latched = dw.latched
    BY <1>0 DEF Resolve, DependentRecs, DependentPcs
<1>2. \A o : Satisfies(o)' = Satisfies(o)
    BY <1>0 DEF Satisfies
<1>3. Scanning'
    BY <1>0, <1>1, <1>2 DEF Scanning
<1>4. DependencyJustified'
  <2>1. out = "failed" =>
            \E d \in Deps :
               \/ \E o \in Outcomes : <<d, dw.bound[d], o>> \in ended /\ ~Satisfies(o)
               \/ /\ \E o \in Outcomes : <<d, dw.bound[d], o>> \in ended
                  /\ sess[d].dir = "absent" \/ sess[d].run # dw.bound[d]
    BY DEF EndIn
  <2> QED
    BY <1>0, <1>1, <1>2, <2>1 DEF DependencyJustified
<1> QED
    BY <1>0, <1>1, <1>3, <1>4, BindingsStay

\* The scan goes on, with what is latched so far.
LEMMA ScanningOn ==
    ASSUME WaitInv, ByDependent, dw' \in DependentRecs, dw'.bound = dw.bound,
           dw.pc \notin {"bind", "done"}, dw'.pc \notin {"bind", "done"}, dw'.outcome = dw.outcome,
           \A d \in dw'.latched : \E o \in Outcomes : <<d, dw.bound[d], o>> \in ended /\ Satisfies(o),
           request' \in {"none", request}
    PROVE  WaitInv'
<1>0. /\ Scanning /\ request \in {"none"} \cup Requests /\ dw.outcome = "none"
      /\ sess' = sess /\ ended' = ended /\ opts' = opts /\ asked' = asked /\ expired' = expired
    BY DEF WaitInv, WaitTypes, ByDependent, sessVars, Scanning
<1>1. \A o : Satisfies(o)' = Satisfies(o)
    BY <1>0 DEF Satisfies
<1>2. Scanning'
    BY <1>0, <1>1 DEF Scanning
<1>3. DependencyJustified'
    BY <1>0 DEF DependencyJustified
<1> QED
    BY <1>0, <1>2, <1>3, BindingsStay

\* A kill request for this run ends the wait; any other is removed; then the deadline.
LEMMA ScanKeeps ==
    ASSUME WaitInv, ScanKill \/ ScanUnlink \/ ScanDeadline
    PROVE  WaitInv'
<1>0. /\ dw \in DependentRecs /\ Scanning /\ request \in {"none"} \cup Requests /\ ByDependent
      /\ dw.pc \in {"kill", "unlink", "deadline"} /\ dw.pc \notin {"bind", "done"}
      /\ \A d \in dw.latched : \E o \in Outcomes : <<d, dw.bound[d], o>> \in ended /\ Satisfies(o)
    BY DEF WaitInv, WaitTypes, ScanKill, ScanUnlink, ScanDeadline, Scanning
<1>1. CASE dw' = [dw EXCEPT !.pc = "deadline"] /\ request' \in {"none", request}
  <2>1. /\ dw' \in DependentRecs /\ dw'.bound = dw.bound /\ dw'.pc = "deadline"
        /\ dw'.outcome = dw.outcome /\ dw'.latched = dw.latched
    BY <1>0, <1>1 DEF DependentRecs, DependentPcs
  <2> QED
    BY <1>0, <1>1, <2>1, ScanningOn
<1>2. CASE dw' = [dw EXCEPT !.pc = "unlink"] /\ request' = request
  <2>1. /\ dw' \in DependentRecs /\ dw'.bound = dw.bound /\ dw'.pc = "unlink"
        /\ dw'.outcome = dw.outcome /\ dw'.latched = dw.latched
    BY <1>0, <1>2 DEF DependentRecs, DependentPcs
  <2> QED
    BY <1>0, <1>2, <2>1, ScanningOn
<1>3. CASE dw' = [dw EXCEPT !.pc = "scan", !.i = 1] /\ request' = request
  <2>1. /\ dw' \in DependentRecs /\ dw'.bound = dw.bound /\ dw'.pc = "scan"
        /\ dw'.outcome = dw.outcome /\ dw'.latched = dw.latched
    BY <1>0, <1>3, AfterTypes DEF DependentRecs, DependentPcs
  <2> QED
    BY <1>0, <1>3, <2>1, ScanningOn
<1>4. CASE request \notin {"none", "stale"} /\ Resolve(request) /\ request' = "none"
  <2>1. request \in Fates /\ request \in {"kill", "kill_force"} /\ request \in Range(asked)
    BY <1>0, <1>4 DEF Requests, Fates, Scanning
  <2> QED
    BY <1>0, <1>4, <2>1, ResolveKeeps
<1>5. CASE expired /\ Resolve("timed_out") /\ request' = request
    BY <1>0, <1>5, ResolveKeeps DEF Fates
<1> QED
    BY <1>1, <1>2, <1>3, <1>4, <1>5 DEF ScanKill, ScanUnlink, ScanDeadline

\* The next dependency, another poll, or all of them latched.
LEMMA ScannedKeeps ==
    ASSUME WaitInv, ByDependent, request' = request, dw.pc = "scan", NEW L \in SUBSET Deps, Scanned(L),
           \A d \in L : \E o \in Outcomes : <<d, dw.bound[d], o>> \in ended /\ Satisfies(o)
    PROVE  WaitInv'
<1>0. /\ dw \in DependentRecs /\ Scanning /\ dw.outcome = "none"
      /\ sess' = sess /\ ended' = ended /\ opts' = opts /\ asked' = asked /\ expired' = expired
    BY DEF WaitInv, WaitTypes, ByDependent, sessVars, Scanning
<1>1. CASE dw.i < Len(After)
  <2>1. dw' = [dw EXCEPT !.i = dw.i + 1, !.latched = L] /\ dw.i + 1 \in DOMAIN After
    BY <1>0, <1>1, AfterTypes DEF Scanned, DependentRecs
  <2>2. /\ dw' \in DependentRecs /\ dw'.bound = dw.bound /\ dw'.pc = "scan" /\ dw'.outcome = dw.outcome
        /\ dw'.latched = L
    BY <1>0, <2>1 DEF DependentRecs, DependentPcs
  <2> QED
    BY <2>2, ScanningOn
<1>2. CASE ~(dw.i < Len(After)) /\ L # Deps
  <2>1. dw' = [dw EXCEPT !.latched = L, !.ready = TRUE, !.pc = "kill", !.outcome = "none"]
    BY <1>0, <1>2 DEF Scanned
  <2>2. /\ dw' \in DependentRecs /\ dw'.bound = dw.bound /\ dw'.pc = "kill" /\ dw'.outcome = dw.outcome
        /\ dw'.latched = L
    BY <1>0, <2>1 DEF DependentRecs, DependentPcs
  <2> QED
    BY <2>2, ScanningOn
<1>3. CASE ~(dw.i < Len(After)) /\ L = Deps
  <2>1. dw' = [dw EXCEPT !.latched = L, !.ready = TRUE, !.pc = "done", !.outcome = "spawn"]
    BY <1>3 DEF Scanned
  <2>2. /\ dw' \in DependentRecs /\ dw'.bound = dw.bound /\ dw'.pc = "done" /\ dw'.outcome = "spawn"
        /\ dw'.latched = L
    BY <1>0, <2>1 DEF DependentRecs, DependentPcs, Fates
  <2>3. \A o : Satisfies(o)' = Satisfies(o)
    BY <1>0 DEF Satisfies
  <2>4. Scanning'
    BY <1>0, <2>2, <2>3 DEF Scanning
  <2>5. DependencyJustified'
    BY <1>0, <1>3, <2>2, <2>3 DEF DependencyJustified
  <2>6. request' \in {"none"} \cup Requests
    BY DEF WaitInv, WaitTypes
  <2> QED
    BY <2>2, <2>4, <2>5, <2>6, BindingsStay
<1> QED
    BY <1>1, <1>2, <1>3

\* One dependency is looked at.
LEMMA ScanDependencyKeeps ==
    ASSUME WaitInv, ScanDependency
    PROVE  WaitInv'
<1>0. /\ dw \in DependentRecs /\ Scanning /\ dw.pc = "scan" /\ request' = request /\ ByDependent
      /\ dw.latched \in SUBSET Deps /\ This \in Deps /\ dw.bound[This] # 0 /\ Bound(This) /\ Shown(This)
      /\ sess[This] \in SessRecs
    BY DependentTypes DEF WaitInv, WaitTypes, ScanDependency, Scanning
<1>1. \A d \in dw.latched : \E o \in Outcomes : <<d, dw.bound[d], o>> \in ended /\ Satisfies(o)
    BY <1>0 DEF Scanning
<1>2. CASE Scanned(dw.latched)
    BY <1>0, <1>1, <1>2, ScannedKeeps
<1>3. CASE (sess[This].dir # "meta" \/ sess[This].run # dw.bound[This]) /\ Resolve("failed")
  <2>1. sess[This].dir = "absent" \/ sess[This].run # dw.bound[This]
    BY <1>0, <1>3 DEF Bound, SessRecs
  <2>2. EndIn(ended, This, dw.bound[This])
    BY <1>0, <1>3 DEF Bound, Shown
  <2> QED
    BY <1>0, <1>3, <2>1, <2>2, ResolveKeeps DEF Fates
<1>4. CASE /\ sess[This].dir = "meta" /\ sess[This].run = dw.bound[This] /\ sess[This].meta # "live"
           /\ Satisfies(sess[This].meta) /\ Scanned(dw.latched \cup {This})
  <2>1. sess[This].meta \in Outcomes /\ <<This, dw.bound[This], sess[This].meta>> \in ended
    BY <1>0, <1>4 DEF Shown, SessRecs
  <2>2. /\ dw.latched \cup {This} \in SUBSET Deps
        /\ \A d \in dw.latched \cup {This} :
              \E o \in Outcomes : <<d, dw.bound[d], o>> \in ended /\ Satisfies(o)
    BY <1>0, <1>1, <1>4, <2>1
  <2> QED
    BY <1>0, <1>4, <2>2, ScannedKeeps
<1>5. CASE /\ sess[This].dir = "meta" /\ sess[This].run = dw.bound[This] /\ sess[This].meta # "live"
           /\ ~Satisfies(sess[This].meta) /\ Resolve("failed")
  <2>1. sess[This].meta \in Outcomes /\ <<This, dw.bound[This], sess[This].meta>> \in ended
    BY <1>0, <1>5 DEF Shown, SessRecs
  <2> QED
    BY <1>0, <1>5, <2>1, ResolveKeeps DEF Fates
<1> QED
    BY <1>2, <1>3, <1>4, <1>5 DEF ScanDependency

\* Commands write requests, and time passes.
LEMMA OutsideKeeps ==
    ASSUME WaitInv, (\E k \in Requests : WritesRequest(k)) \/ DeadlinePasses
    PROVE  WaitInv'
<1>0. /\ WaitTypes /\ Scanning /\ sess' = sess /\ ended' = ended /\ opts' = opts /\ dw' = dw /\ cw' = cw
      /\ \A d \in Deps : Bound(d)
    BY DEF WaitInv, WritesRequest, DeadlinePasses, sessVars
<1>1. sess' \in [Deps -> SessRecs] /\ (\A d \in Deps : Shown(d)') /\ Listed'
    BY <1>0, SessionsStay
<1>2. \A d \in Deps : Bound(d)'
    BY <1>0 DEF Bound
<1>3. \A o : Satisfies(o)' = Satisfies(o)
    BY <1>0 DEF Satisfies
<1>4. ASSUME NEW k \in Requests, WritesRequest(k) PROVE WaitInv'
  <2>1. /\ request' = k /\ asked' = Append(asked, k) /\ asked \in Seq(Requests) /\ expired' = expired
        /\ dw.pc # "done"
    BY <1>0, <1>4 DEF WritesRequest, WaitTypes
  <2>2. asked' \in Seq(Requests) /\ Range(asked) \subseteq Range(asked') /\ k \in Range(asked')
    BY <2>1 DEF Range
  <2>3. Scanning'
    BY <1>0, <1>3, <2>1, <2>2 DEF Scanning
  <2>4. DependencyJustified'
    BY <1>0, <2>1 DEF DependencyJustified, Scanning
  <2> QED
    BY <1>0, <1>1, <1>2, <2>1, <2>2, <2>3, <2>4 DEF WaitInv, WaitTypes
<1>5. CASE DeadlinePasses
  <2>1. request' = request /\ asked' = asked /\ expired' /\ dw.pc # "done"
    BY <1>5 DEF DeadlinePasses
  <2>2. Scanning' /\ DependencyJustified'
    BY <1>0, <1>3, <2>1 DEF Scanning, DependencyJustified
  <2> QED
    BY <1>0, <1>1, <1>2, <2>1, <2>2 DEF WaitInv, WaitTypes
<1> QED
    BY <1>4, <1>5

(***************************************************************************)
(* The wait command                                                        *)
(***************************************************************************)
\* A step that lists nothing, and does not leave a lock that it should wait for.
LEMMA WaitGoesOn ==
    ASSUME WaitInv, ByWait, sess' \in [Deps -> SessRecs], MovesOn, \A d \in Deps : Shown(d)',
           NEW w, cw' = w, WaitRec(w), w.got = cw.got, cw.warned \subseteq w.warned, w.pc # "release",
           cw.pc = "release" => ~sess[Name].locked \/ Name \in w.warned,
           w.pc = "done" => IF opts.any THEN Got # {} ELSE Got = Deps
    PROVE  WaitInv'
<1>0. /\ WaitTypes /\ Listed /\ cw.got \in Seq(Reports) /\ ended \subseteq ended' /\ dw' = dw /\ opts' = opts
      /\ request' = request /\ asked' = asked /\ expired' = expired /\ sess \in [Deps -> SessRecs]
    BY DEF WaitInv, WaitTypes, WaitRec, MovesOn, ByWait
<1>1. (\A d \in Deps : Bound(d)') /\ Scanning' /\ DependencyJustified'
    BY <1>0, DependentStands
<1>2. WaitTypes'
    BY <1>0 DEF WaitTypes, WaitRec
<1>3. ASSUME NEW k \in DOMAIN cw.got
      PROVE  LET g == cw.got[k]
             IN  /\ <<g.name, g.run, g.outcome>> \in ended'
                 /\ g.run <= sess'[g.name].run
                 /\ sess'[g.name].run = g.run /\ sess'[g.name].locked => g.name \in w.warned
  <2> DEFINE g == cw.got[k]
  <2>0. g \in Reports
    BY <1>0
  <2>1. g.name \in Deps /\ g.run \in Nat
    BY <2>0 DEF Reports
  <2>2. /\ <<g.name, g.run, g.outcome>> \in ended /\ g.run <= sess[g.name].run
        /\ sess[g.name].run = g.run /\ sess[g.name].locked =>
              g.name \in cw.warned \/ (cw.pc = "release" /\ g.name = Name)
    BY <1>0 DEF Listed
  <2> HIDE DEF g
  <2>3. sess[g.name].run \in Nat /\ sess'[g.name].run \in Nat
    BY <1>0, <2>1 DEF SessRecs
  <2>4. /\ sess'[g.name].run >= sess[g.name].run
        /\ sess'[g.name].run = sess[g.name].run /\ sess'[g.name].locked => sess[g.name].locked
    BY <2>1 DEF MovesOn
  <2>5. /\ <<g.name, g.run, g.outcome>> \in ended'
        /\ g.run <= sess'[g.name].run
        /\ sess'[g.name].run = g.run /\ sess'[g.name].locked => g.name \in w.warned
    BY <1>0, <2>1, <2>2, <2>3, <2>4
  <2> QED
    BY <2>5 DEF g
<1>4. Got' = Got
    BY DEF Got
<1>5. Listed'
    BY <1>0, <1>3, <1>4 DEF Listed
<1> QED
    BY <1>1, <1>2, <1>5 DEF WaitInv

\* The next session of the pass, or its end.
LEMMA NextSessionTypes ==
    ASSUME WaitTypes
    PROVE  /\ WaitRec(cw) /\ Name \in Deps /\ WaitRec(NextSession)
           /\ NextSession.got = cw.got /\ NextSession.warned = cw.warned
           /\ NextSession.pc \in {"read", "check"}
<1>1. WaitRec(cw) /\ cw.i \in DOMAIN After
    BY DEF WaitTypes, WaitRec
<1>2. CASE cw.i < Len(After)
  <2>1. NextSession = [cw EXCEPT !.i = cw.i + 1, !.pc = "read"] /\ cw.i + 1 \in DOMAIN After
    BY <1>1, <1>2, AfterTypes DEF NextSession
  <2> QED
    BY <1>1, <2>1, AfterTypes DEF WaitRec, Name
<1>3. CASE ~(cw.i < Len(After))
  <2>1. NextSession = [cw EXCEPT !.i = 1, !.pc = "check"] /\ 1 \in DOMAIN After
    BY <1>3, AfterTypes DEF NextSession
  <2> QED
    BY <1>1, <2>1, AfterTypes DEF WaitRec, Name
<1> QED
    BY <1>2, <1>3

\* The session has ended: it is listed, and its lock is waited for.
LEMMA WaitLists ==
    ASSUME WaitInv, ByWait, sess' \in [Deps -> SessRecs], MovesOn, \A d \in Deps : Shown(d)',
           cw.pc = "read", Name \notin Got, sess'[Name].run = sess[Name].run, sess'[Name].meta \in Outcomes,
           cw' = [cw EXCEPT !.pc = "release",
                            !.got = Append(@, [name |-> Name, run |-> sess[Name].run,
                                               outcome |-> sess'[Name].meta])]
    PROVE  WaitInv'
<1> DEFINE new == [name |-> Name, run |-> sess[Name].run, outcome |-> sess'[Name].meta]
<1>0. /\ WaitTypes /\ Listed /\ cw.got \in Seq(Reports) /\ ended \subseteq ended' /\ dw' = dw /\ opts' = opts
      /\ request' = request /\ asked' = asked /\ expired' = expired /\ sess \in [Deps -> SessRecs]
      /\ WaitRec(cw) /\ Name \in Deps
  <2>1. WaitTypes /\ Listed
    BY DEF WaitInv
  <2>2. WaitRec(cw) /\ Name \in Deps
    BY <2>1, NextSessionTypes
  <2> QED
    BY <2>1, <2>2 DEF WaitTypes, WaitRec, MovesOn, ByWait
<1>1. (\A d \in Deps : Bound(d)') /\ Scanning' /\ DependencyJustified'
    BY <1>0, DependentStands
<1>2. new \in Reports /\ sess[Name].run \in Nat
    BY <1>0 DEF Reports, SessRecs
<1>3. /\ WaitRec(cw') /\ cw'.pc = "release" /\ cw'.got = Append(cw.got, new) /\ cw'.warned = cw.warned
      /\ Name' = Name
  <2> HIDE DEF new
  <2>1. cw' = [cw EXCEPT !.pc = "release", !.got = Append(cw.got, new)] /\ Append(cw.got, new) \in Seq(Reports)
    BY <1>0, <1>2 DEF new
  <2>2. WaitRec(cw') /\ cw'.pc = "release" /\ cw'.got = Append(cw.got, new) /\ cw'.warned = cw.warned
    BY <1>0, <2>1 DEF WaitRec
  <2>3. cw'.i = cw.i
    BY <1>0, <2>1 DEF WaitRec
  <2> QED
    BY <2>2, <2>3 DEF Name
<1>4. WaitTypes'
    BY <1>0, <1>3 DEF WaitTypes, WaitRec
<1>5. /\ <<new.name, new.run, new.outcome>> \in ended' /\ new.run <= sess'[new.name].run
      /\ new.name = Name
    BY <1>0, <1>2 DEF Shown
<1> HIDE DEF new
<1>6. ASSUME NEW k \in DOMAIN cw'.got
      PROVE  LET g == cw'.got[k]
             IN  /\ <<g.name, g.run, g.outcome>> \in ended'
                 /\ g.run <= sess'[g.name].run
                 /\ sess'[g.name].run = g.run /\ sess'[g.name].locked =>
                       g.name \in cw.warned \/ g.name = Name
  <2>1. CASE k = Len(cw.got) + 1
    BY <1>0, <1>3, <1>5, <2>1
  <2>2. CASE k # Len(cw.got) + 1
    <3> DEFINE g == cw.got[k]
    <3>1. k \in DOMAIN cw.got /\ cw'.got[k] = g /\ g \in Reports
      BY <1>0, <1>3, <2>2, <1>6
    <3>2. g.name \in Deps /\ g.run \in Nat
      BY <3>1 DEF Reports
    <3>3. /\ <<g.name, g.run, g.outcome>> \in ended /\ g.run <= sess[g.name].run
          /\ sess[g.name].run = g.run /\ sess[g.name].locked => g.name \in cw.warned
      BY <1>0, <3>1 DEF Listed
    <3> HIDE DEF g
    <3>4. sess[g.name].run \in Nat /\ sess'[g.name].run \in Nat
      BY <1>0, <3>2 DEF SessRecs
    <3>5. /\ sess'[g.name].run >= sess[g.name].run
          /\ sess'[g.name].run = sess[g.name].run /\ sess'[g.name].locked => sess[g.name].locked
      BY <3>2 DEF MovesOn
    <3>6. /\ <<g.name, g.run, g.outcome>> \in ended' /\ g.run <= sess'[g.name].run
          /\ sess'[g.name].run = g.run /\ sess'[g.name].locked => g.name \in cw.warned
      BY <1>0, <3>2, <3>3, <3>4, <3>5
    <3> QED
      BY <3>1, <3>6
  <2> QED
    BY <2>1, <2>2
<1>7. \A j, k \in DOMAIN cw'.got : cw'.got[j].name = cw'.got[k].name => j = k
  <2>1. /\ DOMAIN cw'.got = DOMAIN cw.got \cup {Len(cw.got) + 1} /\ cw'.got[Len(cw.got) + 1] = new
        /\ \A k \in DOMAIN cw.got : cw'.got[k] = cw.got[k]
    BY <1>0, <1>3
  <2>2. \A k \in DOMAIN cw.got : cw.got[k].name # Name
    BY <1>0 DEF Got
  <2>3. \A j, k \in DOMAIN cw.got : cw.got[j].name = cw.got[k].name => j = k
    BY <1>0 DEF Listed
  <2> QED
    BY <1>5, <2>1, <2>2, <2>3
<1>8. Listed'
    BY <1>3, <1>6, <1>7 DEF Listed
<1> QED
    BY <1>1, <1>4, <1>8 DEF WaitInv

\* Every step of the wait command.
LEMMA WaitKeeps ==
    ASSUME WaitInv, WaitSteps
    PROVE  WaitInv'
<1>0. /\ WaitTypes /\ Listed /\ (\A d \in Deps : Shown(d)) /\ ByWait /\ WaitRec(cw) /\ Name \in Deps
      /\ WaitRec(NextSession) /\ NextSession.got = cw.got /\ NextSession.warned = cw.warned
      /\ NextSession.pc \in {"read", "check"}
    BY NextSessionTypes DEF WaitInv, WaitSteps, WaitOpens, WaitReads, WaitReleased, WaitGrace, WaitChecks
<1>1. ASSUME sess' = sess, ended' = ended
      PROVE  sess' \in [Deps -> SessRecs] /\ MovesOn /\ \A d \in Deps : Shown(d)'
    BY <1>0, <1>1, NoneMoves
<1>2. ASSUME NEW p \in {"error", "read"}, cw.pc \in {"open", "read", "check"}, cw' = [cw EXCEPT !.pc = p],
             sess' = sess, ended' = ended
      PROVE  WaitInv'
  <2>1. LET v == [cw EXCEPT !.pc = p]
        IN  WaitRec(v) /\ v.pc = p /\ v.got = cw.got /\ v.warned = cw.warned
    BY <1>0 DEF WaitRec
  <2> QED
    BY <1>0, <1>1, <1>2, <2>1, WaitGoesOn
<1>3. ASSUME cw' = NextSession, cw.pc = "release" => ~sess[Name].locked,
             sess' \in [Deps -> SessRecs], MovesOn, \A d \in Deps : Shown(d)'
      PROVE  WaitInv'
    BY <1>0, <1>3, WaitGoesOn
<1>4. CASE WaitOpens
    BY <1>2, <1>4 DEF WaitOpens
<1>5. CASE WaitReads
  <2>1. CASE Name \in Got \/ sess[Name].dir # "meta"
    BY <1>0, <1>1, <1>2, <1>3, <1>5, <2>1 DEF WaitReads
  <2>2. CASE ~(Name \in Got \/ sess[Name].dir # "meta")
    <3>1. /\ Reconcile(Name) /\ cw.pc = "read"
          /\ cw' = IF sess'[Name].meta \in Outcomes
                   THEN [cw EXCEPT !.pc = "release",
                            !.got = Append(@, [name |-> Name, run |-> sess[Name].run,
                                               outcome |-> sess'[Name].meta])]
                   ELSE NextSession
      BY <1>5, <2>2 DEF WaitReads
    <3>2. sess' \in [Deps -> SessRecs] /\ MovesOn /\ \A d \in Deps : Shown(d)'
      BY <1>0, <3>1, ReconcileMoves
    <3>3. sess'[Name].run = sess[Name].run
      <4>1. sess[Name].dir # "absent"
        BY <2>2
      <4> QED
        BY <1>0, <3>2, <4>1 DEF MovesOn
    <3>4. CASE sess'[Name].meta \in Outcomes
      BY <1>0, <2>2, <3>1, <3>2, <3>3, <3>4, WaitLists
    <3>5. CASE sess'[Name].meta \notin Outcomes
      BY <1>3, <3>1, <3>2, <3>5
    <3> QED
      BY <3>4, <3>5
  <2> QED
    BY <2>1, <2>2
<1>6. CASE WaitReleased
    BY <1>1, <1>3, <1>6 DEF WaitReleased
<1>7. CASE WaitGrace
  <2> DEFINE w == [NextSession EXCEPT !.warned = cw.warned \cup {Name}]
  <2>1. cw' = w /\ sess' = sess /\ ended' = ended
    BY <1>0, <1>7 DEF WaitGrace
  <2>2. WaitRec(w) /\ w.got = cw.got /\ cw.warned \subseteq w.warned /\ Name \in w.warned /\ w.pc = NextSession.pc
    BY <1>0 DEF WaitRec
  <2> HIDE DEF w
  <2> QED
    BY <1>0, <1>1, <2>1, <2>2, WaitGoesOn
<1>8. CASE WaitChecks
  <2> DEFINE done == IF opts.any THEN cw.got # <<>> ELSE Got = Deps
             code == DeriveExitCode(cw.got)
  <2>1. /\ cw.pc = "check" /\ sess' = sess /\ ended' = ended
        /\ \/ done /\ cw' = [cw EXCEPT !.pc = "done", !.code = code]
           \/ ~done /\ cw' = [cw EXCEPT !.pc = "timeout", !.code = 1]
           \/ cw' = [cw EXCEPT !.pc = "read"]
    BY <1>8 DEF WaitChecks
  <2>2. done => IF opts.any THEN Got # {} ELSE Got = Deps
    <3>1. ASSUME cw.got # <<>> PROVE Got # {}
      <4>1. 1 \in DOMAIN cw.got /\ cw.got[1] \in Reports
        BY <1>0, <3>1 DEF WaitRec
      <4>2. cw.got[1].name \in Got
        BY <4>1 DEF Reports, Got
      <4> QED
        BY <4>2
    <3> QED
      BY <3>1
  <2> HIDE DEF done, code
  <2>3. ASSUME NEW p \in {"done", "timeout"}, NEW c, cw' = [cw EXCEPT !.pc = p, !.code = c],
               p = "done" => done
        PROVE  WaitInv'
    <3>1. LET u == [cw EXCEPT !.pc = p, !.code = c]
          IN  WaitRec(u) /\ u.pc = p /\ u.got = cw.got /\ u.warned = cw.warned
      BY <1>0 DEF WaitRec
    <3>2. p # "release"
      BY <2>3
    <3> QED
      BY <1>0, <1>1, <2>1, <2>2, <2>3, <3>1, <3>2, WaitGoesOn
  <2> QED
    BY <1>2, <2>1, <2>3
<1> QED
    BY <1>4, <1>5, <1>6, <1>7, <1>8 DEF WaitSteps

(***************************************************************************)
(* The theorems about waiting                                              *)
(***************************************************************************)
\* At first nothing is bound, latched or listed, and every session is live.
LEMMA WaitInitInv == WaitInit => WaitInv
<1> SUFFICES ASSUME WaitInit PROVE WaitInv
    OBVIOUS
<1>0. 1 \in DOMAIN After /\ opts \in Scenarios
    BY AfterTypes DEF WaitInit
<1>1. ASSUME NEW d \in Deps
      PROVE  /\ sess[d] \in SessRecs /\ sess[d].dir = "meta" /\ sess[d].meta = "live" /\ sess[d].run = 1
             /\ dw.bound[d] = 0
  <2> DEFINE t == [NoDir EXCEPT !.dir = "meta", !.run = 1]
             s == [t EXCEPT !.meta = "live", !.locked = TRUE]
  <2>1. NoDir \in [dir : {"absent"}, run : {0}, meta : {"none"}, logged : {"none"}, locked : BOOLEAN]
    BY DEF NoDir
  <2>2. t \in [dir : {"meta"}, run : {1}, meta : {"none"}, logged : {"none"}, locked : BOOLEAN]
    BY <2>1
  <2> HIDE DEF t
  <2>3. s \in [dir : {"meta"}, run : {1}, meta : {"live"}, logged : {"none"}, locked : BOOLEAN]
    BY <2>2
  <2> HIDE DEF s
  <2>4. sess[d] = s /\ dw.bound = [e \in Deps |-> 0]
    BY DEF WaitInit, s, t
  <2> QED
    BY <2>3, <2>4 DEF SessRecs
<1>2. WaitTypes
  <2>1. sess \in [Deps -> SessRecs]
    BY <1>1 DEF WaitInit
  <2>2. dw \in DependentRecs
    BY <1>0 DEF WaitInit, DependentRecs, DependentPcs, Fates
  <2>3. WaitRec(cw)
    BY <1>0 DEF WaitInit, WaitRec
  <2> QED
    BY <2>1, <2>2, <2>3 DEF WaitTypes, WaitInit, Requests
<1>3. \A d \in Deps : Shown(d) /\ Bound(d)
    BY <1>1 DEF Shown, Bound, Outcomes, Ends
<1>4. Scanning
    BY AfterTypes DEF WaitInit, Scanning
<1>5. DependencyJustified /\ Listed
    BY DEF WaitInit, DependencyJustified, Listed
<1> QED
    BY <1>2, <1>3, <1>4, <1>5 DEF WaitInv

\* Every step keeps the invariant.
LEMMA WaitStep == WaitInv /\ [WaitNext]_waitVars => WaitInv'
<1> SUFFICES ASSUME WaitInv, [WaitNext]_waitVars PROVE WaitInv'
    OBVIOUS
<1>0. WaitTypes /\ \A d \in Deps : Shown(d)
    BY DEF WaitInv
<1>1. ASSUME sess' \in [Deps -> SessRecs], MovesOn, \A d \in Deps : Shown(d)', ByOthers PROVE WaitInv'
  <2>1. /\ opts' = opts /\ dw' = dw /\ request' = request /\ asked' = asked /\ expired' = expired /\ cw' = cw
    BY <1>1 DEF ByOthers
  <2>2. (\A d \in Deps : Bound(d)') /\ Scanning' /\ DependencyJustified' /\ Listed'
    BY <1>1, <2>1, DependentStands, ListStands
  <2> QED
    BY <1>0, <1>1, <2>1, <2>2 DEF WaitInv, WaitTypes, WaitRec
<1>2. ASSUME NEW d \in Deps, Sessions(d) PROVE WaitInv'
  <2>1. ByOthers
    BY <1>2 DEF Sessions, LogsEnd, WritesEnd, Releases, Dies, Reconciled, Removed, Created, WritesStart
  <2> QED
    BY <1>0, <1>1, <1>2, <2>1, SessionsMove
<1>3. CASE UNCHANGED waitVars
    BY <1>0, <1>1, <1>3, NoneMoves DEF waitVars, sessVars, ByOthers
<1>4. CASE DependentSteps
    BY <1>4, BindKeeps, ScanKeeps, ScanDependencyKeeps DEF DependentSteps
<1> QED
    BY <1>2, <1>3, <1>4, OutsideKeeps, WaitKeeps DEF WaitNext

\* The dependent run's fate follows from the runs it was bound to, whatever happens to
\* the sessions during the scans (start.rs, sidecar.rs scan_iteration).
THEOREM DependencyJustifiedHolds == WaitSpec => []DependencyJustified
<1>1. WaitInv => DependencyJustified
    BY DEF WaitInv
<1> QED
    BY <1>1, WaitInitInv, WaitStep, PTL DEF WaitSpec

(***************************************************************************)
(* Waiting: the exit code                                                  *)
(***************************************************************************)
\* The outcomes in the records of the first n sessions of the request.
OutcomesTo(got, n) ==
    {ReportOf(got, After[k]).outcome : k \in {j \in 1..n : After[j] \in ReportedIn(got)}}

\* A code that some outcomes may give: that of one of them such that none is graver.
Gravest(code, S) ==
    \/ code = 0 /\ \A p \in S : ExitCode[p] = 0
    \/ \E o \in S : /\ code = ExitCode[o] /\ code # 0
                    /\ \A p \in S : Severity(ExitCode[p]) <= Severity(code)

\* The codes after each of the first sessions.
Codes(f, got) ==
    f = [n \in 0..Len(After) |->
            IF n = 0 THEN 0
            ELSE IF After[n] \in ReportedIn(got)
                 THEN Worse(f[n - 1], ReportOf(got, After[n]).outcome)
                 ELSE f[n - 1]]
AllCodes == {0, 2, 3, 4, 5, 42, 124, 137}

\* severity ranks the codes as the outcomes are ranked.
LEMMA CodeOf ==
    ASSUME NEW o \in Outcomes
    PROVE  /\ ExitCode[o] \in AllCodes /\ Severity(ExitCode[o]) = Gravity[o] /\ Gravity[o] \in Nat
           /\ Gravity[o] = 0 <=> ExitCode[o] = 0
<1>1. o \in {"ok", "killed", "error", "sidecar_failed", "spawn_failed", "dep_failed",
             "dep_timed_out", "dep_killed", "lost"}
    BY DEF Outcomes, Ends
<1> QED
    BY <1>1 DEF ExitCode, Severity, Gravity, AllCodes

LEMMA WorseIs ==
    ASSUME NEW S, S \subseteq Outcomes, NEW o \in Outcomes, NEW code \in AllCodes, Gravest(code, S)
    PROVE  Worse(code, o) \in AllCodes /\ Gravest(Worse(code, o), S \cup {o})
<1>1. /\ ExitCode[o] \in AllCodes /\ Severity(ExitCode[o]) \in Nat
      /\ Severity(ExitCode[o]) = 0 <=> ExitCode[o] = 0
    BY CodeOf
<1>2. \A p \in S : /\ Severity(ExitCode[p]) \in Nat /\ ExitCode[p] \in AllCodes
                   /\ Severity(ExitCode[p]) = 0 <=> ExitCode[p] = 0
  <2>1. ASSUME NEW p \in S
        PROVE  /\ Severity(ExitCode[p]) \in Nat /\ ExitCode[p] \in AllCodes
               /\ Severity(ExitCode[p]) = 0 <=> ExitCode[p] = 0
    BY <2>1, CodeOf
  <2> QED
    BY <2>1
<1>3. Severity(code) \in Nat
    BY <1>2 DEF AllCodes, Severity
<1>4. CASE ExitCode[o] # 0 /\ (code = 0 \/ Severity(ExitCode[o]) > Severity(code))
  <2>1. Worse(code, o) = ExitCode[o]
    BY <1>4 DEF Worse
  <2>2. \A p \in S : Severity(ExitCode[p]) <= Severity(ExitCode[o])
    BY <1>1, <1>2, <1>3, <1>4 DEF Gravest
  <2> QED
    BY <1>1, <1>4, <2>1, <2>2 DEF Gravest
<1>5. CASE ~(ExitCode[o] # 0 /\ (code = 0 \/ Severity(ExitCode[o]) > Severity(code)))
  <2>1. Worse(code, o) = code
    BY <1>5 DEF Worse
  <2>2. CASE code = 0
    <3>1. ExitCode[o] = 0
      BY <1>5, <2>2
    <3>2. \A p \in S : ExitCode[p] = 0
      BY <2>2 DEF Gravest
    <3> QED
      BY <2>1, <2>2, <3>1, <3>2 DEF Gravest
  <2>3. CASE code # 0
    <3>1. PICK q \in S : code = ExitCode[q] /\ \A p \in S : Severity(ExitCode[p]) <= Severity(code)
      BY <2>3 DEF Gravest
    <3>2. Severity(ExitCode[o]) <= Severity(code)
      BY <1>1, <1>3, <1>5, <2>3
    <3> QED
      BY <2>1, <2>3, <3>1, <3>2 DEF Gravest
  <2> QED
    BY <2>2, <2>3
<1> QED
    BY <1>4, <1>5

LEMMA ReportedIs ==
    ASSUME NEW got \in Seq(Reports), NEW d \in ReportedIn(got)
    PROVE  /\ ReportOf(got, d).outcome \in Outcomes
           /\ \E k \in DOMAIN got : got[k] = ReportOf(got, d) /\ got[k].name = d
<1>1. PICK k \in DOMAIN got : got[k].name = d
    BY DEF ReportedIn
<1>2. \E g \in Range(got) : g.name = d
    BY <1>1 DEF Range
<1>3. ReportOf(got, d) \in Range(got) /\ ReportOf(got, d).name = d
    BY <1>2 DEF ReportOf
<1>4. PICK j \in DOMAIN got : got[j] = ReportOf(got, d)
    BY <1>3 DEF Range
<1>5. got[j] \in Reports
    BY <1>4
<1> QED
    BY <1>3, <1>4, <1>5 DEF Reports

LEMMA CodesAre ==
    ASSUME NEW got \in Seq(Reports), NEW f, Codes(f, got)
    PROVE  Gravest(f[Len(After)], OutcomesTo(got, Len(After)))
<1> DEFINE T == {n \in Nat : n <= Len(After) => f[n] \in AllCodes /\ Gravest(f[n], OutcomesTo(got, n))}
<1>0. Len(After) \in Nat /\ DOMAIN After = 1..Len(After)
    BY AfterTypes
<1>1. 0 \in T
  <2>1. OutcomesTo(got, 0) = {}
    BY DEF OutcomesTo
  <2>2. f[0] = 0
    BY <1>0 DEF Codes
  <2> QED
    BY <2>1, <2>2 DEF Gravest, AllCodes
<1>2. ASSUME NEW n \in Nat, n \in T
      PROVE  n + 1 \in T
  <2>1. SUFFICES ASSUME n + 1 <= Len(After)
                 PROVE  f[n + 1] \in AllCodes /\ Gravest(f[n + 1], OutcomesTo(got, n + 1))
    OBVIOUS
  <2> DEFINE d == After[n + 1]
  <2>2. f[n + 1] = IF d \in ReportedIn(got) THEN Worse(f[n], ReportOf(got, d).outcome) ELSE f[n]
    <3>1. n + 1 \in 0..Len(After) /\ n + 1 # 0 /\ (n + 1) - 1 = n
      BY <1>0, <2>1
    <3> QED
      BY <3>1 DEF Codes
  <2>3. f[n] \in AllCodes /\ Gravest(f[n], OutcomesTo(got, n))
    BY <1>0, <1>2, <2>1
  <2>4. 1..(n + 1) = (1..n) \cup {n + 1}
    OBVIOUS
  <2>5. CASE d \in ReportedIn(got)
    <3>1. PICK o \in Outcomes : o = ReportOf(got, d).outcome
      BY <2>5, ReportedIs
    <3>2. OutcomesTo(got, n + 1) = OutcomesTo(got, n) \cup {o}
      BY <2>4, <2>5, <3>1 DEF OutcomesTo
    <3>3. OutcomesTo(got, n) \subseteq Outcomes
      <4>1. ASSUME NEW k \in 1..n, After[k] \in ReportedIn(got)
            PROVE  ReportOf(got, After[k]).outcome \in Outcomes
        BY <4>1, ReportedIs
      <4> QED
        BY <4>1 DEF OutcomesTo
    <3>4. f[n + 1] = Worse(f[n], o)
      BY <2>2, <2>5, <3>1
    <3> QED
      BY <2>3, <3>2, <3>3, <3>4, WorseIs
  <2>6. CASE d \notin ReportedIn(got)
    <3>1. OutcomesTo(got, n + 1) = OutcomesTo(got, n)
      BY <2>4, <2>6 DEF OutcomesTo
    <3> QED
      BY <2>2, <2>3, <2>6, <3>1
  <2> QED
    BY <2>5, <2>6
<1> HIDE DEF T
<1>3. Len(After) \in T
    BY <1>0, <1>1, <1>2, NatSetInduction
<1> QED
    BY <1>0, <1>3 DEF T

LEMMA CodesExist ==
    ASSUME NEW got \in Seq(Reports)
    PROVE  \E f : Codes(f, got)
<1> DEFINE CodeAfter(u, n) == IF After[n] \in ReportedIn(got) THEN Worse(u, ReportOf(got, After[n]).outcome)
                         ELSE u
           F == [p \in Nat \X AllCodes |-> CodeAfter(p[2], p[1])]
<1>1. ASSUME NEW n \in Nat, NEW u \in AllCodes
      PROVE  F[<<n, u>>] \in AllCodes
  <2>1. CASE After[n] \in ReportedIn(got)
    <3>1. ReportOf(got, After[n]).outcome \in Outcomes
      BY <2>1, ReportedIs
    <3>2. ExitCode[ReportOf(got, After[n]).outcome] \in AllCodes
      BY <3>1, CodeOf
    <3> QED
      BY <2>1, <3>2 DEF Worse
  <2>2. CASE After[n] \notin ReportedIn(got)
    BY <2>2
  <2> QED
    BY <2>1, <2>2
<1>2. \A n \in Nat, u \in AllCodes : F[<<n, u>>] = CodeAfter(u, n)
    OBVIOUS
<1>3. 0 \in AllCodes /\ Len(After) \in Nat
    BY AfterTypes DEF AllCodes
<1> HIDE DEF F, CodeAfter
<1>4. PICK f \in [0..Len(After) -> AllCodes] : Computes(f, F, 0, Len(After))
    BY <1>1, <1>3, Recursion
<1>5. ASSUME NEW n \in 0..Len(After), n # 0
      PROVE  F[<<n, f[n - 1]>>] = CodeAfter(f[n - 1], n)
  <2>1. n \in Nat /\ n \in 1..Len(After) /\ n - 1 \in 0..Len(After)
    BY <1>3, <1>5
  <2> QED
    BY <1>2, <1>4, <2>1
<1>6. f = [n \in 0..Len(After) |-> IF n = 0 THEN 0 ELSE CodeAfter(f[n - 1], n)]
    BY <1>4, <1>5 DEF Computes
<1> QED
    BY <1>6 DEF Codes, CodeAfter

\* derive_exit_code, session after session, gives the code of one of the gravest ends.
LEMMA DeriveExitCodeIs ==
    ASSUME NEW got \in Seq(Reports)
    PROVE  Gravest(DeriveExitCode(got), OutcomesTo(got, Len(After)))
<1>1. DeriveExitCode(got) = (CHOOSE f : Codes(f, got))[Len(After)]
    BY DEF DeriveExitCode, Codes
<1>2. Codes(CHOOSE f : Codes(f, got), got)
    BY CodesExist
<1> QED
    BY <1>1, <1>2, CodesAre

\* What wait exits with is computed from its list once it is complete.
Coded == cw.pc = "done" => cw.code = DeriveExitCode(cw.got)

LEMMA WaitCodes == WaitInv /\ Coded /\ [WaitNext]_waitVars => Coded'
<1> SUFFICES ASSUME WaitInv, Coded, [WaitNext]_waitVars, cw'.pc = "done"
             PROVE  cw'.code = DeriveExitCode(cw'.got)
    BY DEF Coded
<1>0. WaitRec(cw)
    BY DEF WaitInv, WaitTypes
<1>1. CASE cw' = cw
    BY <1>1 DEF Coded
<1>2. ASSUME WaitOpens \/ WaitReads \/ WaitReleased \/ WaitGrace
      PROVE  FALSE
    BY <1>0, <1>2 DEF WaitOpens, WaitReads, WaitReleased, WaitGrace, WaitRec, NextSession
<1>3. CASE WaitChecks
    BY <1>0, <1>3 DEF WaitChecks, WaitRec
<1>4. \/ cw' = cw \/ WaitSteps
  <2>1. ASSUME NEW d \in Deps, Sessions(d) PROVE cw' = cw
    BY <2>1 DEF Sessions, LogsEnd, WritesEnd, Releases, Dies, Reconciled, Removed, Created, WritesStart,
        ByOthers
  <2>2. CASE DependentSteps
    BY <2>2 DEF DependentSteps, Bind, ScanKill, ScanUnlink, ScanDeadline, ScanDependency, ByDependent
  <2>3. ASSUME NEW k \in Requests, WritesRequest(k) PROVE cw' = cw
    BY <2>3 DEF WritesRequest
  <2> QED
    BY <2>1, <2>2, <2>3 DEF WaitNext, DeadlinePasses, waitVars
<1> QED
    BY <1>1, <1>2, <1>3, <1>4 DEF WaitSteps

\* When wait is done, each run it lists ended that way and has let go of its session
\* unless wait warned; without --any nothing is missing; and the exit code is that of an
\* end in the list such that none in it is graver (wait.rs, derive_exit_code).
THEOREM WaitHonestHolds == WaitSpec => []WaitHonest
<1>1. WaitInv /\ Coded => WaitHonest
  <2> SUFFICES ASSUME WaitInv, Coded, cw.pc = "done" PROVE WaitHonest
    BY DEF WaitHonest
  <2> DEFINE S == OutcomesTo(cw.got, Len(After))
  <2>1. /\ cw.got \in Seq(Reports) /\ Len(After) \in Nat /\ DOMAIN After = 1..Len(After)
        /\ Deps = {After[k] : k \in DOMAIN After} /\ 1 \in DOMAIN After
        /\ \A j, k \in DOMAIN cw.got : cw.got[j].name = cw.got[k].name => j = k
    BY AfterTypes DEF WaitInv, WaitTypes, WaitRec, Listed, Deps, Range
  <2>2. Gravest(cw.code, S)
    BY <2>1, DeriveExitCodeIs DEF Coded
  <2>3. WaitReports
    BY DEF WaitInv, Listed, WaitReports
  <2>4. ASSUME NEW k \in DOMAIN cw.got
        PROVE  cw.got[k].outcome \in S /\ cw.got[k].outcome \in Outcomes
    <3>1. cw.got[k] \in Reports
      BY <2>1
    <3>2. cw.got[k].name \in ReportedIn(cw.got) /\ cw.got[k].name \in Deps
      BY <3>1 DEF ReportedIn, Reports
    <3>3. PICK j \in 1..Len(After) : After[j] = cw.got[k].name
      BY <2>1, <3>2
    <3>4. ReportOf(cw.got, cw.got[k].name) = cw.got[k]
      BY <2>1, <3>2, ReportedIs
    <3> QED
      BY <3>1, <3>2, <3>3, <3>4 DEF OutcomesTo, Reports
  <2>5. ASSUME NEW o \in S
        PROVE  \E k \in DOMAIN cw.got : cw.got[k].outcome = o
    <3>1. PICK j \in 1..Len(After) : After[j] \in ReportedIn(cw.got) /\ o = ReportOf(cw.got, After[j]).outcome
      BY DEF OutcomesTo
    <3> QED
      BY <2>1, <3>1, ReportedIs
  <2>6. \E k \in DOMAIN cw.got : TRUE
    <3>1. Got # {}
      BY <2>1 DEF WaitInv, Listed
    <3> QED
      BY <3>1 DEF Got
  <2> HIDE DEF S
  <2>7. \A k \in DOMAIN cw.got :
           /\ Severity(ExitCode[cw.got[k].outcome]) = Gravity[cw.got[k].outcome]
           /\ Gravity[cw.got[k].outcome] \in Nat
           /\ Gravity[cw.got[k].outcome] = 0 <=> ExitCode[cw.got[k].outcome] = 0
    BY <2>4, CodeOf
  <2>8. \E k \in DOMAIN cw.got :
           /\ cw.code = ExitCode[cw.got[k].outcome]
           /\ \A j \in DOMAIN cw.got : Gravity[cw.got[j].outcome] <= Gravity[cw.got[k].outcome]
    <3>1. CASE cw.code = 0 /\ \A p \in S : ExitCode[p] = 0
      <4>1. \A k \in DOMAIN cw.got : ExitCode[cw.got[k].outcome] = 0 /\ Gravity[cw.got[k].outcome] = 0
        BY <2>4, <2>7, <3>1
      <4> QED
        BY <2>6, <3>1, <4>1
    <3>2. CASE \E o \in S : /\ cw.code = ExitCode[o]
                            /\ \A p \in S : Severity(ExitCode[p]) <= Severity(cw.code)
      <4>1. PICK o \in S : /\ cw.code = ExitCode[o]
                           /\ \A p \in S : Severity(ExitCode[p]) <= Severity(cw.code)
        BY <3>2
      <4>2. PICK k \in DOMAIN cw.got : cw.got[k].outcome = o
        BY <2>5
      <4> QED
        BY <2>4, <2>7, <4>1, <4>2
    <3> QED
      BY <2>2, <3>1, <3>2 DEF Gravest
  <2> QED
    BY <2>3, <2>8 DEF WaitHonest
<1>2. WaitInit => Coded
    BY DEF WaitInit, Coded
<1> QED
    BY <1>1, <1>2, WaitInitInv, WaitStep, WaitCodes, PTL DEF WaitSpec

(***************************************************************************)
(* Exec: the inductive invariant                                           *)
(***************************************************************************)
Whats == {"out", "err", "marker", "sentinel"}
Lines == [exec : Execs, what : Whats]
LogLines == [tag : {"O", "E", "A"}, exec : Execs, what : Whats \cup {"exec"}]
Before == {"idle", "frame", "connect"}
Keeping == {"wait", "trail", "seek", "drain", "side", "drainside"}

ClientRec(x) ==
    x \in [pc : Before \cup Keeping \cup {"finish", "exited"}, cursor : Nat, pos : Nat, out : {x.out},
           err : {x.err}, sentinel : BOOLEAN, marked : BOOLEAN, timedOut : BOOLEAN, code : {x.code}]

ExecTypes ==
    /\ plan \in Plans
    /\ session \in [running : BOOLEAN, shell : BOOLEAN]
    /\ typed \in Seq(Execs) /\ step \in Nat /\ step < Len(Frame)
    /\ pipes \in [{"O", "E"} -> Seq(Lines)]
    /\ outlog \in Seq(LogLines) /\ results \subseteq Execs
    /\ execLock \in Execs \cup {0}
    /\ DOMAIN ex = Execs /\ ex = [e \in Execs |-> ex[e]] /\ \A e \in Execs : ClientRec(ex[e])
    /\ blame \in [died : BOOLEAN, timed : BOOLEAN, graced : BOOLEAN]

\* A frame is with the shell once, and only the client that holds the lock may leave it.
Locked ==
    /\ \A e \in Execs : ex[e].pc \notin {"idle", "exited"} => execLock = e
    /\ \A i, j \in DOMAIN typed : typed[i] = typed[j] => i = j
    /\ ~blame.died /\ session.shell => \A i \in DOMAIN typed : ex[typed[i]].pc \in Keeping
    /\ session.running \/ ~session.shell

\* Nothing tells that e's command is over.
IsSentinel(e, l) == l.exec = e /\ l.what = "sentinel"
NotOver(e) ==
    /\ \A i \in DOMAIN outlog : ~IsSentinel(e, outlog[i])
    /\ \A tag \in {"O", "E"} : \A i \in DOMAIN pipes[tag] : ~IsSentinel(e, pipes[tag][i])
    /\ e \notin results /\ ~ex[e].sentinel

\* And nothing does before it is typed and while it is with the shell.
Told ==
    \A e \in Execs :
        /\ ex[e].pc \in Before => NotOver(e) /\ \A i \in DOMAIN typed : typed[i] # e
        /\ \A i \in DOMAIN typed : typed[i] = e => NotOver(e)
        /\ ex[e].pc = "trail" => ex[e].timedOut \/ ex[e].sentinel

ShellInv == ExecTypes /\ Locked /\ Told /\ ShellNotShared

(***************************************************************************)
(* Frames and clients                                                      *)
(***************************************************************************)
\* A frame's last line is what tells that the command is over.
LEMMA FrameLines ==
    ASSUME plan \in Plans
    PROVE  /\ Len(Frame) \in Nat /\ Len(Frame) >= 1
           /\ \A n \in 1..Len(Frame) :
                 /\ Frame[n][1] \in {"O", "E", "R"} /\ (Frame[n][1] # "R" => Frame[n][2] \in Whats)
                 /\ Frame[n][1] = "R" \/ Frame[n][2] = "sentinel" => n = Len(Frame)
<1>1. CASE target = "PosixShell"
  <2>1. Frame = <<<<"O", "out">>, <<"E", "err">>, <<"E", "marker">>, <<"O", "sentinel">>>>
    BY <1>1 DEF Frame
  <2> QED
    BY <2>1 DEF Whats
<1>2. CASE target = "DuckDb"
  <2>1. Frame = <<<<"O", "out">>, <<"E", "err">>, <<"O", "sentinel">>>>
    BY <1>2 DEF Frame
  <2> QED
    BY <2>1 DEF Whats
<1>3. CASE target \notin {"PosixShell", "DuckDb"}
  <2>1. Frame = <<<<"R", "result">>>>
    BY <1>3 DEF Frame
  <2> QED
    BY <2>1 DEF Whats
<1> QED
    BY <1>1, <1>2, <1>3

\* Setting one client's record.
LEMMA OneClient ==
    ASSUME ExecTypes, NEW e \in Execs, NEW x, ClientRec(x), ExSet(e, x)
    PROVE  /\ DOMAIN ex' = Execs /\ ex' = [c \in Execs |-> ex'[c]] /\ \A c \in Execs : ClientRec(ex'[c])
           /\ ex'[e] = x /\ \A c \in Execs : c # e => ex'[c] = ex[c]
BY DEF ExecTypes, ExSet

\* A step of one client that types nothing: it takes the lock before it goes on, does not
\* leave a command that is with the shell, and adds nothing that tells of an end.
LEMMA ClientMoves ==
    ASSUME ShellInv, NEW e \in Execs, NEW x, ClientRec(x), ExSet(e, x),
           UNCHANGED <<plan, session, typed, step, pipes>>, results' \subseteq results,
           outlog' \in Seq(LogLines),
           \A i \in DOMAIN outlog' :
              outlog'[i].what = "sentinel" => i \in DOMAIN outlog /\ outlog'[i] = outlog[i],
           blame' \in [died : BOOLEAN, timed : BOOLEAN, graced : BOOLEAN], blame.died => blame'.died,
           execLock' \in Execs \cup {0}, \A c \in Execs : c # e /\ execLock = c => execLock' = c,
           x.pc \notin {"idle", "exited"} => execLock' = e,
           x.pc \in Before => ex[e].pc \in Before /\ ~x.sentinel,
           x.sentinel => ex[e].sentinel \/ \A i \in DOMAIN typed : typed[i] # e,
           (\E i \in DOMAIN typed : typed[i] = e) => blame'.died \/ ~session.shell \/ x.pc \in Keeping,
           x.pc = "trail" => x.timedOut \/ x.sentinel
    PROVE  ShellInv'
<1>0. ExecTypes /\ Locked /\ Told /\ ShellNotShared /\ typed \in Seq(Execs)
    BY DEF ShellInv, ExecTypes
<1>1. /\ DOMAIN ex' = Execs /\ ex' = [c \in Execs |-> ex'[c]] /\ \A c \in Execs : ClientRec(ex'[c])
      /\ ex'[e] = x /\ \A c \in Execs : c # e => ex'[c] = ex[c]
    BY <1>0, OneClient
<1>2. ExecTypes'
  <2>1. Frame' = Frame
    BY DEF Frame, target
  <2> QED
    BY <1>0, <1>1, <2>1 DEF ExecTypes
<1>3. \A i \in DOMAIN typed : typed[i] \in Execs
    BY <1>0
<1>4. Locked'
  <2>1. \A c \in Execs : ex'[c].pc \notin {"idle", "exited"} => execLock' = c
    BY <1>0, <1>1 DEF Locked
  <2>2. ~blame'.died /\ session'.shell => \A i \in DOMAIN typed' : ex'[typed'[i]].pc \in Keeping
    BY <1>0, <1>1, <1>3 DEF Locked
  <2> QED
    BY <1>0, <2>1, <2>2 DEF Locked
<1>5. ASSUME NEW c \in Execs, NotOver(c), ex'[c].sentinel => ex[c].sentinel PROVE NotOver(c)'
    BY <1>5 DEF NotOver, IsSentinel
<1>6. Told'
  <2>1. ASSUME NEW c \in Execs
        PROVE  /\ ex'[c].pc \in Before => NotOver(c)' /\ \A i \in DOMAIN typed' : typed'[i] # c
               /\ \A i \in DOMAIN typed' : typed'[i] = c => NotOver(c)'
               /\ ex'[c].pc = "trail" => ex'[c].timedOut \/ ex'[c].sentinel
    <3>1. CASE c # e
      BY <1>0, <1>1, <1>5, <3>1 DEF Told
    <3>2. CASE c = e
      <4>1. x.pc \in Before => NotOver(e)' /\ \A i \in DOMAIN typed' : typed'[i] # e
        BY <1>0, <1>1, <1>5 DEF Told
      <4>2. \A i \in DOMAIN typed' : typed'[i] = e => NotOver(e)'
        BY <1>0, <1>1, <1>5 DEF Told
      <4> QED
        BY <1>1, <3>2, <4>1, <4>2
    <3> QED
      BY <3>1, <3>2
  <2> QED
    BY <2>1 DEF Told
<1>7. ShellNotShared'
    BY <1>0 DEF ShellNotShared
<1> QED
    BY <1>2, <1>4, <1>6, <1>7 DEF ShellInv

\* A client's record with one or two fields set.
LEMMA ClientFields ==
    ASSUME ExecTypes, NEW e \in Execs
    PROVE  /\ ClientRec(ex[e])
           /\ \A p \in Before \cup Keeping \cup {"finish", "exited"} :
                 LET x == [ex[e] EXCEPT !.pc = p]
                 IN  ClientRec(x) /\ x.pc = p /\ x.sentinel = ex[e].sentinel /\ x.timedOut = ex[e].timedOut
           /\ \A code :
                 LET x == [ex[e] EXCEPT !.pc = "exited", !.code = code, !.cursor = 0, !.pos = 0]
                 IN  ClientRec(x) /\ x.pc = "exited" /\ x.sentinel = ex[e].sentinel
<1>1. ClientRec(ex[e])
    BY DEF ExecTypes
<1>2. ASSUME NEW p \in Before \cup Keeping \cup {"finish", "exited"}
      PROVE  LET x == [ex[e] EXCEPT !.pc = p]
             IN  ClientRec(x) /\ x.pc = p /\ x.sentinel = ex[e].sentinel /\ x.timedOut = ex[e].timedOut
    BY <1>1 DEF ClientRec
<1>3. ASSUME NEW code
      PROVE  LET x == [ex[e] EXCEPT !.pc = "exited", !.code = code, !.cursor = 0, !.pos = 0]
             IN  ClientRec(x) /\ x.pc = "exited" /\ x.sentinel = ex[e].sentinel
  <2> DEFINE y == [ex[e] EXCEPT !.pc = "exited", !.code = code]
             x == [y EXCEPT !.cursor = 0, !.pos = 0]
  <2>1. ClientRec(y) /\ y.pc = "exited" /\ y.sentinel = ex[e].sentinel
    BY <1>1 DEF ClientRec
  <2> HIDE DEF y
  <2>2. ClientRec(x) /\ x.pc = "exited" /\ x.sentinel = y.sentinel
    BY <2>1 DEF ClientRec
  <2> QED
    BY <2>1, <2>2 DEF y
<1> QED
    BY <1>1, <1>2, <1>3

\* The process ends: not while its command is with a shell, unless it is killed.
LEMMA ClientLeaves ==
    ASSUME ShellInv, NEW e \in Execs, NEW code, ExLeaves(e, code),
           UNCHANGED <<plan, session, typed, step, pipes, results>>, outlog' \in Seq(LogLines),
           \A i \in DOMAIN outlog' :
              outlog'[i].what = "sentinel" => i \in DOMAIN outlog /\ outlog'[i] = outlog[i],
           blame' \in [died : BOOLEAN, timed : BOOLEAN, graced : BOOLEAN], blame.died => blame'.died,
           (\E i \in DOMAIN typed : typed[i] = e) => blame'.died \/ ~session.shell
    PROVE  ShellInv'
<1> DEFINE x == [ex[e] EXCEPT !.pc = "exited", !.code = code, !.cursor = 0, !.pos = 0]
<1>0. ExecTypes /\ execLock \in Execs \cup {0} /\ 0 \notin Execs
    BY ExecAssumption DEF ShellInv, ExecTypes
<1>1. ClientRec(x) /\ x.pc = "exited" /\ x.sentinel = ex[e].sentinel
    BY <1>0, ClientFields
<1>2. ExSet(e, x) /\ execLock' = IF execLock = e THEN 0 ELSE execLock
    BY DEF ExLeaves
<1> HIDE DEF x
<1>3. x.pc \notin Before /\ x.pc # "trail"
    BY <1>1 DEF Before
<1> QED
    BY <1>0, <1>1, <1>2, <1>3, ClientMoves

\* A client that waits for its command goes on, and is through with it only if something
\* tells that it is over, or the session ended.
CommandOver(e) == ex[e].sentinel \/ e \in results \/ \E i \in DOMAIN outlog : IsSentinel(e, outlog[i])

LEMMA ClientGoesOn ==
    ASSUME ShellInv, NEW e \in Execs, NEW x, ClientRec(x), ExSet(e, x), ex[e].pc \in Keeping,
           x.pc \in Keeping \cup {"finish"},
           UNCHANGED <<plan, session, typed, step, pipes, outlog, execLock>>, results' \subseteq results,
           blame' \in [died : BOOLEAN, timed : BOOLEAN, graced : BOOLEAN], blame.died => blame'.died,
           x.sentinel => CommandOver(e),
           x.pc = "finish" => CommandOver(e) \/ ~session.running,
           x.pc = "trail" => x.timedOut \/ x.sentinel
    PROVE  ShellInv'
<1>0. ExecTypes /\ Locked /\ Told /\ ex[e].pc \notin {"idle", "exited"} /\ x.pc \notin Before
    BY DEF ShellInv, Keeping, Before
<1>1. execLock' = e /\ execLock' \in Execs \cup {0} /\ outlog' = outlog /\ outlog' \in Seq(LogLines)
    BY <1>0 DEF Locked, ExecTypes
<1>2. CommandOver(e) => \A i \in DOMAIN typed : typed[i] # e
    BY <1>0 DEF Told, NotOver, CommandOver
<1>3. session.running \/ ~session.shell
    BY <1>0 DEF Locked
<1>4. (\E i \in DOMAIN typed : typed[i] = e) => blame'.died \/ ~session.shell \/ x.pc \in Keeping
    BY <1>2, <1>3
<1> QED
    BY <1>0, <1>1, <1>2, <1>4, ClientMoves

\* Before the command is typed.
LEMMA BeforeKeeps ==
    ASSUME ShellInv, NEW e \in Execs,
           \/ \E frameOk, supported \in BOOLEAN : ExRefused(e, frameOk, supported)
           \/ ExLocks(e) \/ ExFrames(e) \/ ExNotTyped(e)
    PROVE  ShellInv'
<1>0. /\ ExecTypes /\ Locked /\ Told /\ ex[e].pc \in Before /\ blame' = blame /\ outlog' = outlog
      /\ UNCHANGED <<plan, session, typed, step, pipes, results>>
    BY DEF ShellInv, ExRefused, ExLocks, ExFrames, ExNotTyped, ExAt, Before, shellVars
<1>1. /\ blame \in [died : BOOLEAN, timed : BOOLEAN, graced : BOOLEAN] /\ outlog \in Seq(LogLines)
      /\ \A i \in DOMAIN typed : typed[i] # e
      /\ ~ex[e].sentinel
    BY <1>0 DEF ExecTypes, Told, NotOver
<1>2. ASSUME NEW code, ExLeaves(e, code) PROVE ShellInv'
    BY <1>0, <1>1, <1>2, ClientLeaves
<1>3. CASE ExLocks(e) /\ execLock = 0
  <2> DEFINE x == [ex[e] EXCEPT !.pc = "frame"]
  <2>1. ClientRec(x) /\ x.pc = "frame" /\ x.sentinel = ex[e].sentinel
    BY <1>0, ClientFields DEF Before
  <2>2. ExSet(e, x) /\ execLock' = e
    BY <1>3 DEF ExLocks, ExGo
  <2> HIDE DEF x
  <2>3. x.pc \notin Keeping \cup {"trail"} /\ \A c \in Execs : c # execLock
    BY <1>3, <2>1, ExecAssumption DEF Keeping
  <2> QED
    BY <1>0, <1>1, <2>1, <2>2, <2>3, ClientMoves
<1>4. CASE ExFrames(e) /\ target # "None"
  <2> DEFINE y == [ex[e] EXCEPT !.pc = "connect", !.cursor = Len(outlog)]
             x == [y EXCEPT !.pos = Len(outlog), !.marked = target # "PosixShell"]
  <2>0. Len(outlog) \in Nat /\ ClientRec(ex[e])
    BY <1>0, <1>1 DEF ExecTypes
  <2>1. ClientRec(y) /\ y.pc = "connect" /\ y.sentinel = ex[e].sentinel
    BY <2>0 DEF ClientRec, Before
  <2> HIDE DEF y
  <2>2. ClientRec(x) /\ x.pc = "connect" /\ x.sentinel = ex[e].sentinel
    BY <2>0, <2>1 DEF ClientRec
  <2>3. ExSet(e, x) /\ execLock' = execLock /\ ExAt(e, "frame")
    BY <1>4 DEF ExFrames, y
  <2> HIDE DEF x
  <2>4. execLock = e
    BY <1>0, <2>3 DEF Locked, ExAt
  <2>5. x.pc \in Before /\ x.pc # "trail"
    BY <2>2 DEF Before
  <2> QED
    BY <1>0, <1>1, <2>2, <2>3, <2>4, <2>5, ClientMoves
<1> QED
    BY <1>2, <1>3, <1>4 DEF ExRefused, ExLocks, ExFrames, ExNotTyped

\* The command is typed: into an idle shell, for a command that is with it keeps its client
\* waiting, and with it the lock.
LEMMA TypesKeeps ==
    ASSUME ShellInv, NEW e \in Execs, ExTypes(e)
    PROVE  ShellInv'
<1> DEFINE p == IF target = "SideChannel" THEN "side" ELSE "wait"
           x == [ex[e] EXCEPT !.pc = p]
<1>0. /\ ExecTypes /\ Locked /\ Told /\ ShellNotShared /\ ex[e].pc = "connect" /\ session.shell
      /\ typed' = Append(typed, e) /\ ExSet(e, x) /\ typed \in Seq(Execs)
      /\ UNCHANGED <<plan, session, step, pipes, results, outlog, execLock, blame>>
    BY DEF ShellInv, ExTypes, ExAt, ExGo, ExecTypes
<1>1. ClientRec(x) /\ x.pc = p /\ x.sentinel = ex[e].sentinel /\ p \in Keeping /\ p # "trail"
  <2>1. p \in Before \cup Keeping \cup {"finish", "exited"} /\ p \in Keeping /\ p # "trail"
    BY DEF Keeping
  <2> QED
    BY <1>0, <2>1, ClientFields
<1> HIDE DEF x, p
<1>2. /\ DOMAIN ex' = Execs /\ ex' = [c \in Execs |-> ex'[c]] /\ \A c \in Execs : ClientRec(ex'[c])
      /\ ex'[e] = x /\ \A c \in Execs : c # e => ex'[c] = ex[c]
    BY <1>0, <1>1, OneClient
<1>3. NotOver(e) /\ (\A i \in DOMAIN typed : typed[i] # e) /\ execLock = e
    BY <1>0 DEF Told, Locked, Before
<1>4. /\ typed' \in Seq(Execs) /\ DOMAIN typed = 1..Len(typed) /\ DOMAIN typed' = 1..(Len(typed) + 1)
      /\ Len(typed) \in Nat /\ Len(typed') = Len(typed) + 1 /\ typed'[Len(typed) + 1] = e
      /\ \A i \in DOMAIN typed : typed'[i] = typed[i] /\ typed[i] \in Execs
    BY <1>0
<1>5. \A i \in DOMAIN typed' : i \in DOMAIN typed \/ i = Len(typed) + 1
    BY <1>4
<1>6. ExecTypes'
  <2>1. Frame' = Frame
    BY <1>0 DEF Frame, target
  <2> QED
    BY <1>0, <1>2, <1>4, <2>1 DEF ExecTypes
<1>7. \A c \in Execs : NotOver(c) => NotOver(c)'
  <2>1. \A c \in Execs : ex'[c].sentinel = ex[c].sentinel
    BY <1>1, <1>2
  <2> QED
    BY <1>0, <2>1 DEF NotOver
<1>8. Locked'
  <2>1. \A c \in Execs : ex'[c].pc \notin {"idle", "exited"} => execLock' = c
    BY <1>0, <1>2, <1>3 DEF Locked
  <2>2. \A i, j \in DOMAIN typed' : typed'[i] = typed'[j] => i = j
    BY <1>0, <1>3, <1>4, <1>5 DEF Locked
  <2>3. ASSUME ~blame'.died, session'.shell, NEW i \in DOMAIN typed'
        PROVE  ex'[typed'[i]].pc \in Keeping
    <3>1. CASE i = Len(typed) + 1
      BY <1>1, <1>2, <1>4, <3>1
    <3>2. CASE i \in DOMAIN typed
      <4>1. typed'[i] = typed[i] /\ typed[i] \in Execs /\ typed[i] # e /\ ex[typed[i]].pc \in Keeping
        BY <1>0, <1>3, <1>4, <2>3, <3>2 DEF Locked
      <4> QED
        BY <1>2, <4>1
    <3> QED
      BY <1>5, <3>1, <3>2
  <2> QED
    BY <1>0, <2>1, <2>2, <2>3 DEF Locked
<1>9. Told'
  <2>1. ASSUME NEW c \in Execs
        PROVE  /\ ex'[c].pc \in Before => NotOver(c)' /\ \A i \in DOMAIN typed' : typed'[i] # c
               /\ \A i \in DOMAIN typed' : typed'[i] = c => NotOver(c)'
               /\ ex'[c].pc = "trail" => ex'[c].timedOut \/ ex'[c].sentinel
    <3>1. CASE c # e
      BY <1>0, <1>2, <1>4, <1>5, <1>7, <3>1 DEF Told
    <3>2. CASE c = e
      BY <1>1, <1>2, <1>3, <1>7, <3>2 DEF Keeping, Before
    <3> QED
      BY <3>1, <3>2
  <2> QED
    BY <2>1 DEF Told
<1>10. ShellNotShared'
  <2>1. ASSUME ~blame.died, Len(typed) >= 1 PROVE FALSE
    <3>1. 1 \in DOMAIN typed /\ typed[1] \in Execs /\ typed[1] # e
      BY <1>3, <1>4, <2>1
    <3>2. ex[typed[1]].pc \notin {"idle", "exited"}
      BY <1>0, <2>1, <3>1 DEF Locked, Keeping
    <3> QED
      BY <1>0, <1>3, <3>1, <3>2 DEF Locked
  <2> QED
    BY <1>0, <1>4, <2>1 DEF ShellNotShared
<1> QED
    BY <1>6, <1>8, <1>9, <1>10 DEF ShellInv

\* Reading one line of the log: the sentinel is seen only if it is the command's own.
LEMMA AcceptLineSees ==
    ASSUME NEW e \in Execs, ClientRec(ex[e]), NEW l \in LogLines
    PROVE  LET y == AcceptLine(e, ex[e], l)
           IN  /\ ClientRec(y) /\ y.pc = ex[e].pc /\ y.timedOut = ex[e].timedOut /\ y.pos = ex[e].pos
               /\ y.sentinel => ex[e].sentinel \/ IsSentinel(e, l)
<1> DEFINE own == l.exec = e
           ends == own /\ l.what = "sentinel"
           marks == own /\ l.what = "marker"
           y == AcceptLine(e, ex[e], l)
<1>1. CASE l.tag = "O" /\ ends
  <2>1. y = [ex[e] EXCEPT !.sentinel = TRUE]
    BY <1>1 DEF AcceptLine
  <2> QED
    BY <1>1, <2>1 DEF ClientRec, IsSentinel
<1>2. CASE l.tag = "O" /\ ~ends
  <2>1. y = [ex[e] EXCEPT !.out = Append(ex[e].out, Line(l.exec, l.what))]
    BY <1>2 DEF AcceptLine
  <2> QED
    BY <2>1 DEF ClientRec
<1>3. CASE l.tag = "E" /\ marks
  <2>1. y = [ex[e] EXCEPT !.marked = TRUE]
    BY <1>3 DEF AcceptLine
  <2> QED
    BY <2>1 DEF ClientRec
<1>4. CASE l.tag = "E" /\ ~marks
  <2>1. y = [ex[e] EXCEPT !.err = Append(ex[e].err, Line(l.exec, l.what))]
    BY <1>4 DEF AcceptLine
  <2> QED
    BY <2>1 DEF ClientRec
<1>5. CASE l.tag \notin {"O", "E"}
  <2>1. y = ex[e]
    BY <1>5 DEF AcceptLine
  <2> QED
    BY <2>1
<1> QED
    BY <1>1, <1>2, <1>3, <1>4, <1>5

\* Waiting for the sentinel.
LEMMA WaitingKeeps ==
    ASSUME ShellInv, NEW e \in Execs,
           ExCompletes(e) \/ ExTimesOut(e) \/ ExReads(e) \/ ExAtEof(e)
    PROVE  ShellInv'
<1>0. /\ ExecTypes /\ Locked /\ Told /\ ex[e].pc = "wait" /\ ex[e].pc \in Keeping /\ outlog' = outlog
      /\ UNCHANGED <<plan, session, typed, step, pipes, results>> /\ ClientRec(ex[e])
      /\ blame \in [died : BOOLEAN, timed : BOOLEAN, graced : BOOLEAN] /\ outlog \in Seq(LogLines)
    BY DEF ShellInv, ExCompletes, ExTimesOut, ExReads, ExAtEof, ExAt, Keeping, shellVars, ExecTypes
<1>1. ex[e].sentinel => CommandOver(e)
    BY DEF CommandOver
<1>2. ASSUME NEW p \in {"finish", "trail"}, ExGo(e, p), ex[e].sentinel, execLock' = execLock,
             blame' \in [died : BOOLEAN, timed : BOOLEAN, graced : BOOLEAN], blame.died => blame'.died
      PROVE  ShellInv'
  <2> DEFINE x == [ex[e] EXCEPT !.pc = p]
  <2>1. p \in Before \cup Keeping \cup {"finish", "exited"} /\ p \in Keeping \cup {"finish"}
    BY DEF Keeping
  <2>2. ClientRec(x) /\ x.pc = p /\ x.sentinel = ex[e].sentinel
    BY <1>0, <2>1, ClientFields
  <2>3. ExSet(e, x)
    BY <1>2 DEF ExGo
  <2> HIDE DEF x
  <2> QED
    BY <1>0, <1>1, <1>2, <2>1, <2>2, <2>3, ClientGoesOn
<1>3. CASE ExCompletes(e)
    BY <1>0, <1>2, <1>3 DEF ExCompletes, ExComplete, AfterWait
<1>4. CASE ExTimesOut(e)
  <2> DEFINE p == IF target = "DuckDb" THEN "trail" ELSE "seek"
             x == [ex[e] EXCEPT !.timedOut = TRUE, !.pc = p]
  <2>0. p \in Keeping
    BY DEF Keeping
  <2>1. /\ ExSet(e, x) /\ ~ex[e].sentinel /\ execLock' = execLock
        /\ blame' = [blame EXCEPT !.timed = TRUE]
    BY <1>4 DEF ExTimesOut
  <2> HIDE DEF p
  <2>2. ClientRec(x) /\ x.pc = p /\ x.timedOut /\ x.sentinel = ex[e].sentinel
    BY <1>0, <2>0 DEF ClientRec
  <2> HIDE DEF x
  <2>3. blame' \in [died : BOOLEAN, timed : BOOLEAN, graced : BOOLEAN] /\ blame.died => blame'.died
    BY <1>0, <2>1
  <2>4. p # "finish"
    BY <2>0 DEF Keeping
  <2>5. blame' \in [died : BOOLEAN, timed : BOOLEAN, graced : BOOLEAN]
    BY <1>0, <2>1
  <2> QED
    BY <1>0, <1>1, <2>0, <2>1, <2>2, <2>3, <2>4, <2>5, ClientGoesOn
<1>5. CASE ExReads(e)
  <2> DEFINE l == outlog[ex[e].pos + 1]
             y == AcceptLine(e, ex[e], l)
             x == [y EXCEPT !.pos = y.pos + 1]
  <2>0. ex[e].pos \in Nat /\ ex[e].pos < Len(outlog)
    BY <1>0, <1>5 DEF ExReads, ClientRec
  <2>1. ExSet(e, x) /\ execLock' = execLock /\ blame' = blame
    BY <1>5 DEF ExReads
  <2>2. ex[e].pos + 1 \in DOMAIN outlog /\ l \in LogLines
    BY <1>0, <2>0
  <2>3. /\ ClientRec(y) /\ y.pc = "wait" /\ y.pos \in Nat
        /\ y.sentinel => ex[e].sentinel \/ IsSentinel(e, l)
    <3> HIDE DEF l
    <3> QED
      BY <1>0, <2>0, <2>2, AcceptLineSees
  <2> HIDE DEF y
  <2>4. ClientRec(x) /\ x.pc = "wait" /\ x.sentinel = y.sentinel
    BY <2>3 DEF ClientRec
  <2>5. x.sentinel => CommandOver(e)
    BY <2>2, <2>3, <2>4 DEF CommandOver
  <2> HIDE DEF x
  <2> QED
    BY <1>0, <2>1, <2>4, <2>5, ClientGoesOn
<1>6. CASE ExAtEof(e)
  <2>1. CASE ex[e].sentinel
    <3>1. ExGo(e, "finish") /\ blame' = [blame EXCEPT !.graced = TRUE] /\ execLock' = execLock
      BY <1>6, <2>1 DEF ExAtEof
    <3>2. blame' \in [died : BOOLEAN, timed : BOOLEAN, graced : BOOLEAN]
      BY <1>0, <3>1
    <3>3. blame.died => blame'.died
      BY <1>0, <3>1
    <3> QED
      BY <1>2, <2>1, <3>1, <3>2, <3>3
  <2>2. CASE ~ex[e].sentinel
    <3>1. ~session.running /\ ExLeaves(e, 1) /\ blame' = blame
      BY <1>6, <2>2 DEF ExAtEof
    <3>2. ~session.shell
      BY <1>0, <3>1 DEF Locked
    <3> QED
      BY <1>0, <3>1, <3>2, ClientLeaves
  <2> QED
    BY <2>1, <2>2
<1> QED
    BY <1>3, <1>4, <1>5, <1>6

\* After the sentinel, the result file, and after a timeout.
LEMMA DrainingKeeps ==
    ASSUME ShellInv, NEW e \in Execs,
           \/ \E n \in ex[e].cursor..Len(outlog) : ExTrails(e, n)
           \/ ExSideResult(e) \/ ExSideTimesOut(e) \/ ExSideEnds(e)
           \/ ExDrainSide(e) \/ ExSeeks(e) \/ ExDrains(e)
    PROVE  ShellInv'
<1>0. /\ ExecTypes /\ Locked /\ Told /\ ex[e].pc \in Keeping /\ outlog' = outlog /\ results' \subseteq results
      /\ UNCHANGED <<plan, session, typed, step, pipes>> /\ ClientRec(ex[e])
      /\ blame \in [died : BOOLEAN, timed : BOOLEAN, graced : BOOLEAN] /\ outlog \in Seq(LogLines)
  <2>1. ExecTypes /\ Locked /\ Told
    BY DEF ShellInv
  <2>2. ASSUME NEW n, ExTrails(e, n)
        PROVE  ex[e].pc \in Keeping /\ UNCHANGED <<plan, session, typed, step, pipes, outlog, results>>
    BY <2>2 DEF ExTrails, ExAt, Keeping, shellVars
  <2>3. ASSUME ExSideResult(e) \/ ExSideTimesOut(e) \/ ExSideEnds(e) \/ ExDrainSide(e) \/ ExSeeks(e) \/ ExDrains(e)
        PROVE  /\ ex[e].pc \in Keeping /\ UNCHANGED <<plan, session, typed, step, pipes, outlog>>
               /\ results' \subseteq results
    BY <2>3 DEF ExSideResult, ExSideTimesOut, ExSideEnds, ExDrainSide, ExSeeks, ExDrains, ExAt, Keeping, shellVars
  <2> QED
    BY <2>1, <2>2, <2>3 DEF ExecTypes
<1>1. ex[e].sentinel => CommandOver(e)
    BY DEF CommandOver
<1>2. ASSUME NEW n, ExTrails(e, n) PROVE ShellInv'
  <2> DEFINE err == TrailingErr(e, n)
             code == IF err # <<>> THEN 1 ELSE ex[e].code
             p == IF ex[e].timedOut THEN "seek" ELSE "finish"
             x == [ex[e] EXCEPT !.err = err, !.code = code, !.pc = p]
  <2>1. ExSet(e, x) /\ ex[e].pc = "trail" /\ execLock' = execLock /\ blame' = blame
    BY <1>2 DEF ExTrails, ExAt
  <2>2. p \in Keeping \cup {"finish"} /\ p # "trail" /\ p = "finish" => ex[e].sentinel
    BY <1>0, <2>1 DEF Keeping, Told
  <2>3. p \in Keeping \cup {"finish"} /\ p # "trail"
    BY DEF Keeping
  <2> HIDE DEF err, code, p
  <2>4. ClientRec(x) /\ x.pc = p /\ x.sentinel = ex[e].sentinel
    BY <1>0, <2>3 DEF ClientRec
  <2> HIDE DEF x
  <2> QED
    BY <1>0, <1>1, <2>1, <2>2, <2>3, <2>4, ClientGoesOn
<1>3. CASE ExSideResult(e)
  <2> DEFINE x == [ex[e] EXCEPT !.pc = "finish", !.out = <<Line(e, "out")>>, !.err = <<Line(e, "err")>>]
  <2>1. ExSet(e, x) /\ e \in results /\ execLock' = execLock /\ blame' = blame
    BY <1>3 DEF ExSideResult
  <2>2. ClientRec(x) /\ x.pc = "finish" /\ x.sentinel = ex[e].sentinel
    BY <1>0 DEF ClientRec
  <2> HIDE DEF x
  <2>3. CommandOver(e)
    BY <2>1 DEF CommandOver
  <2> QED
    BY <1>0, <2>1, <2>2, <2>3, ClientGoesOn
<1>4. CASE ExSideTimesOut(e)
  <2> DEFINE x == [ex[e] EXCEPT !.pc = "drainside", !.timedOut = TRUE]
  <2>1. ExSet(e, x) /\ execLock' = execLock /\ blame' = [blame EXCEPT !.timed = TRUE]
    BY <1>4 DEF ExSideTimesOut
  <2>2. ClientRec(x) /\ x.pc = "drainside" /\ x.sentinel = ex[e].sentinel /\ x.pc \in Keeping
    BY <1>0 DEF ClientRec, Keeping
  <2> HIDE DEF x
  <2>3. blame' \in [died : BOOLEAN, timed : BOOLEAN, graced : BOOLEAN]
    BY <1>0, <2>1
  <2>4. blame.died => blame'.died
    BY <1>0, <2>1
  <2> QED
    BY <1>0, <1>1, <2>1, <2>2, <2>3, <2>4, ClientGoesOn
<1>5. CASE ExSideEnds(e)
  <2>1. ~session.running /\ ExLeaves(e, 1) /\ blame' = blame /\ results' = results
    BY <1>5 DEF ExSideEnds, shellVars
  <2>2. ~session.shell
    BY <1>0, <2>1 DEF Locked
  <2> QED
    BY <1>0, <2>1, <2>2, ClientLeaves
<1>6. ASSUME ExGo(e, "finish"), CommandOver(e) \/ ~session.running, execLock' = execLock, blame' = blame
      PROVE  ShellInv'
  <2> DEFINE x == [ex[e] EXCEPT !.pc = "finish"]
  <2>1. ClientRec(x) /\ x.pc = "finish" /\ x.sentinel = ex[e].sentinel
    BY <1>0, ClientFields
  <2>2. ExSet(e, x)
    BY <1>6 DEF ExGo
  <2> HIDE DEF x
  <2> QED
    BY <1>0, <1>1, <1>6, <2>1, <2>2, ClientGoesOn
<1>7. CASE ExDrainSide(e)
    BY <1>6, <1>7 DEF ExDrainSide, CommandOver
<1>8. CASE ExSeeks(e)
  <2> DEFINE q == IF Len(outlog) > DrainMargin THEN Len(outlog) - DrainMargin ELSE 0
             x == [ex[e] EXCEPT !.pc = "drain", !.pos = q]
  <2>1. ExSet(e, x) /\ execLock' = execLock /\ blame' = blame
    BY <1>8 DEF ExSeeks
  <2>2. q \in Nat
    BY <1>0, ExecAssumption
  <2> HIDE DEF q
  <2>3. ClientRec(x) /\ x.pc = "drain" /\ x.sentinel = ex[e].sentinel /\ x.pc \in Keeping
    BY <1>0, <2>2 DEF ClientRec, Keeping
  <2> HIDE DEF x
  <2> QED
    BY <1>0, <1>1, <2>1, <2>3, ClientGoesOn
<1>9. CASE ExDrains(e)
  <2>1. ASSUME ex[e].pos < Len(outlog), ~(~session.running /\ ExGo(e, "finish"))
        PROVE  ShellInv'
    <3> DEFINE l == outlog[ex[e].pos + 1]
               p == IF l.tag = "O" /\ l.what = "sentinel" /\ l.exec = e THEN "finish" ELSE ex[e].pc
               q == ex[e].pos + 1
               x == [ex[e] EXCEPT !.pos = q, !.pc = p]
    <3>1. ExSet(e, x) /\ execLock' = execLock /\ blame' = blame /\ ex[e].pc = "drain"
      BY <1>9, <2>1 DEF ExDrains, ExAt
    <3>2. q \in Nat /\ q \in DOMAIN outlog
      BY <1>0, <2>1 DEF ClientRec
    <3>3. p \in {"drain", "finish"} /\ p \in Keeping \cup {"finish"}
      BY <3>1 DEF Keeping
    <3>4. p = "finish" => CommandOver(e)
      BY <3>1, <3>2 DEF CommandOver, IsSentinel
    <3> HIDE DEF p, q
    <3>5. ClientRec(x) /\ x.pc = p /\ x.sentinel = ex[e].sentinel
      BY <1>0, <3>2, <3>3 DEF ClientRec
    <3> HIDE DEF x
    <3> QED
      BY <1>0, <1>1, <3>1, <3>3, <3>4, <3>5, ClientGoesOn
  <2>2. ASSUME ~session.running, ExGo(e, "finish") PROVE ShellInv'
    BY <1>6, <1>9, <2>2 DEF ExDrains
  <2> QED
    BY <1>9, <2>1, <2>2 DEF ExDrains
<1> QED
    BY <1>2, <1>3, <1>4, <1>5, <1>7, <1>8, <1>9

\* The record is written and the process exits; or it is killed.
LEMMA EndKeeps ==
    ASSUME ShellInv, NEW e \in Execs, ExFinishes(e) \/ ExDies(e)
    PROVE  ShellInv'
<1>0. /\ ExecTypes /\ Locked /\ Told /\ UNCHANGED <<plan, session, typed, step, pipes, results>>
      /\ blame \in [died : BOOLEAN, timed : BOOLEAN, graced : BOOLEAN] /\ outlog \in Seq(LogLines)
      /\ \A i \in DOMAIN typed : typed[i] \in Execs
    BY DEF ShellInv, ExFinishes, ExDies, shellVars, ExecTypes
<1>1. CASE ExFinishes(e)
  <2> DEFINE l == [tag |-> "A", exec |-> e, what |-> "exec"]
             code == IF ex[e].timedOut THEN 124 ELSE ex[e].code
  <2>1. outlog' = Append(outlog, l) /\ ExLeaves(e, code) /\ blame' = blame /\ ex[e].pc = "finish"
    BY <1>1 DEF ExFinishes, ExAt
  <2>2. l \in LogLines /\ l.what # "sentinel"
    BY DEF LogLines
  <2> HIDE DEF l, code
  <2>3. outlog' \in Seq(LogLines)
    BY <1>0, <2>1, <2>2
  <2>4. \A i \in DOMAIN outlog' :
           outlog'[i].what = "sentinel" => i \in DOMAIN outlog /\ outlog'[i] = outlog[i]
    BY <1>0, <2>1, <2>2
  <2>5. (\E i \in DOMAIN typed : typed[i] = e) => blame.died \/ ~session.shell
    BY <1>0, <2>1 DEF Locked, Keeping
  <2> QED
    BY <1>0, <2>1, <2>3, <2>4, <2>5, ClientLeaves
<1>2. CASE ExDies(e)
  <2>1. ExLeaves(e, 137) /\ blame' = [blame EXCEPT !.died = TRUE] /\ outlog' = outlog
    BY <1>2 DEF ExDies
  <2>2. blame' \in [died : BOOLEAN, timed : BOOLEAN, graced : BOOLEAN] /\ blame'.died
    BY <1>0, <2>1
  <2> QED
    BY <1>0, <2>1, <2>2, ClientLeaves
<1> QED
    BY <1>1, <1>2

(***************************************************************************)
(* The shell and the capture threads                                       *)
(***************************************************************************)
\* A step of the session leaves the clients, takes no more than it printed from the
\* shell, and tells the end of no command that stays with it.
LEMMA SessionMoves ==
    ASSUME ShellInv, ExecTypes', UNCHANGED <<execLock, ex, blame>>,
           session'.shell => session.shell, session'.running \/ ~session'.shell,
           \A i, j \in DOMAIN typed' : typed'[i] = typed'[j] => i = j,
           \A i \in DOMAIN typed' : \E j \in DOMAIN typed : typed[j] = typed'[i],
           Len(typed') <= Len(typed),
           \A c \in Execs : NotOver(c) /\ ((\E i \in DOMAIN typed' : typed'[i] = c)
                                           \/ \A j \in DOMAIN typed : typed[j] # c) => NotOver(c)'
    PROVE  ShellInv'
<1>0. ExecTypes /\ Locked /\ Told /\ ShellNotShared
    BY DEF ShellInv
<1>1. Locked'
    BY <1>0 DEF Locked
<1>2. Told'
  <2>1. ASSUME NEW c \in Execs
        PROVE  /\ ex'[c].pc \in Before => NotOver(c)' /\ \A i \in DOMAIN typed' : typed'[i] # c
               /\ \A i \in DOMAIN typed' : typed'[i] = c => NotOver(c)'
               /\ ex'[c].pc = "trail" => ex'[c].timedOut \/ ex'[c].sentinel
    <3>1. ex[c].pc \in Before => NotOver(c)' /\ \A i \in DOMAIN typed' : typed'[i] # c
      BY <1>0 DEF Told
    <3>2. \A i \in DOMAIN typed' : typed'[i] = c => NotOver(c)'
      BY <1>0 DEF Told
    <3> QED
      BY <1>0, <3>1, <3>2 DEF Told
  <2> QED
    BY <2>1 DEF Told
<1>3. ShellNotShared'
  <2>1. Len(typed) \in Nat /\ Len(typed') \in Nat
    BY <1>0 DEF ExecTypes
  <2> QED
    BY <1>0, <2>1 DEF ShellNotShared
<1> QED
    BY <1>1, <1>2, <1>3 DEF ShellInv

\* The shell goes away, and then the session ends.
LEMMA SessionOverKeeps ==
    ASSUME ShellInv, ShellExits \/ SessionEnds
    PROVE  ShellInv'
<1>0. /\ ExecTypes /\ Locked /\ UNCHANGED <<plan, typed, step, pipes, results, outlog, execLock, ex, blame>>
      /\ session \in [running : BOOLEAN, shell : BOOLEAN]
    BY DEF ShellInv, ExecTypes, ShellExits, SessionEnds
<1>1. session' \in [running : BOOLEAN, shell : BOOLEAN] /\ ~session'.shell
    BY <1>0 DEF ShellExits, SessionEnds
<1>2. ExecTypes'
  <2>1. Frame' = Frame
    BY <1>0 DEF Frame, target
  <2> QED
    BY <1>0, <1>1, <2>1 DEF ExecTypes
<1>3. \A c \in Execs : NotOver(c) => NotOver(c)'
    BY <1>0 DEF NotOver
<1>4. Len(typed) \in Nat
    BY <1>0 DEF ExecTypes
<1> QED
    BY <1>0, <1>1, <1>2, <1>3, <1>4, SessionMoves DEF Locked

\* A captured line was in a pipe and is in the log.
LEMMA CapturesKeeps ==
    ASSUME ShellInv, NEW tag \in {"O", "E"}, Captures(tag)
    PROVE  ShellInv'
<1> DEFINE h == Head(pipes[tag])
           l == [tag |-> tag, exec |-> h.exec, what |-> h.what]
<1>0. /\ ExecTypes /\ Locked /\ UNCHANGED <<plan, session, typed, step, results, execLock, ex, blame>>
      /\ pipes[tag] # <<>> /\ outlog' = Append(outlog, l) /\ outlog \in Seq(LogLines)
      /\ pipes' = [pipes EXCEPT ![tag] = Tail(pipes[tag])] /\ pipes \in [{"O", "E"} -> Seq(Lines)]
      /\ pipes[tag] \in Seq(Lines) /\ typed \in Seq(Execs)
    BY DEF ShellInv, ExecTypes, Captures
<1>1. /\ h \in Lines /\ h = pipes[tag][1] /\ 1 \in DOMAIN pipes[tag] /\ Tail(pipes[tag]) \in Seq(Lines)
      /\ \A i \in DOMAIN Tail(pipes[tag]) : i + 1 \in DOMAIN pipes[tag] /\ Tail(pipes[tag])[i] = pipes[tag][i + 1]
    BY <1>0
<1>2. l \in LogLines /\ l.exec = h.exec /\ l.what = h.what
    BY <1>1 DEF Lines, LogLines
<1> HIDE DEF h, l
<1>3. outlog' \in Seq(LogLines) /\ pipes' \in [{"O", "E"} -> Seq(Lines)]
    BY <1>0, <1>1, <1>2
<1>4. ExecTypes'
  <2>1. Frame' = Frame
    BY <1>0 DEF Frame, target
  <2> QED
    BY <1>0, <1>3, <2>1 DEF ExecTypes
<1>5. ASSUME NEW c \in Execs, NotOver(c) PROVE NotOver(c)'
  <2>1. ~IsSentinel(c, h)
    BY <1>1, <1>5 DEF NotOver
  <2>2. \A i \in DOMAIN outlog' : ~IsSentinel(c, outlog'[i])
    <3>1. ASSUME NEW i \in DOMAIN outlog' PROVE ~IsSentinel(c, outlog'[i])
      <4>1. CASE i \in DOMAIN outlog
        BY <1>0, <1>5, <4>1 DEF NotOver
      <4>2. CASE i \notin DOMAIN outlog
        <5>1. outlog'[i] = l
          BY <1>0, <3>1, <4>2
        <5> QED
          BY <1>2, <2>1, <5>1 DEF IsSentinel
      <4> QED
        BY <4>1, <4>2
    <3> QED
      BY <3>1
  <2>3. ASSUME NEW t \in {"O", "E"}, NEW i \in DOMAIN pipes'[t] PROVE ~IsSentinel(c, pipes'[t][i])
    <3>1. CASE t = tag
      <4>1. pipes'[t] = Tail(pipes[tag])
        BY <1>0, <3>1
      <4> QED
        BY <1>1, <1>5, <2>3, <4>1 DEF NotOver
    <3>2. CASE t # tag
      <4>1. pipes'[t] = pipes[t]
        BY <1>0, <3>2
      <4> QED
        BY <1>5, <2>3, <4>1 DEF NotOver
    <3> QED
      BY <3>1, <3>2
  <2> QED
    BY <1>0, <1>5, <2>2, <2>3 DEF NotOver
<1>6. Len(typed) \in Nat
    BY <1>0
<1> QED
    BY <1>0, <1>4, <1>5, <1>6, SessionMoves DEF Locked

\* The shell prints the next line of the oldest frame; with the last one the command is
\* over and the frame is gone.
LEMMA ShellPrintsKeeps ==
    ASSUME ShellInv, ShellPrints
    PROVE  ShellInv'
<1> DEFINE e == Head(typed)
           line == Frame[step + 1]
           over == step + 1 = Len(Frame)
<1>0. /\ ExecTypes /\ Locked /\ Told /\ UNCHANGED <<plan, session, outlog, execLock, ex, blame>>
      /\ session.shell /\ typed # <<>> /\ typed \in Seq(Execs) /\ plan \in Plans
      /\ step \in Nat /\ step < Len(Frame) /\ pipes \in [{"O", "E"} -> Seq(Lines)] /\ results \subseteq Execs
    BY DEF ShellInv, ShellPrints, ExecTypes
<1>1. /\ Len(Frame) \in Nat /\ step + 1 \in 1..Len(Frame)
      /\ line[1] \in {"O", "E", "R"} /\ (line[1] # "R" => line[2] \in Whats)
      /\ (line[1] = "R" \/ line[2] = "sentinel" => over)
  <2>1. /\ Len(Frame) \in Nat
        /\ \A n \in 1..Len(Frame) :
              /\ Frame[n][1] \in {"O", "E", "R"} /\ (Frame[n][1] # "R" => Frame[n][2] \in Whats)
              /\ Frame[n][1] = "R" \/ Frame[n][2] = "sentinel" => n = Len(Frame)
    BY <1>0, FrameLines
  <2>2. step + 1 \in 1..Len(Frame)
    BY <1>0, <2>1
  <2> QED
    BY <2>1, <2>2
<1>2. /\ IF line[1] = "R" THEN results' = results \cup {e} /\ pipes' = pipes
         ELSE pipes' = [pipes EXCEPT ![line[1]] = Append(pipes[line[1]], Line(e, line[2]))] /\ results' = results
      /\ typed' = IF over THEN Tail(typed) ELSE typed
      /\ step' = IF over THEN 0 ELSE step + 1
    BY DEF ShellPrints
<1>3. e \in Execs /\ e = typed[1] /\ 1 \in DOMAIN typed
    BY <1>0
<1>4. /\ Tail(typed) \in Seq(Execs) /\ Len(Tail(typed)) <= Len(typed)
      /\ \A i \in DOMAIN Tail(typed) : /\ i + 1 \in DOMAIN typed /\ i + 1 # 1 /\ i \in Nat
                                       /\ Tail(typed)[i] = typed[i + 1]
    BY <1>0
<1>5. Frame' = Frame
    BY <1>0 DEF Frame, target
<1>6. step' \in Nat /\ step' < Len(Frame)
    BY <1>0, <1>1, <1>2
<1> HIDE DEF e, line, over
<1>7. /\ typed' \in Seq(Execs) /\ Len(typed') <= Len(typed)
      /\ (\A i, j \in DOMAIN typed' : typed'[i] = typed'[j] => i = j)
      /\ (\A i \in DOMAIN typed' : \E j \in DOMAIN typed : typed[j] = typed'[i])
      /\ (over => \A i \in DOMAIN typed' : typed'[i] # e)
  <2>1. CASE over
    <3>1. typed' = Tail(typed)
      BY <1>2, <2>1
    <3>2. ASSUME NEW i \in DOMAIN typed', NEW j \in DOMAIN typed', typed'[i] = typed'[j] PROVE i = j
      <4>1. i + 1 = j + 1 /\ i \in Nat /\ j \in Nat
        BY <1>0, <1>4, <3>1, <3>2 DEF Locked
      <4> QED
        BY <4>1
    <3>3. ASSUME NEW i \in DOMAIN typed' PROVE typed'[i] # e
      BY <1>0, <1>3, <1>4, <3>1, <3>3 DEF Locked
    <3> QED
      BY <1>4, <3>1, <3>2, <3>3
  <2>2. CASE ~over
    <3>1. typed' = typed /\ Len(typed) \in Nat
      BY <1>0, <1>2, <2>2
    <3> QED
      BY <1>0, <2>2, <3>1 DEF Locked
  <2> QED
    BY <2>1, <2>2
<1>8. CASE line[1] = "R"
  <2>1. results' = results \cup {e} /\ pipes' = pipes /\ over
    BY <1>1, <1>2, <1>8
  <2>2. ExecTypes'
    BY <1>0, <1>3, <1>5, <1>6, <1>7, <2>1 DEF ExecTypes
  <2>3. \A c \in Execs : NotOver(c) /\ c # e => NotOver(c)'
    BY <1>0, <2>1 DEF NotOver
  <2>4. \A c \in Execs : ((\E i \in DOMAIN typed' : typed'[i] = c) \/ \A j \in DOMAIN typed : typed[j] # c) => c # e
    BY <1>3, <1>7, <2>1
  <2>5. session'.shell => session.shell
    BY <1>0
  <2>6. session'.running \/ ~session'.shell
    BY <1>0 DEF Locked
  <2> QED
    BY <1>0, <1>7, <2>2, <2>3, <2>4, <2>5, <2>6, SessionMoves
<1>9. CASE line[1] # "R"
  <2> DEFINE t == line[1]
             l == Line(e, line[2])
  <2>1. results' = results /\ t \in {"O", "E"} /\ pipes' = [pipes EXCEPT ![t] = Append(pipes[t], l)]
    BY <1>1, <1>2, <1>9
  <2>2. l \in Lines /\ l.exec = e /\ l.what = line[2]
    BY <1>1, <1>3, <1>9 DEF Lines, Line
  <2> HIDE DEF t, l
  <2>3. pipes[t] \in Seq(Lines) /\ Append(pipes[t], l) \in Seq(Lines) /\ pipes' \in [{"O", "E"} -> Seq(Lines)]
    BY <1>0, <2>1, <2>2
  <2>4. ExecTypes'
    BY <1>0, <1>5, <1>6, <1>7, <2>1, <2>3 DEF ExecTypes
  <2>5. ASSUME NEW c \in Execs, NotOver(c), ~IsSentinel(c, l) PROVE NotOver(c)'
    <3>1. ASSUME NEW s \in {"O", "E"}, NEW i \in DOMAIN pipes'[s] PROVE ~IsSentinel(c, pipes'[s][i])
      <4>1. CASE s # t
        <5>1. pipes'[s] = pipes[s]
          BY <1>0, <2>1, <4>1
        <5> QED
          BY <2>5, <3>1, <5>1 DEF NotOver
      <4>2. CASE s = t
        <5>1. pipes'[s] = Append(pipes[t], l)
          BY <1>0, <2>1, <4>2
        <5>2. CASE i \in DOMAIN pipes[t]
          BY <2>1, <2>3, <2>5, <5>1, <5>2 DEF NotOver
        <5>3. CASE i \notin DOMAIN pipes[t]
          <6>1. pipes'[s][i] = l
            BY <2>3, <3>1, <5>1, <5>3
          <6> QED
            BY <2>5, <6>1
        <5> QED
          BY <5>2, <5>3
      <4> QED
        BY <4>1, <4>2
    <3> QED
      BY <1>0, <2>1, <2>5, <3>1 DEF NotOver
  <2>6. ASSUME NEW c \in Execs,
               (\E i \in DOMAIN typed' : typed'[i] = c) \/ \A j \in DOMAIN typed : typed[j] # c
        PROVE  ~IsSentinel(c, l)
    <3>1. CASE c # e
      BY <2>2, <3>1 DEF IsSentinel
    <3>2. CASE c = e
      <4>1. ~over
        BY <1>3, <1>7, <2>6, <3>2
      <4> QED
        BY <1>1, <2>2, <4>1 DEF IsSentinel
    <3> QED
      BY <3>1, <3>2
  <2>7. session'.shell => session.shell
    BY <1>0
  <2>8. session'.running \/ ~session'.shell
    BY <1>0 DEF Locked
  <2> QED
    BY <1>0, <1>7, <2>4, <2>5, <2>6, <2>7, <2>8, SessionMoves
<1> QED
    BY <1>8, <1>9

(***************************************************************************)
(* The theorem about exec                                                  *)
(***************************************************************************)
\* At first no client has begun and nothing is typed.
LEMMA ShellInitInv == ExecInit => ShellInv
<1> SUFFICES ASSUME ExecInit PROVE ShellInv
    OBVIOUS
<1>1. plan \in Plans /\ Len(Frame) \in Nat /\ Len(Frame) >= 1
    BY FrameLines DEF ExecInit
<1>2. ASSUME NEW e \in Execs
      PROVE  ClientRec(ex[e]) /\ ex[e].pc = "idle" /\ ~ex[e].sentinel
    BY DEF ExecInit, ClientRec, Before
<1>3. pipes \in [{"O", "E"} -> Seq(Lines)] /\ pipes["O"] = <<>> /\ pipes["E"] = <<>>
    BY DEF ExecInit
<1>4. ExecTypes
    BY <1>1, <1>2, <1>3 DEF ExecInit, ExecTypes
<1>5. Locked
    BY <1>2 DEF ExecInit, Locked
<1>6. Told
    BY <1>2, <1>3 DEF ExecInit, Told, NotOver
<1>7. ShellNotShared
    BY DEF ExecInit, ShellNotShared
<1> QED
    BY <1>4, <1>5, <1>6, <1>7 DEF ShellInv

\* A client that only looks changes nothing that the invariant speaks of.
LEMMA ShellStands ==
    ASSUME ShellInv, UNCHANGED <<plan, shellVars, outlog, execLock, ex, blame>>
    PROVE  ShellInv'
<1>1. Frame' = Frame
  BY DEF Frame, target
<1>2. \A e \in Execs : NotOver(e)' = NotOver(e)
  BY DEF NotOver, shellVars
<1> QED
  BY <1>1, <1>2, ZenonT(30) DEF ShellInv, ExecTypes, Locked, Told, ShellNotShared, shellVars

\* Every step keeps the invariant.
LEMMA ShellStep == ShellInv /\ [ExecNext]_execVars => ShellInv'
<1> SUFFICES ASSUME ShellInv, [ExecNext]_execVars PROVE ShellInv'
    OBVIOUS
<1>1. ASSUME NEW e \in Execs, Client(e) \/ ExDies(e) PROVE ShellInv'
  <2>1. CASE ExLooks(e)
    BY <2>1, ShellStands DEF ExLooks
  <2> QED
    BY <1>1, <2>1, BeforeKeeps, TypesKeeps, WaitingKeeps, DrainingKeeps, EndKeeps DEF Client
<1>2. CASE UNCHANGED execVars
    BY <1>2, ShellStands DEF execVars
<1> QED
    BY <1>1, <1>2, ShellPrintsKeeps, SessionOverKeeps, CapturesKeeps DEF ExecNext

\* Unless a client was killed, no two frames are with the shell, even across timeouts, for
\* any number of clients (exec.rs: the lock is kept through the drain).
THEOREM ShellNotSharedHolds == ExecSpec => []ShellNotShared
<1>1. ShellInv => ShellNotShared
    BY DEF ShellInv
<1> QED
    BY <1>1, ShellInitInv, ShellStep, PTL DEF ExecSpec

(***************************************************************************)
(* Exec: whose lines an answer holds                                       *)
(***************************************************************************)
Tags == {"O", "E"}
FirstOf(tag) == IF tag = "O" THEN "out" ELSE "err"
LastOf(tag) == IF tag = "O" THEN "sentinel" ELSE "marker"
IsLine(e, what, l) == l.exec = e /\ l.what = what

\* A line is printed when it is in the log or on its way there.
InLog(e, what) == \E j \in DOMAIN outlog : IsLine(e, what, outlog[j])
InPipe(tag, e, what) == \E i \in DOMAIN pipes[tag] : IsLine(e, what, pipes[tag][i])
Printed(e, what) == InLog(e, what) \/ \E tag \in Tags : InPipe(tag, e, what)

\* Each thread logs its own kind of line, and frames without lines have none.
PipeKinds == \A tag \in Tags : \A i \in DOMAIN pipes[tag] : pipes[tag][i].what \in {FirstOf(tag), LastOf(tag)}
LogKind(l) ==
    /\ l.tag = "A" <=> l.what = "exec"
    /\ \A tag \in Tags : l.tag = tag => l.what \in {FirstOf(tag), LastOf(tag)}
Kinds ==
    /\ PipeKinds /\ \A k \in DOMAIN outlog : LogKind(outlog[k])
    /\ target \notin {"PosixShell", "DuckDb"} => \A tag \in Tags : pipes[tag] = <<>>
    /\ results # {} => target \notin {"PosixShell", "DuckDb"}
    /\ ~session.running => \A tag \in Tags : pipes[tag] = <<>>

\* A command has printed what the shell has run of its frame.
Progress ==
    /\ \A e \in Execs : ex[e].pc \in Before => \A w \in Whats : ~Printed(e, w)
    /\ \A i \in DOMAIN typed : i # 1 => \A w \in Whats : ~Printed(typed[i], w)
    /\ IF typed = <<>> THEN step = 0
       ELSE /\ \A w \in Whats : Printed(typed[1], w) => \E n \in 1..step : Frame[n][2] = w
            /\ \A n \in 1..step : Printed(typed[1], Frame[n][2])

\* On each of the two ways a command's first line is before its last, and none follows.
InOrder(tag) ==
    /\ \A k \in DOMAIN outlog : \A e \in Execs : IsLine(e, LastOf(tag), outlog[k]) =>
          /\ \E j \in DOMAIN outlog : j < k /\ IsLine(e, FirstOf(tag), outlog[j])
          /\ \A i \in DOMAIN pipes[tag] : pipes[tag][i].exec # e
    /\ \A i \in DOMAIN pipes[tag] : \A e \in Execs : IsLine(e, LastOf(tag), pipes[tag][i]) =>
          /\ \/ InLog(e, FirstOf(tag))
             \/ \E j \in DOMAIN pipes[tag] : j < i /\ IsLine(e, FirstOf(tag), pipes[tag][j])
          /\ \A j \in DOMAIN pipes[tag] : j > i => pipes[tag][j].exec # e

\* What client e with record x has read: everything from its cursor to its position.
Text(x, tag) == IF tag = "O" THEN x.out ELSE x.err
Flag(x, tag) == IF tag = "O" THEN x.sentinel ELSE x.marked
Used(tag) == tag = "O" \/ target = "PosixShell"
Whole(e, x, tag) == Contains(Text(x, tag), Line(e, FirstOf(tag)))

HasRead(e, x) ==
    /\ x.pc \in {"connect", "finish"} \cup Keeping =>
          /\ x.cursor <= Len(outlog)
          /\ \A k \in DOMAIN outlog : outlog[k].exec = e /\ outlog[k].tag # "A" => k > x.cursor
    /\ x.pc \in {"connect", "wait"} =>
          /\ x.cursor <= x.pos /\ x.pos <= Len(outlog)
          /\ target # "PosixShell" => x.marked
          /\ \A k \in DOMAIN outlog : \A tag \in Tags :
                Used(tag) /\ k > x.cursor /\ k <= x.pos /\ IsLine(e, FirstOf(tag), outlog[k]) => Whole(e, x, tag)
    /\ \A tag \in Tags : Used(tag) =>
          /\ Text(x, tag) \in Seq(Lines)
          /\ Flag(x, tag) => InLog(e, LastOf(tag)) /\ Whole(e, x, tag)

\* Which program points a target has, and what is known when a command is answered; b is
\* the history of who let go.
Ways(e, x, b) ==
    /\ x.pc = "connect" => target # "None"
    /\ x.pc = "wait" => target \in {"PosixShell", "DuckDb"}
    /\ x.pc \in {"side", "drainside"} => target = "SideChannel"
    /\ x.pc = "trail" => target = "DuckDb"
    /\ x.timedOut => b.timed
    /\ x.pc \in {"seek", "drain", "drainside"} => x.timedOut
    /\ x.pc = "finish" \/ (x.pc = "exited" /\ x.code = 0) =>
          x.timedOut \/ /\ Whole(e, x, "O")
                        /\ IF target = "DuckDb" THEN x.err = <<>> \/ x.code = 1
                           ELSE b.graced \/ Whole(e, x, "E")

\* As long as nobody let go of a command that prints, the lines on their way, those after
\* the cursor and those that were read are the command's own.
Clean(tag, b) == ~b.died /\ (tag = "E" => ~b.timed /\ ~b.graced /\ target # "DuckDb")
Owned(tag, e, x, b) ==
    Clean(tag, b) =>
        /\ (\E i \in DOMAIN pipes[tag] : pipes[tag][i].exec = e) => x.pc \in Keeping
        /\ x.pc \in {"connect"} \cup Keeping =>
              \A k \in DOMAIN outlog : k > x.cursor /\ outlog[k].tag = tag => outlog[k].exec = e
        /\ \A k \in DOMAIN Text(x, tag) : Text(x, tag)[k] = Line(e, FirstOf(tag))

AnswerInv ==
    /\ ShellInv /\ Kinds /\ Progress /\ (\A tag \in Tags : InOrder(tag))
    /\ \A e \in Execs : /\ HasRead(e, ex[e]) /\ Ways(e, ex[e], blame)
                        /\ \A tag \in Tags : Owned(tag, e, ex[e], blame)

\* What the parts about the shell's lines depend on.
LEMMA StreamsStand ==
    ASSUME AnswerInv, UNCHANGED <<plan, session, typed, step, pipes, outlog>>, results' \subseteq results,
           \A c \in Execs : ex'[c].pc \in Before => ex[c].pc \in Before
    PROVE  Kinds' /\ Progress' /\ \A tag \in Tags : InOrder(tag)'
<1>1. target' = target /\ Frame' = Frame
    BY DEF target, Frame
<1>2. \A e \in Execs : \A w : Printed(e, w)' = Printed(e, w)
    BY DEF Printed, InLog, InPipe
<1>3. Kinds'
    BY <1>1 DEF AnswerInv, Kinds, PipeKinds
<1>4. Progress'
  <2>1. \A i \in DOMAIN typed : typed[i] \in Execs
    BY DEF AnswerInv, ShellInv, ExecTypes
  <2>2. typed # <<>> => typed[1] \in Execs
    BY DEF AnswerInv, ShellInv, ExecTypes
  <2> QED
    BY <1>1, <1>2, <2>1, <2>2 DEF AnswerInv, Progress
<1>5. \A tag \in Tags : InOrder(tag)'
    BY DEF AnswerInv, InOrder, InLog
<1> QED
    BY <1>3, <1>4, <1>5

\* A step of client e to the record x that leaves the streams.
LEMMA AnswerMoves ==
    ASSUME AnswerInv, ShellInv', NEW e \in Execs, NEW x, ClientRec(x), ExSet(e, x),
           UNCHANGED <<plan, session, typed, step, pipes, outlog>>, results' \subseteq results,
           blame.died => blame'.died, blame.timed => blame'.timed, blame.graced => blame'.graced,
           x.pc \in Before => ex[e].pc \in Before,
           HasRead(e, x), Ways(e, x, blame'), \A tag \in Tags : Owned(tag, e, x, blame')
    PROVE  AnswerInv'
<1>1. ex'[e] = x /\ \A c \in Execs : c # e => ex'[c] = ex[c]
    BY OneClient DEF AnswerInv, ShellInv
<1>2. target' = target
    BY DEF target
<1>3. Kinds' /\ Progress' /\ \A tag \in Tags : InOrder(tag)'
    BY <1>1, StreamsStand
<1>4. ASSUME NEW c \in Execs PROVE HasRead(c, ex[c])' /\ Ways(c, ex[c], blame)'
  <2>1. HasRead(c, ex'[c]) /\ Ways(c, ex'[c], blame')
    <3>1. CASE c = e
      BY <1>1, <3>1
    <3>2. CASE c # e
      BY <1>1, <3>2 DEF AnswerInv, Ways
    <3> QED
      BY <3>1, <3>2
  <2> QED
    BY <1>2, <2>1 DEF HasRead, Ways, InLog, Used, Whole, Text, Flag
<1>5. ASSUME NEW c \in Execs, NEW tag \in Tags PROVE Owned(tag, c, ex[c], blame)'
  <2>1. Owned(tag, c, ex'[c], blame')
    <3>1. CASE c = e
      BY <1>1, <3>1
    <3>2. CASE c # e
      BY <1>1, <3>2 DEF AnswerInv, Owned, Clean
    <3> QED
      BY <3>1, <3>2
  <2> QED
    BY <1>2, <2>1 DEF Owned, Clean, Text
<1> QED
    BY <1>3, <1>4, <1>5 DEF AnswerInv

\* Client e goes away, not with an answer, and leaves none of its lines on their way
\* unless somebody let go.
LEMMA AnswerLeaves ==
    ASSUME AnswerInv, ShellInv', NEW e \in Execs, NEW code \in Nat \ {0}, ExLeaves(e, code),
           UNCHANGED <<plan, session, typed, step, pipes, outlog, results>>,
           blame.died => blame'.died, blame.timed => blame'.timed, blame.graced => blame'.graced,
           \A tag \in Tags : Clean(tag, blame') => \A i \in DOMAIN pipes[tag] : pipes[tag][i].exec # e
    PROVE  AnswerInv'
<1> DEFINE x == [ex[e] EXCEPT !.pc = "exited", !.code = code, !.cursor = 0, !.pos = 0]
<1>0. ClientRec(ex[e]) /\ HasRead(e, ex[e]) /\ Ways(e, ex[e], blame) /\ \A tag \in Tags : Owned(tag, e, ex[e], blame)
    BY DEF AnswerInv, ShellInv, ExecTypes
<1>1. /\ ClientRec(x) /\ x.pc = "exited" /\ x.code # 0 /\ x.timedOut = ex[e].timedOut
      /\ x.out = ex[e].out /\ x.err = ex[e].err /\ x.sentinel = ex[e].sentinel /\ x.marked = ex[e].marked
    BY <1>0 DEF ClientRec
<1>2. ExSet(e, x)
    BY DEF ExLeaves
<1> HIDE DEF x
<1>3. x.pc \notin {"connect", "finish"} \cup Keeping /\ x.pc \notin Before
    BY <1>1 DEF Keeping, Before
<1>4. HasRead(e, x)
  <2>1. \A tag \in Tags : Text(x, tag) = Text(ex[e], tag) /\ Flag(x, tag) = Flag(ex[e], tag)
    BY <1>1 DEF Text, Flag
  <2> QED
    BY <1>0, <1>3, <2>1 DEF HasRead, Whole, Keeping
<1>5. Ways(e, x, blame')
    BY <1>0, <1>1 DEF Ways
<1>6. ASSUME NEW tag \in Tags PROVE Owned(tag, e, x, blame')
  <2>1. Text(x, tag) = Text(ex[e], tag)
    BY <1>1 DEF Text
  <2> QED
    BY <1>0, <1>3, <2>1 DEF Owned, Clean
<1> QED
    BY <1>1, <1>2, <1>3, <1>4, <1>5, <1>6, AnswerMoves

\* Nothing of a command is printed before it is typed.
LEMMA NothingPrinted ==
    ASSUME AnswerInv, NEW e \in Execs, ex[e].pc \in Before
    PROVE  /\ \A tag \in Tags : \A i \in DOMAIN pipes[tag] : pipes[tag][i].exec # e
           /\ \A k \in DOMAIN outlog : outlog[k].exec = e => outlog[k].tag = "A"
<1>0. /\ pipes \in [Tags -> Seq(Lines)] /\ outlog \in Seq(LogLines)
      /\ \A w \in Whats : ~Printed(e, w)
    BY DEF AnswerInv, ShellInv, ExecTypes, Progress, Tags
<1>1. ASSUME NEW tag \in Tags, NEW i \in DOMAIN pipes[tag] PROVE pipes[tag][i].exec # e
  <2>0. pipes[tag] \in Seq(Lines) /\ pipes[tag][i] \in Lines
    BY <1>0
  <2>1. pipes[tag][i].what \in Whats
    BY <2>0 DEF Lines
  <2> QED
    BY <1>0, <2>1 DEF Printed, InPipe, IsLine
<1>2. ASSUME NEW k \in DOMAIN outlog, outlog[k].exec = e PROVE outlog[k].tag = "A"
  <2>0. outlog[k] \in LogLines
    BY <1>0
  <2>1. outlog[k].what \in Whats \cup {"exec"}
    BY <2>0 DEF LogLines
  <2>2. outlog[k].what \notin Whats
    BY <1>0, <1>2 DEF Printed, InLog, IsLine
  <2> QED
    BY <2>1, <2>2 DEF AnswerInv, Kinds, LogKind
<1> QED
    BY <1>1, <1>2

\* Before the command is typed.
LEMMA BeforeAnswers ==
    ASSUME AnswerInv, NEW e \in Execs,
           \/ \E frameOk, supported \in BOOLEAN : ExRefused(e, frameOk, supported)
           \/ ExLocks(e) \/ ExFrames(e) \/ ExNotTyped(e)
    PROVE  AnswerInv'
<1>0. /\ ex[e].pc \in Before /\ blame' = blame
      /\ UNCHANGED <<plan, session, typed, step, pipes, outlog, results>>
    BY DEF ExRefused, ExLocks, ExFrames, ExNotTyped, ExAt, Before, shellVars
<1>1. /\ ShellInv' /\ ClientRec(ex[e]) /\ HasRead(e, ex[e]) /\ Ways(e, ex[e], blame)
      /\ \A tag \in Tags : Owned(tag, e, ex[e], blame)
    BY BeforeKeeps DEF AnswerInv, ShellInv, ExecTypes
<1>2. /\ \A tag \in Tags : \A i \in DOMAIN pipes[tag] : pipes[tag][i].exec # e
      /\ \A k \in DOMAIN outlog : outlog[k].exec = e => outlog[k].tag = "A"
    BY <1>0, NothingPrinted
<1>3. ASSUME NEW code \in {1, 2}, ExLeaves(e, code) PROVE AnswerInv'
    BY <1>0, <1>1, <1>2, <1>3, AnswerLeaves
<1>4. CASE ExLocks(e) /\ execLock = 0
  <2> DEFINE x == [ex[e] EXCEPT !.pc = "frame"]
  <2>1. ExSet(e, x)
    BY <1>4 DEF ExLocks, ExGo
  <2>2. /\ ClientRec(x) /\ x.pc = "frame" /\ x.timedOut = ex[e].timedOut
        /\ x.out = ex[e].out /\ x.err = ex[e].err /\ x.sentinel = ex[e].sentinel /\ x.marked = ex[e].marked
    BY <1>1 DEF ClientRec, Before
  <2> HIDE DEF x
  <2>3. \A tag \in Tags : Text(x, tag) = Text(ex[e], tag) /\ Flag(x, tag) = Flag(ex[e], tag)
    BY <2>2 DEF Text, Flag
  <2>4. HasRead(e, x)
    BY <1>1, <2>2, <2>3 DEF HasRead, Whole, Keeping
  <2>5. Ways(e, x, blame)
    BY <1>1, <2>2 DEF Ways
  <2>6. \A tag \in Tags : Owned(tag, e, x, blame)
    BY <1>1, <1>2, <2>2, <2>3 DEF Owned, Keeping
  <2> QED
    BY <1>0, <1>1, <2>1, <2>2, <2>4, <2>5, <2>6, AnswerMoves
<1>5. CASE ExFrames(e) /\ target # "None"
  <2> DEFINE n == Len(outlog)
             m == target # "PosixShell"
             x == [ex[e] EXCEPT !.pc = "connect", !.cursor = n, !.pos = n, !.marked = m]
  <2>1. ExSet(e, x)
    BY <1>5 DEF ExFrames
  <2>2. n \in Nat /\ n = Len(outlog) /\ DOMAIN outlog = 1..n
    BY DEF AnswerInv, ShellInv, ExecTypes
  <2>3. m \in BOOLEAN /\ (m <=> target # "PosixShell")
    OBVIOUS
  <2> HIDE DEF n, m
  <2>4. /\ ClientRec(x) /\ x.pc = "connect" /\ x.timedOut = ex[e].timedOut /\ x.cursor = n /\ x.pos = n
        /\ x.out = ex[e].out /\ x.err = ex[e].err /\ x.sentinel = ex[e].sentinel /\ x.marked = m
    BY <1>1, <2>2, <2>3 DEF ClientRec, Before
  <2> HIDE DEF x
  <2>5. \A tag \in Tags : Text(x, tag) = Text(ex[e], tag)
    BY <2>4 DEF Text
  <2>6. \A tag \in Tags : Used(tag) /\ Flag(x, tag) => Flag(ex[e], tag)
    BY <2>3, <2>4 DEF Used, Flag
  <2>7. HasRead(e, x)
    BY <1>1, <1>2, <2>2, <2>3, <2>4, <2>5, <2>6 DEF HasRead, Whole
  <2>8. Ways(e, x, blame)
    BY <1>1, <1>5, <2>4 DEF Ways
  <2>9. \A tag \in Tags : Owned(tag, e, x, blame)
    BY <1>1, <1>2, <2>2, <2>4, <2>5 DEF Owned
  <2>10. x.pc \in Before
    BY <2>4 DEF Before
  <2> QED
    BY <1>0, <1>1, <2>1, <2>4, <2>7, <2>8, <2>9, <2>10, AnswerMoves
<1> QED
    BY <1>3, <1>4, <1>5 DEF ExRefused, ExLocks, ExFrames, ExNotTyped

\* A command is typed: it is the last frame, and nothing of it is printed.
LEMMA TypesAnswers ==
    ASSUME AnswerInv, NEW e \in Execs, ExTypes(e)
    PROVE  AnswerInv'
<1> DEFINE p == IF target = "SideChannel" THEN "side" ELSE "wait"
           x == [ex[e] EXCEPT !.pc = p]
<1>0. /\ ShellInv' /\ ExecTypes /\ ClientRec(ex[e]) /\ HasRead(e, ex[e]) /\ Ways(e, ex[e], blame)
      /\ \A tag \in Tags : Owned(tag, e, ex[e], blame)
      /\ ex[e].pc = "connect" /\ ex[e].pc \in Before /\ typed \in Seq(Execs) /\ plan \in Plans
    BY TypesKeeps DEF AnswerInv, ShellInv, ExecTypes, ExTypes, ExAt, Before
<1>1. /\ UNCHANGED <<plan, session, step, pipes, results, outlog, execLock, blame>>
      /\ typed' = Append(typed, e) /\ ExSet(e, x)
    BY DEF ExTypes, ExGo
<1>2. /\ p \in Keeping /\ p \in {"wait", "side"} /\ (p = "side" => target = "SideChannel")
      /\ p = "wait" => target \in {"PosixShell", "DuckDb"}
  <2>1. target \in {"PosixShell", "DuckDb", "SideChannel", "None"}
    BY <1>0, ExecAssumption DEF target
  <2> QED
    BY <1>0, <2>1 DEF Keeping, Ways
<1> HIDE DEF p
<1>3. /\ ClientRec(x) /\ x.pc = p /\ x.timedOut = ex[e].timedOut /\ x.cursor = ex[e].cursor /\ x.pos = ex[e].pos
      /\ x.out = ex[e].out /\ x.err = ex[e].err /\ x.sentinel = ex[e].sentinel /\ x.marked = ex[e].marked
    BY <1>0, <1>2 DEF ClientRec
<1> HIDE DEF x
<1>4. \A tag \in Tags : Text(x, tag) = Text(ex[e], tag) /\ Flag(x, tag) = Flag(ex[e], tag)
    BY <1>3 DEF Text, Flag
<1>5. ex'[e] = x /\ \A c \in Execs : c # e => ex'[c] = ex[c]
    BY <1>0, <1>1, <1>3, OneClient
<1>6. target' = target /\ Frame' = Frame
    BY <1>1 DEF target, Frame
<1>7. HasRead(e, x)
  <2>1. x.pc \in {"connect", "finish"} \cup Keeping /\ (x.pc \in {"connect", "wait"} => ex[e].pc \in {"connect", "wait"})
    BY <1>0, <1>2, <1>3
  <2> QED
    BY <1>0, <1>3, <1>4, <2>1 DEF HasRead, Whole
<1>8. Ways(e, x, blame)
    BY <1>0, <1>2, <1>3 DEF Ways
<1>9. \A tag \in Tags : Owned(tag, e, x, blame)
    BY <1>0, <1>2, <1>3, <1>4 DEF Owned
<1>10. Kinds' /\ \A tag \in Tags : InOrder(tag)'
    BY <1>1, <1>6 DEF AnswerInv, Kinds, PipeKinds, InOrder, InLog
<1>11. Progress'
  <2>1. \A c, w : Printed(c, w)' = Printed(c, w)
    BY <1>1 DEF Printed, InLog, InPipe
  <2>2. \A w \in Whats : ~Printed(e, w)
    BY <1>0 DEF AnswerInv, Progress
  <2>3. ASSUME NEW c \in Execs, ex'[c].pc \in Before PROVE \A w \in Whats : ~Printed(c, w)
    <3>1. ex[c].pc \in Before
      BY <1>0, <1>5, <2>3
    <3> QED
      BY <3>1 DEF AnswerInv, Progress
  <2>4. /\ DOMAIN typed = 1..Len(typed) /\ DOMAIN typed' = 1..Len(typed) + 1 /\ Len(typed) \in Nat
        /\ \A i \in DOMAIN typed : typed'[i] = typed[i]
        /\ typed'[Len(typed) + 1] = e /\ typed' # <<>>
        /\ (typed = <<>> => Len(typed) = 0) /\ (typed # <<>> => 1 \in DOMAIN typed)
    BY <1>0, <1>1
  <2>5. ASSUME NEW i \in DOMAIN typed', i # 1 PROVE \A w \in Whats : ~Printed(typed'[i], w)
    <3>1. CASE i \in DOMAIN typed
      BY <2>4, <2>5, <3>1 DEF AnswerInv, Progress
    <3>2. CASE i \notin DOMAIN typed
      <4>1. i = Len(typed) + 1
        BY <2>4, <2>5, <3>2
      <4> QED
        BY <2>2, <2>4, <4>1
    <3> QED
      BY <3>1, <3>2
  <2>6. /\ \A w \in Whats : Printed(typed'[1], w) => \E n \in 1..step : Frame[n][2] = w
        /\ \A n \in 1..step : Printed(typed'[1], Frame[n][2])
    <3>1. CASE typed = <<>>
      <4>1. step = 0 /\ typed'[1] = e
        BY <2>4, <3>1 DEF AnswerInv, Progress
      <4> QED
        BY <2>2, <4>1
    <3>2. CASE typed # <<>>
      <4>1. typed'[1] = typed[1]
        BY <2>4, <3>2
      <4> QED
        BY <3>2, <4>1 DEF AnswerInv, Progress
    <3> QED
      BY <3>1, <3>2
  <2>7. \A i \in DOMAIN typed' : i # 1 => \A w \in Whats : ~Printed(typed[i], w)'
    BY <2>1, <2>5
  <2>8. /\ \A w \in Whats : Printed(typed[1], w)' => \E n \in 1..step' : Frame'[n][2] = w
        /\ \A n \in 1..step' : Printed(typed[1], Frame[n][2])'
    BY <1>1, <1>6, <2>1, <2>6
  <2>9. \A c \in Execs : ex'[c].pc \in Before => \A w \in Whats : ~Printed(c, w)'
    BY <2>1, <2>3
  <2> QED
    BY <2>4, <2>7, <2>8, <2>9 DEF Progress
<1>12. ASSUME NEW c \in Execs
       PROVE  /\ HasRead(c, ex[c])' /\ Ways(c, ex[c], blame)'
              /\ \A tag \in Tags : Owned(tag, c, ex[c], blame)'
  <2>1. HasRead(c, ex'[c]) /\ Ways(c, ex'[c], blame) /\ \A tag \in Tags : Owned(tag, c, ex'[c], blame)
    <3>1. CASE c = e
      BY <1>5, <1>7, <1>8, <1>9, <3>1
    <3>2. CASE c # e
      BY <1>5, <3>2 DEF AnswerInv
    <3> QED
      BY <3>1, <3>2
  <2>2. HasRead(c, ex[c])'
    BY <1>1, <1>6, <2>1 DEF HasRead, InLog, Used, Whole, Text, Flag
  <2>3. Ways(c, ex[c], blame)'
    BY <1>1, <1>6, <2>1 DEF Ways, Whole, Text
  <2>4. \A tag \in Tags : Owned(tag, c, ex[c], blame)'
    BY <1>1, <1>6, <2>1 DEF Owned, Clean, Text
  <2> QED
    BY <2>2, <2>3, <2>4
<1> QED
    BY <1>0, <1>10, <1>11, <1>12 DEF AnswerInv

\* A client that waits for its command goes on and leaves what it has read.
LEMMA AnswerGoesOn ==
    ASSUME AnswerInv, ShellInv', NEW e \in Execs, NEW x, ClientRec(x), ExSet(e, x),
           UNCHANGED <<plan, session, typed, step, pipes, outlog>>, results' \subseteq results,
           blame.died => blame'.died, blame.timed => blame'.timed, blame.graced => blame'.graced,
           ex[e].pc \in Keeping, x.pc \in (Keeping \ {"wait"}) \cup {"finish"},
           x.cursor = ex[e].cursor, x.out = ex[e].out, x.err = ex[e].err \/ target = "DuckDb",
           x.sentinel = ex[e].sentinel, x.marked = ex[e].marked,
           Ways(e, x, blame'),
           x.pc = "finish" =>
              \A tag \in Tags : Clean(tag, blame') => \A i \in DOMAIN pipes[tag] : pipes[tag][i].exec # e
    PROVE  AnswerInv'
<1>0. HasRead(e, ex[e]) /\ \A tag \in Tags : Owned(tag, e, ex[e], blame)
    BY DEF AnswerInv
<1>1. x.pc \notin Before /\ x.pc \notin {"connect", "wait"}
    BY DEF Before, Keeping
<1>2. \A tag \in Tags : tag = "O" \/ target # "DuckDb" => Text(x, tag) = Text(ex[e], tag)
    BY DEF Text, Tags
<1>3. \A tag \in Tags : Flag(x, tag) = Flag(ex[e], tag)
    BY DEF Flag
<1>4. HasRead(e, x)
  <2>1. \A tag \in Tags : Used(tag) => Text(x, tag) = Text(ex[e], tag)
    BY <1>2 DEF Used
  <2> QED
    BY <1>0, <1>1, <1>3, <2>1 DEF HasRead, Whole
<1>5. ASSUME NEW tag \in Tags, Clean(tag, blame') PROVE Owned(tag, e, x, blame')
  <2>1. Clean(tag, blame) /\ Text(x, tag) = Text(ex[e], tag)
    BY <1>2, <1>5 DEF Clean, Tags
  <2> QED
    BY <1>0, <1>1, <1>5, <2>1 DEF Owned
<1>6. \A tag \in Tags : Owned(tag, e, x, blame')
    BY <1>5 DEF Owned
<1> QED
    BY <1>1, <1>4, <1>6, AnswerMoves

\* Once a command's last line on one of the two ways is logged, none is on its way there.
LEMMA NoneFollow ==
    ASSUME AnswerInv, NEW e \in Execs, NEW tag \in Tags, InLog(e, LastOf(tag))
    PROVE  \A i \in DOMAIN pipes[tag] : pipes[tag][i].exec # e
BY DEF AnswerInv, InLog, InOrder

\* The sentinel and the marker were seen, or the time is up, or there is no more.
LEMMA WaitingAnswers ==
    ASSUME AnswerInv, NEW e \in Execs, ExCompletes(e) \/ ExTimesOut(e) \/ ExAtEof(e)
    PROVE  AnswerInv'
<1>0. /\ ExecTypes /\ ex[e].pc = "wait" /\ ex[e].pc \in Keeping /\ results' \subseteq results
      /\ UNCHANGED <<plan, session, typed, step, pipes, outlog, results>> /\ ClientRec(ex[e])
      /\ blame \in [died : BOOLEAN, timed : BOOLEAN, graced : BOOLEAN] /\ ShellInv' /\ ShellInv
    BY WaitingKeeps
       DEF AnswerInv, ShellInv, ExCompletes, ExTimesOut, ExAtEof, ExAt, Keeping, shellVars, ExecTypes
<1>1. /\ HasRead(e, ex[e]) /\ Ways(e, ex[e], blame) /\ \A tag \in Tags : Owned(tag, e, ex[e], blame)
      /\ target \in {"PosixShell", "DuckDb"} /\ (target # "PosixShell" => ex[e].marked)
    BY <1>0 DEF AnswerInv, Ways, HasRead
<1>2. /\ ex[e].sentinel => InLog(e, LastOf("O")) /\ Whole(e, ex[e], "O")
      /\ (ex[e].marked /\ target = "PosixShell" => InLog(e, LastOf("E")) /\ Whole(e, ex[e], "E"))
    BY <1>1 DEF HasRead, Flag, Used, Tags
<1>3. ASSUME NEW p \in {"finish", "trail"}, ExGo(e, p), ex[e].sentinel, blame'.timed = blame.timed,
             blame.died => blame'.died, blame.graced => blame'.graced, p = "trail" <=> target = "DuckDb",
             p = "finish" => blame'.graced \/ ex[e].marked
      PROVE  AnswerInv'
  <2> DEFINE x == [ex[e] EXCEPT !.pc = p]
  <2>1. ExSet(e, x) /\ p \in (Keeping \ {"wait"}) \cup {"finish"}
    BY <1>3 DEF ExGo, Keeping
  <2>2. /\ ClientRec(x) /\ x.pc = p /\ x.timedOut = ex[e].timedOut /\ x.cursor = ex[e].cursor /\ x.pos = ex[e].pos
        /\ x.out = ex[e].out /\ x.err = ex[e].err /\ x.sentinel = ex[e].sentinel /\ x.marked = ex[e].marked
    BY <1>0, <2>1 DEF ClientRec
  <2> HIDE DEF x
  <2>3. \A tag \in Tags : Whole(e, ex[e], tag) => Whole(e, x, tag)
    BY <2>2 DEF Whole, Text
  <2>4. x.pc = "finish" => Whole(e, x, "O") /\ (blame'.graced \/ Whole(e, x, "E"))
    BY <1>1, <1>2, <1>3, <2>2, <2>3 DEF Tags
  <2>5. Ways(e, x, blame')
    BY <1>1, <1>3, <2>2, <2>4 DEF Ways
  <2>6. ASSUME x.pc = "finish", NEW tag \in Tags, Clean(tag, blame')
        PROVE  \A i \in DOMAIN pipes[tag] : pipes[tag][i].exec # e
    <3>1. InLog(e, LastOf(tag))
      BY <1>1, <1>2, <1>3, <2>2, <2>6 DEF Clean, Tags
    <3> QED
      BY <3>1, NoneFollow
  <2> QED
    BY <1>0, <1>3, <2>1, <2>2, <2>5, <2>6, AnswerGoesOn
<1>4. CASE ExCompletes(e)
    BY <1>1, <1>3, <1>4 DEF ExCompletes, ExComplete, AfterWait
<1>5. CASE ExTimesOut(e)
  <2> DEFINE p == IF target = "DuckDb" THEN "trail" ELSE "seek"
             x == [ex[e] EXCEPT !.timedOut = TRUE, !.pc = p]
  <2>1. /\ ExSet(e, x) /\ blame' = [blame EXCEPT !.timed = TRUE]
        /\ p \in (Keeping \ {"wait"}) \cup {"finish"} /\ p \in {"trail", "seek"} /\ (p = "trail" => target = "DuckDb")
    BY <1>5 DEF ExTimesOut, Keeping
  <2>2. blame'.timed /\ (blame.died => blame'.died) /\ (blame.graced => blame'.graced)
    BY <1>0, <2>1
  <2> HIDE DEF p
  <2>3. /\ ClientRec(x) /\ x.pc = p /\ x.timedOut /\ x.cursor = ex[e].cursor /\ x.pos = ex[e].pos
        /\ x.out = ex[e].out /\ x.err = ex[e].err /\ x.sentinel = ex[e].sentinel /\ x.marked = ex[e].marked
    BY <1>0, <2>1 DEF ClientRec
  <2> HIDE DEF x
  <2>4. Ways(e, x, blame')
    BY <2>1, <2>2, <2>3 DEF Ways
  <2> QED
    BY <1>0, <2>1, <2>2, <2>3, <2>4, AnswerGoesOn
<1>6. CASE ExAtEof(e)
  <2>1. CASE ex[e].sentinel
    <3>1. ExGo(e, "finish") /\ blame' = [blame EXCEPT !.graced = TRUE] /\ ~ex[e].marked
      BY <1>6, <2>1 DEF ExAtEof, ExComplete
    <3>2. blame'.timed = blame.timed /\ (blame.died => blame'.died) /\ blame'.graced
      BY <1>0, <3>1
    <3> QED
      BY <1>1, <1>3, <2>1, <3>1, <3>2
  <2>2. CASE ~ex[e].sentinel
    <3>1. ~session.running /\ ExLeaves(e, 1) /\ blame' = blame
      BY <1>6, <2>2 DEF ExAtEof
    <3>2. \A tag \in Tags : pipes[tag] = <<>>
      BY <3>1 DEF AnswerInv, Kinds
    <3> QED
      BY <1>0, <3>1, <3>2, AnswerLeaves
  <2> QED
    BY <2>1, <2>2
<1> QED
    BY <1>4, <1>5, <1>6

\* Reading a line of the log: the command's own last line on a way sets that way's flag,
\* any other line of that way is text.
LEMMA AcceptLineReads ==
    ASSUME NEW e \in Execs, NEW x, ClientRec(x), NEW l \in LogLines
    PROVE  LET y == AcceptLine(e, x, l)
           IN  /\ ClientRec(y) /\ y.pc = x.pc /\ y.cursor = x.cursor /\ y.pos = x.pos
               /\ y.timedOut = x.timedOut /\ y.code = x.code
               /\ \A tag \in Tags :
                     /\ l.tag # tag => Text(y, tag) = Text(x, tag) /\ Flag(y, tag) = Flag(x, tag)
                     /\ (l.tag = tag /\ IsLine(e, LastOf(tag), l) => Text(y, tag) = Text(x, tag) /\ Flag(y, tag))
                     /\ (l.tag = tag /\ ~IsLine(e, LastOf(tag), l) =>
                            /\ Text(y, tag) = Append(Text(x, tag), Line(l.exec, l.what))
                            /\ Flag(y, tag) = Flag(x, tag))
<1> DEFINE own == l.exec = e
           ends == own /\ l.what = "sentinel"
           marks == own /\ l.what = "marker"
           y == AcceptLine(e, x, l)
<1>1. CASE l.tag = "O" /\ ends
  <2>1. y = [x EXCEPT !.sentinel = TRUE]
    BY <1>1 DEF AcceptLine
  <2>2. /\ ClientRec(y) /\ y.pc = x.pc /\ y.cursor = x.cursor /\ y.pos = x.pos /\ y.timedOut = x.timedOut
        /\ y.code = x.code /\ y.out = x.out /\ y.err = x.err /\ y.sentinel /\ y.marked = x.marked
    BY <2>1 DEF ClientRec
  <2> QED
    BY <1>1, <2>2 DEF Tags, Text, Flag, IsLine, LastOf
<1>2. CASE l.tag = "O" /\ ~ends
  <2>1. y = [x EXCEPT !.out = Append(x.out, Line(l.exec, l.what))]
    BY <1>2 DEF AcceptLine
  <2>2. /\ ClientRec(y) /\ y.pc = x.pc /\ y.cursor = x.cursor /\ y.pos = x.pos /\ y.timedOut = x.timedOut
        /\ y.code = x.code /\ y.out = Append(x.out, Line(l.exec, l.what)) /\ y.err = x.err
        /\ y.sentinel = x.sentinel /\ y.marked = x.marked
    BY <2>1 DEF ClientRec
  <2> QED
    BY <1>2, <2>2 DEF Tags, Text, Flag, IsLine, LastOf
<1>3. CASE l.tag = "E" /\ marks
  <2>1. y = [x EXCEPT !.marked = TRUE]
    BY <1>3 DEF AcceptLine
  <2>2. /\ ClientRec(y) /\ y.pc = x.pc /\ y.cursor = x.cursor /\ y.pos = x.pos /\ y.timedOut = x.timedOut
        /\ y.code = x.code /\ y.out = x.out /\ y.err = x.err /\ y.sentinel = x.sentinel /\ y.marked
    BY <2>1 DEF ClientRec
  <2> QED
    BY <1>3, <2>2 DEF Tags, Text, Flag, IsLine, LastOf
<1>4. CASE l.tag = "E" /\ ~marks
  <2>1. y = [x EXCEPT !.err = Append(x.err, Line(l.exec, l.what))]
    BY <1>4 DEF AcceptLine
  <2>2. /\ ClientRec(y) /\ y.pc = x.pc /\ y.cursor = x.cursor /\ y.pos = x.pos /\ y.timedOut = x.timedOut
        /\ y.code = x.code /\ y.err = Append(x.err, Line(l.exec, l.what)) /\ y.out = x.out
        /\ y.sentinel = x.sentinel /\ y.marked = x.marked
    BY <2>1 DEF ClientRec
  <2> QED
    BY <1>4, <2>2 DEF Tags, Text, Flag, IsLine, LastOf
<1>5. CASE l.tag \notin {"O", "E"}
  <2>1. y = x
    BY <1>5 DEF AcceptLine
  <2> QED
    BY <1>5, <2>1 DEF Tags
<1> QED
    BY <1>1, <1>2, <1>3, <1>4, <1>5

\* What a sequence contains it contains with one more at its end, and that one too.
LEMMA ContainsAppend ==
    ASSUME NEW S, NEW s \in Seq(S), NEW a \in S
    PROVE  Contains(Append(s, a), a) /\ \A b : Contains(s, b) => Contains(Append(s, a), b)
<1>1. /\ Len(Append(s, a)) = Len(s) + 1 /\ Len(s) \in Nat /\ Append(s, a)[Len(s) + 1] = a
      /\ \A i \in 1..Len(s) : Append(s, a)[i] = s[i]
    OBVIOUS
<1>2. Len(s) + 1 \in 1..Len(Append(s, a)) /\ \A i \in 1..Len(s) : i \in 1..Len(Append(s, a))
    BY <1>1
<1> QED
    BY <1>1, <1>2 DEF Contains

\* The next line of the log is read.
LEMMA ReadsAnswers ==
    ASSUME AnswerInv, NEW e \in Execs, ExReads(e)
    PROVE  AnswerInv'
<1> DEFINE n == ex[e].pos + 1
           l == outlog[n]
           y == AcceptLine(e, ex[e], l)
           x == [y EXCEPT !.pos = n]
<1>0. /\ ex[e].pc = "wait" /\ UNCHANGED <<plan, session, typed, step, pipes, outlog, results, blame>>
      /\ ClientRec(ex[e]) /\ outlog \in Seq(LogLines) /\ ShellInv' /\ ex[e].pos < Len(outlog)
    BY WaitingKeeps DEF AnswerInv, ShellInv, ExReads, ExAt, shellVars, ExecTypes
<1>1. /\ HasRead(e, ex[e]) /\ Ways(e, ex[e], blame) /\ \A tag \in Tags : Owned(tag, e, ex[e], blame)
      /\ target \in {"PosixShell", "DuckDb"}
    BY <1>0 DEF AnswerInv, Ways
<1>2. /\ ex[e].pos \in Nat /\ ex[e].cursor \in Nat /\ ex[e].cursor <= ex[e].pos /\ Len(outlog) \in Nat
      /\ n \in DOMAIN outlog /\ n \in Nat /\ l \in LogLines /\ n <= Len(outlog) /\ ex[e].cursor < n
      /\ DOMAIN outlog = 1..Len(outlog)
    BY <1>0, <1>1 DEF HasRead, ClientRec
<1>3. LogKind(l) /\ \A k \in DOMAIN outlog : LogKind(outlog[k])
    BY <1>2 DEF AnswerInv, Kinds
<1>4. ExSet(e, [y EXCEPT !.pos = y.pos + 1])
    BY DEF ExReads
<1>5. /\ ClientRec(y) /\ y.pc = "wait" /\ y.cursor = ex[e].cursor /\ y.pos = ex[e].pos
      /\ y.timedOut = ex[e].timedOut /\ y.code = ex[e].code
      /\ \A tag \in Tags :
            /\ l.tag # tag => Text(y, tag) = Text(ex[e], tag) /\ Flag(y, tag) = Flag(ex[e], tag)
            /\ (l.tag = tag /\ IsLine(e, LastOf(tag), l) => Text(y, tag) = Text(ex[e], tag) /\ Flag(y, tag))
            /\ (l.tag = tag /\ ~IsLine(e, LastOf(tag), l) =>
                   /\ Text(y, tag) = Append(Text(ex[e], tag), Line(l.exec, l.what))
                   /\ Flag(y, tag) = Flag(ex[e], tag))
  <2> HIDE DEF l
  <2> QED
    BY <1>0, <1>2, AcceptLineReads, ZenonT(30)
<1> HIDE DEF l, n, y
<1>6. /\ ClientRec(x) /\ x.pc = "wait" /\ x.cursor = ex[e].cursor /\ x.pos = n
      /\ x.timedOut = ex[e].timedOut /\ x.out = y.out /\ x.err = y.err /\ x.sentinel = y.sentinel
      /\ x.marked = y.marked /\ ExSet(e, x)
    BY <1>2, <1>4, <1>5 DEF ClientRec, n
<1> HIDE DEF x
<1>7. \A tag \in Tags : Text(x, tag) = Text(y, tag) /\ Flag(x, tag) = Flag(y, tag)
    BY <1>6 DEF Text, Flag
<1>8. l.tag \in Tags => Line(l.exec, l.what) \in Lines /\ l.what \in {FirstOf(l.tag), LastOf(l.tag)}
    BY <1>2, <1>3 DEF LogKind, Line, Lines, LogLines, Tags, FirstOf, LastOf, Whats
<1>9. ASSUME NEW tag \in Tags, Used(tag)
      PROVE  /\ Text(x, tag) \in Seq(Lines)
             /\ Whole(e, ex[e], tag) => Whole(e, x, tag)
             /\ IsLine(e, FirstOf(tag), l) => Whole(e, x, tag)
             /\ Flag(ex[e], tag) => Flag(x, tag)
  <2>1. Text(ex[e], tag) \in Seq(Lines)
    BY <1>1, <1>9 DEF HasRead
  <2>2. IsLine(e, FirstOf(tag), l) => l.tag = tag /\ ~IsLine(e, LastOf(tag), l) /\ Line(l.exec, l.what) = Line(e, FirstOf(tag))
    BY <1>2, <1>3, <1>9 DEF IsLine, LogKind, LogLines, Tags, FirstOf, LastOf
  <2>3. CASE l.tag = tag /\ ~IsLine(e, LastOf(tag), l)
    <3> DEFINE a == Line(l.exec, l.what)
    <3>1. Text(x, tag) = Append(Text(ex[e], tag), a) /\ a \in Lines
      BY <1>5, <1>7, <1>8, <2>3
    <3> HIDE DEF a
    <3>2. /\ Contains(Text(x, tag), a) /\ \A b : Contains(Text(ex[e], tag), b) => Contains(Text(x, tag), b)
      BY <2>1, <3>1, ContainsAppend
    <3> QED
      BY <1>5, <1>7, <2>1, <2>2, <2>3, <3>1, <3>2 DEF Whole, a
  <2>4. CASE ~(l.tag = tag /\ ~IsLine(e, LastOf(tag), l))
    <3>1. Text(x, tag) = Text(ex[e], tag) /\ (Flag(ex[e], tag) => Flag(x, tag))
      BY <1>5, <1>7, <2>4
    <3> QED
      BY <2>1, <2>2, <2>4, <3>1 DEF Whole
  <2> QED
    BY <2>3, <2>4
<1>10. ASSUME NEW tag \in Tags, Used(tag), Flag(x, tag) PROVE InLog(e, LastOf(tag)) /\ Whole(e, x, tag)
  <2>1. CASE Flag(ex[e], tag)
    BY <1>1, <1>9, <1>10, <2>1 DEF HasRead
  <2>2. CASE ~Flag(ex[e], tag)
    <3>1. l.tag = tag /\ IsLine(e, LastOf(tag), l)
      BY <1>5, <1>7, <1>10, <2>2
    <3>2. IsLine(e, LastOf(tag), outlog[n])
      BY <3>1 DEF l
    <3>3. PICK j \in DOMAIN outlog : j < n /\ IsLine(e, FirstOf(tag), outlog[j])
      BY <1>2, <3>2 DEF AnswerInv, InOrder
    <3>4. outlog[j].tag # "A" /\ outlog[j].exec = e
      BY <1>3, <1>10, <3>3 DEF IsLine, LogKind, FirstOf
    <3>5. j > ex[e].cursor /\ j <= ex[e].pos
      <4>1. j \in Nat /\ n = ex[e].pos + 1
        BY <1>2 DEF n
      <4>2. ex[e].pc \in {"connect", "finish"} \cup Keeping
        BY <1>0 DEF Keeping
      <4> QED
        BY <1>1, <1>2, <3>3, <3>4, <4>1, <4>2 DEF HasRead
    <3>6. Whole(e, ex[e], tag)
      BY <1>0, <1>1, <1>10, <3>3, <3>5 DEF HasRead
    <3> QED
      BY <1>2, <1>9, <1>10, <3>2, <3>6 DEF InLog
  <2> QED
    BY <2>1, <2>2
<1>11. ASSUME NEW k \in DOMAIN outlog, NEW tag \in Tags, Used(tag), k > x.cursor, k <= x.pos,
              IsLine(e, FirstOf(tag), outlog[k])
       PROVE  Whole(e, x, tag)
  <2>1. CASE k = n
    BY <1>9, <1>11, <2>1 DEF l
  <2>2. CASE k # n
    <3>1. k <= ex[e].pos /\ k > ex[e].cursor
      BY <1>2, <1>6, <1>11, <2>2 DEF n
    <3> QED
      BY <1>0, <1>1, <1>9, <1>11, <3>1 DEF HasRead
  <2> QED
    BY <2>1, <2>2
<1>12. HasRead(e, x)
  <2>1. target # "PosixShell" => x.marked
    <3>1. ex[e].marked => x.marked
      BY <1>5, <1>7 DEF Flag, Tags
    <3> QED
      BY <1>0, <1>1, <3>1 DEF HasRead
  <2>2. x.cursor <= x.pos /\ x.pos <= Len(outlog) /\ x.cursor <= Len(outlog)
    BY <1>2, <1>6
  <2>3. \A k \in DOMAIN outlog : outlog[k].exec = e /\ outlog[k].tag # "A" => k > x.cursor
    BY <1>0, <1>1, <1>6 DEF HasRead, Keeping
  <2> QED
    BY <1>9, <1>10, <1>11, <2>1, <2>2, <2>3 DEF HasRead
<1>13. Ways(e, x, blame)
    BY <1>1, <1>6 DEF Ways
<1>14. ASSUME NEW tag \in Tags, Clean(tag, blame) PROVE Owned(tag, e, x, blame)
  <2>1. Used(tag)
    BY <1>1, <1>14 DEF Used, Clean, Tags
  <2>2. /\ \A k \in DOMAIN outlog : k > ex[e].cursor /\ outlog[k].tag = tag => outlog[k].exec = e
        /\ \A k \in DOMAIN Text(ex[e], tag) : Text(ex[e], tag)[k] = Line(e, FirstOf(tag))
    BY <1>0, <1>1, <1>14 DEF Owned, Keeping
  <2>3. \A k \in DOMAIN Text(x, tag) : Text(x, tag)[k] = Line(e, FirstOf(tag))
    <3>1. CASE l.tag = tag /\ ~IsLine(e, LastOf(tag), l)
      <4>1. l.exec = e /\ l.what = FirstOf(tag)
        BY <1>2, <1>8, <2>2, <3>1 DEF l, IsLine
      <4>2. Text(x, tag) = Append(Text(ex[e], tag), Line(e, FirstOf(tag)))
        BY <1>5, <1>7, <3>1, <4>1
      <4>3. Text(ex[e], tag) \in Seq(Lines)
        BY <1>1, <2>1 DEF HasRead
      <4> QED
        BY <2>2, <4>2, <4>3
    <3>2. CASE ~(l.tag = tag /\ ~IsLine(e, LastOf(tag), l))
      BY <1>5, <1>7, <2>2, <3>2
    <3> QED
      BY <3>1, <3>2
  <2>4. x.pc \in Keeping
    BY <1>6 DEF Keeping
  <2> QED
    BY <1>6, <2>2, <2>3, <2>4 DEF Owned
<1>15. \A tag \in Tags : Owned(tag, e, x, blame)
    BY <1>14 DEF Owned
<1>16. x.pc \notin Before
    BY <1>6 DEF Before
<1> QED
    BY <1>0, <1>6, <1>12, <1>13, <1>15, <1>16, AnswerMoves

\* After the sentinel, the result file, and after a timeout.
LEMMA DrainingAnswers ==
    ASSUME AnswerInv, NEW e \in Execs,
           \/ \E n \in ex[e].cursor..Len(outlog) : ExTrails(e, n)
           \/ ExSideResult(e) \/ ExSideTimesOut(e) \/ ExSideEnds(e)
           \/ ExDrainSide(e) \/ ExSeeks(e) \/ ExDrains(e)
    PROVE  AnswerInv'
<1>0. /\ ex[e].pc \in Keeping /\ results' \subseteq results
      /\ UNCHANGED <<plan, session, typed, step, pipes, outlog>>
  <2>1. ASSUME NEW n, ExTrails(e, n)
        PROVE  ex[e].pc \in Keeping /\ UNCHANGED <<plan, session, typed, step, pipes, outlog, results>>
    BY <2>1 DEF ExTrails, ExAt, Keeping, shellVars
  <2>2. ASSUME ExSideResult(e) \/ ExSideTimesOut(e) \/ ExSideEnds(e) \/ ExDrainSide(e) \/ ExSeeks(e) \/ ExDrains(e)
        PROVE  /\ ex[e].pc \in Keeping /\ UNCHANGED <<plan, session, typed, step, pipes, outlog>>
               /\ results' \subseteq results
    BY <2>2 DEF ExSideResult, ExSideTimesOut, ExSideEnds, ExDrainSide, ExSeeks, ExDrains, ExAt, Keeping, shellVars
  <2> QED
    BY <2>1, <2>2
<1>1. /\ ShellInv /\ ShellInv' /\ ClientRec(ex[e]) /\ blame \in [died : BOOLEAN, timed : BOOLEAN, graced : BOOLEAN]
      /\ outlog \in Seq(LogLines) /\ HasRead(e, ex[e]) /\ Ways(e, ex[e], blame)
      /\ \A tag \in Tags : Owned(tag, e, ex[e], blame)
    BY DrainingKeeps DEF AnswerInv, ShellInv, ExecTypes
<1>2. ex[e].sentinel => InLog(e, LastOf("O")) /\ Whole(e, ex[e], "O")
    BY <1>1 DEF HasRead, Flag, Used, Tags
<1>3. /\ ~session.running => \A tag \in Tags : pipes[tag] = <<>>
      /\ (target = "SideChannel" => \A tag \in Tags : pipes[tag] = <<>>)
    BY DEF AnswerInv, Kinds
<1>4. ASSUME NEW n, ExTrails(e, n) PROVE AnswerInv'
  <2> DEFINE err == TrailingErr(e, n)
             code == IF err # <<>> THEN 1 ELSE ex[e].code
             p == IF ex[e].timedOut THEN "seek" ELSE "finish"
             x == [ex[e] EXCEPT !.err = err, !.code = code, !.pc = p]
  <2>1. /\ ExSet(e, x) /\ ex[e].pc = "trail" /\ blame' = blame /\ target = "DuckDb"
        /\ p \in (Keeping \ {"wait"}) \cup {"finish"} /\ p \in {"seek", "finish"}
        /\ (err = <<>> \/ code = 1) /\ (p = "seek" <=> ex[e].timedOut)
    BY <1>1, <1>4 DEF ExTrails, ExAt, Keeping, Ways
  <2>2. p = "finish" => ex[e].sentinel
    BY <1>1, <2>1 DEF ShellInv, Told
  <2> HIDE DEF err, code, p
  <2>3. /\ ClientRec(x) /\ x.pc = p /\ x.timedOut = ex[e].timedOut /\ x.cursor = ex[e].cursor
        /\ x.out = ex[e].out /\ x.err = err /\ x.code = code /\ x.sentinel = ex[e].sentinel /\ x.marked = ex[e].marked
    BY <1>1, <2>1 DEF ClientRec
  <2> HIDE DEF x
  <2>4. Ways(e, x, blame)
    <3>1. Whole(e, ex[e], "O") => Whole(e, x, "O")
      BY <2>3 DEF Whole, Text
    <3> QED
      BY <1>1, <1>2, <2>1, <2>2, <2>3, <3>1 DEF Ways
  <2>5. ASSUME x.pc = "finish", NEW tag \in Tags, Clean(tag, blame)
        PROVE  \A i \in DOMAIN pipes[tag] : pipes[tag][i].exec # e
    <3>1. tag = "O" /\ InLog(e, LastOf(tag))
      BY <1>2, <2>1, <2>2, <2>3, <2>5 DEF Clean, Tags
    <3> QED
      BY <3>1, NoneFollow
  <2> QED
    BY <1>0, <1>1, <2>1, <2>3, <2>4, <2>5, AnswerGoesOn
<1>5. CASE ExSideResult(e)
  <2> DEFINE out == <<Line(e, "out")>>
             err == <<Line(e, "err")>>
             x == [ex[e] EXCEPT !.pc = "finish", !.out = out, !.err = err]
  <2>1. ExSet(e, x) /\ blame' = blame /\ ex[e].pc = "side" /\ target = "SideChannel"
    BY <1>1, <1>5 DEF ExSideResult, ExAt, Ways
  <2>2. /\ out \in Seq(Lines) /\ err \in Seq(Lines) /\ DOMAIN out = {1} /\ DOMAIN err = {1}
        /\ out[1] = Line(e, "out") /\ err[1] = Line(e, "err")
        /\ Contains(out, Line(e, "out")) /\ Contains(err, Line(e, "err"))
    <3>1. Line(e, "out") \in Lines /\ Line(e, "err") \in Lines
      BY DEF Line, Lines, Whats
    <3> QED
      BY <3>1 DEF Contains
  <2> HIDE DEF out, err
  <2>3. /\ ClientRec(x) /\ x.pc = "finish" /\ x.timedOut = ex[e].timedOut /\ x.cursor = ex[e].cursor
        /\ x.out = out /\ x.err = err /\ x.sentinel = ex[e].sentinel /\ x.marked = ex[e].marked
    BY <1>1 DEF ClientRec
  <2> HIDE DEF x
  <2>4. ASSUME NEW tag \in Tags
        PROVE  /\ Text(x, tag) \in Seq(Lines) /\ Whole(e, x, tag) /\ Flag(x, tag) = Flag(ex[e], tag)
               /\ \A k \in DOMAIN Text(x, tag) : Text(x, tag)[k] = Line(e, FirstOf(tag))
    BY <2>2, <2>3 DEF Text, Whole, Flag, FirstOf, Tags
  <2>5. HasRead(e, x)
    BY <1>0, <1>1, <2>3, <2>4 DEF HasRead
  <2>6. Ways(e, x, blame)
    BY <1>1, <2>1, <2>3, <2>4 DEF Ways, Tags
  <2>7. \A tag \in Tags : Owned(tag, e, x, blame)
    BY <1>3, <2>1, <2>3, <2>4 DEF Owned, Keeping
  <2>8. x.pc \notin Before
    BY <2>3 DEF Before
  <2> QED
    BY <1>0, <1>1, <2>1, <2>3, <2>5, <2>6, <2>7, <2>8, AnswerMoves
<1>6. CASE ExSideTimesOut(e)
  <2> DEFINE x == [ex[e] EXCEPT !.pc = "drainside", !.timedOut = TRUE]
  <2>1. ExSet(e, x) /\ blame' = [blame EXCEPT !.timed = TRUE] /\ target = "SideChannel"
    BY <1>1, <1>6 DEF ExSideTimesOut, ExAt, Ways
  <2>2. blame'.timed /\ (blame.died => blame'.died) /\ (blame.graced => blame'.graced)
    BY <1>1, <2>1
  <2>3. /\ ClientRec(x) /\ x.pc = "drainside" /\ x.timedOut /\ x.cursor = ex[e].cursor
        /\ x.out = ex[e].out /\ x.err = ex[e].err /\ x.sentinel = ex[e].sentinel /\ x.marked = ex[e].marked
        /\ x.pc \in (Keeping \ {"wait"}) \cup {"finish"}
    BY <1>1 DEF ClientRec, Keeping
  <2> HIDE DEF x
  <2>4. Ways(e, x, blame')
    BY <2>1, <2>2, <2>3 DEF Ways
  <2> QED
    BY <1>0, <1>1, <2>1, <2>2, <2>3, <2>4, AnswerGoesOn
<1>7. CASE ExSideEnds(e)
  <2>1. ~session.running /\ ExLeaves(e, 1) /\ blame' = blame /\ results' = results
    BY <1>7 DEF ExSideEnds, shellVars
  <2> QED
    BY <1>0, <1>1, <1>3, <2>1, AnswerLeaves
<1>8. ASSUME NEW p \in {"drain", "finish"}, NEW q \in Nat, NEW x, ExSet(e, x), blame' = blame,
             x = [ex[e] EXCEPT !.pos = q, !.pc = p], ex[e].timedOut,
             p = "finish" => ~session.running \/ InLog(e, LastOf("O")) \/ target = "SideChannel"
      PROVE  AnswerInv'
  <2>1. /\ ClientRec(x) /\ x.pc = p /\ x.timedOut /\ x.cursor = ex[e].cursor
        /\ x.out = ex[e].out /\ x.err = ex[e].err /\ x.sentinel = ex[e].sentinel /\ x.marked = ex[e].marked
        /\ x.pc \in (Keeping \ {"wait"}) \cup {"finish"}
    BY <1>1, <1>8 DEF ClientRec, Keeping
  <2>2. blame.timed
    BY <1>1, <1>8 DEF Ways
  <2>3. Ways(e, x, blame)
    BY <1>8, <2>1, <2>2 DEF Ways
  <2>4. ASSUME x.pc = "finish", NEW tag \in Tags, Clean(tag, blame)
        PROVE  \A i \in DOMAIN pipes[tag] : pipes[tag][i].exec # e
    <3>1. tag = "O"
      BY <2>2, <2>4 DEF Clean, Tags
    <3> QED
      BY <1>3, <1>8, <2>1, <2>4, <3>1, NoneFollow
  <2> QED
    BY <1>0, <1>1, <1>8, <2>1, <2>3, <2>4, AnswerGoesOn
<1>9. CASE ExDrainSide(e)
  <2> DEFINE x == [ex[e] EXCEPT !.pc = "finish"]
             z == [ex[e] EXCEPT !.pos = ex[e].pos, !.pc = "finish"]
  <2>1. ExSet(e, x) /\ blame' = blame /\ ex[e].timedOut /\ target = "SideChannel"
    BY <1>1, <1>9 DEF ExDrainSide, ExGo, ExAt, Ways
  <2>2. z = x /\ ex[e].pos \in Nat
    BY <1>1 DEF ClientRec
  <2> QED
    BY <1>8, <2>1, <2>2
<1>10. CASE ExSeeks(e)
  <2> DEFINE q == IF Len(outlog) > DrainMargin THEN Len(outlog) - DrainMargin ELSE 0
             x == [ex[e] EXCEPT !.pc = "drain", !.pos = q]
             z == [ex[e] EXCEPT !.pos = q, !.pc = "drain"]
  <2>1. ExSet(e, x) /\ blame' = blame /\ ex[e].timedOut
    BY <1>1, <1>10 DEF ExSeeks, ExAt, Ways
  <2>2. q \in Nat
    BY <1>1, ExecAssumption
  <2> HIDE DEF q
  <2>3. z = x
    BY <1>1 DEF ClientRec
  <2> QED
    BY <1>8, <2>1, <2>2, <2>3
<1>11. CASE ExDrains(e)
  <2>0. ex[e].pc = "drain" /\ ex[e].timedOut /\ blame' = blame /\ ex[e].pos \in Nat
    BY <1>1, <1>11 DEF ExDrains, ExAt, Ways, ClientRec
  <2>1. ASSUME ex[e].pos < Len(outlog), ~(~session.running /\ ExGo(e, "finish"))
        PROVE  AnswerInv'
    <3> DEFINE l == outlog[ex[e].pos + 1]
               p == IF l.tag = "O" /\ l.what = "sentinel" /\ l.exec = e THEN "finish" ELSE ex[e].pc
               q == ex[e].pos + 1
               x == [ex[e] EXCEPT !.pos = q, !.pc = p]
    <3>1. ExSet(e, x)
      BY <1>11, <2>1 DEF ExDrains
    <3>2. q \in Nat /\ q \in DOMAIN outlog
      BY <1>1, <2>0, <2>1
    <3>3. p \in {"drain", "finish"} /\ (p = "finish" => InLog(e, LastOf("O")))
      BY <2>0, <3>2 DEF InLog, LastOf, IsLine
    <3> HIDE DEF p, q
    <3> QED
      BY <1>8, <2>0, <3>1, <3>2, <3>3
  <2>2. ASSUME ~session.running, ExGo(e, "finish") PROVE AnswerInv'
    <3> DEFINE x == [ex[e] EXCEPT !.pc = "finish"]
               z == [ex[e] EXCEPT !.pos = ex[e].pos, !.pc = "finish"]
    <3>1. ExSet(e, x) /\ ~session.running
      BY <2>2 DEF ExGo
    <3>2. z = x
      BY <1>1 DEF ClientRec
    <3> QED
      BY <1>8, <2>0, <3>1, <3>2
  <2> QED
    BY <1>11, <2>1, <2>2 DEF ExDrains
<1> QED
    BY <1>4, <1>5, <1>6, <1>7, <1>9, <1>10, <1>11

\* One more line in the log.
LEMMA LogGrows ==
    ASSUME ExecTypes, NEW l \in LogLines, outlog' = Append(outlog, l)
    PROVE  /\ Len(outlog) \in Nat /\ DOMAIN outlog = 1..Len(outlog) /\ Len(outlog') = Len(outlog) + 1
           /\ DOMAIN outlog' = DOMAIN outlog \cup {Len(outlog) + 1} /\ Len(outlog) + 1 \notin DOMAIN outlog
           /\ outlog'[Len(outlog) + 1] = l /\ \A k \in DOMAIN outlog : outlog'[k] = outlog[k] /\ k <= Len(outlog)
BY DEF ExecTypes

\* What was read is still so when the log grows.
LEMMA ReadStays ==
    ASSUME ExecTypes, ExecTypes', NEW l \in LogLines, outlog' = Append(outlog, l), plan' = plan,
           NEW c \in Execs, HasRead(c, ex'[c])
    PROVE  HasRead(c, ex[c])'
<1>0. target' = target
    BY DEF target
<1>1. /\ Len(outlog) \in Nat /\ DOMAIN outlog = 1..Len(outlog) /\ Len(outlog') = Len(outlog) + 1
      /\ DOMAIN outlog' = DOMAIN outlog \cup {Len(outlog) + 1} /\ Len(outlog) + 1 \notin DOMAIN outlog
      /\ outlog'[Len(outlog) + 1] = l /\ \A k \in DOMAIN outlog : outlog'[k] = outlog[k] /\ k <= Len(outlog)
    BY LogGrows
<1>2. \A w : InLog(c, w) => InLog(c, w)'
    BY <1>1 DEF InLog
<1>3. ex'[c].cursor \in Nat /\ ex'[c].pos \in Nat
    BY DEF ExecTypes, ClientRec
<1>4. ASSUME ex'[c].pc \in {"connect", "finish"} \cup Keeping
      PROVE  /\ ex'[c].cursor <= Len(outlog')
             /\ \A k \in DOMAIN outlog' : outlog'[k].exec = c /\ outlog'[k].tag # "A" => k > ex'[c].cursor
  <2>1. /\ ex'[c].cursor <= Len(outlog)
        /\ \A k \in DOMAIN outlog : outlog[k].exec = c /\ outlog[k].tag # "A" => k > ex'[c].cursor
    BY <1>4 DEF HasRead
  <2> QED
    BY <1>1, <1>3, <2>1
<1>5. ASSUME ex'[c].pc \in {"connect", "wait"}
      PROVE  /\ ex'[c].cursor <= ex'[c].pos /\ ex'[c].pos <= Len(outlog')
             /\ target # "PosixShell" => ex'[c].marked
             /\ \A k \in DOMAIN outlog' : \A tag \in Tags :
                   Used(tag) /\ k > ex'[c].cursor /\ k <= ex'[c].pos /\ IsLine(c, FirstOf(tag), outlog'[k])
                      => Whole(c, ex'[c], tag)
  <2>1. /\ ex'[c].cursor <= ex'[c].pos /\ ex'[c].pos <= Len(outlog)
        /\ target # "PosixShell" => ex'[c].marked
        /\ \A k \in DOMAIN outlog : \A tag \in Tags :
              Used(tag) /\ k > ex'[c].cursor /\ k <= ex'[c].pos /\ IsLine(c, FirstOf(tag), outlog[k])
                 => Whole(c, ex'[c], tag)
    BY <1>5 DEF HasRead
  <2>2. \A k \in DOMAIN outlog' : k <= ex'[c].pos => k \in DOMAIN outlog /\ outlog'[k] = outlog[k]
    BY <1>1, <1>3, <2>1
  <2>3. ex'[c].pos <= Len(outlog')
    BY <1>1, <1>3, <2>1
  <2> QED
    BY <2>1, <2>2, <2>3
<1>6. \A tag \in Tags : Used(tag) =>
          /\ Text(ex'[c], tag) \in Seq(Lines)
          /\ Flag(ex'[c], tag) => InLog(c, LastOf(tag))' /\ Whole(c, ex'[c], tag)
    BY <1>2 DEF HasRead
<1> QED
    BY <1>0, <1>4, <1>5, <1>6 DEF HasRead, Used, Whole, Text, Flag

\* The record is written and the process exits; or it is killed.
LEMMA EndAnswers ==
    ASSUME AnswerInv, NEW e \in Execs, ExFinishes(e) \/ ExDies(e)
    PROVE  AnswerInv'
<1>0. /\ ShellInv /\ ShellInv' /\ ExecTypes /\ ExecTypes' /\ UNCHANGED <<plan, session, typed, step, pipes, results>>
      /\ blame \in [died : BOOLEAN, timed : BOOLEAN, graced : BOOLEAN] /\ ClientRec(ex[e])
    BY EndKeeps DEF AnswerInv, ShellInv, ExFinishes, ExDies, shellVars, ExecTypes
<1>1. CASE ExDies(e)
  <2>1. ExLeaves(e, 137) /\ blame' = [blame EXCEPT !.died = TRUE] /\ outlog' = outlog
    BY <1>1 DEF ExDies
  <2>2. blame'.died /\ (blame.timed => blame'.timed) /\ (blame.graced => blame'.graced)
    BY <1>0, <2>1
  <2>3. \A tag \in Tags : ~Clean(tag, blame')
    BY <2>2 DEF Clean
  <2>4. 137 \in Nat \ {0}
    OBVIOUS
  <2> QED
    BY <1>0, <2>1, <2>2, <2>3, <2>4, AnswerLeaves
<1>2. CASE ExFinishes(e)
  <2> DEFINE l == [tag |-> "A", exec |-> e, what |-> "exec"]
             code == IF ex[e].timedOut THEN 124 ELSE ex[e].code
             x == [ex[e] EXCEPT !.pc = "exited", !.code = code, !.cursor = 0, !.pos = 0]
  <2>1. outlog' = Append(outlog, l) /\ ExSet(e, x) /\ blame' = blame /\ ex[e].pc = "finish"
    BY <1>2 DEF ExFinishes, ExAt, ExLeaves
  <2>2. l \in LogLines /\ l.what = "exec" /\ l.tag = "A" /\ LogKind(l)
    BY DEF LogLines, LogKind, Tags
  <2>3. code = 0 => ~ex[e].timedOut /\ ex[e].code = 0
    OBVIOUS
  <2> HIDE DEF l, code
  <2>4. /\ ClientRec(x) /\ x.pc = "exited" /\ x.timedOut = ex[e].timedOut /\ x.code = code
        /\ x.out = ex[e].out /\ x.err = ex[e].err /\ x.sentinel = ex[e].sentinel /\ x.marked = ex[e].marked
    BY <1>0 DEF ClientRec
  <2> HIDE DEF x
  <2>5. ex'[e] = x /\ \A c \in Execs : c # e => ex'[c] = ex[c]
    BY <1>0, <2>1, <2>4, OneClient
  <2>6. \A tag \in Tags : Text(x, tag) = Text(ex[e], tag) /\ Flag(x, tag) = Flag(ex[e], tag)
    BY <2>4 DEF Text, Flag
  <2>7. target' = target /\ Frame' = Frame
    BY <1>0 DEF target, Frame
  <2>8. /\ Len(outlog) \in Nat /\ DOMAIN outlog = 1..Len(outlog) /\ Len(outlog') = Len(outlog) + 1
        /\ DOMAIN outlog' = DOMAIN outlog \cup {Len(outlog) + 1} /\ Len(outlog) + 1 \notin DOMAIN outlog
        /\ outlog'[Len(outlog) + 1] = l /\ \A k \in DOMAIN outlog : outlog'[k] = outlog[k] /\ k <= Len(outlog)
    BY <1>0, <2>1, <2>2, LogGrows
  <2>9. \A c, w : (InLog(c, w) => InLog(c, w)') /\ (w # "exec" /\ InLog(c, w)' => InLog(c, w))
    BY <2>2, <2>8 DEF InLog, IsLine
  <2>10. \A c, w : (Printed(c, w) => Printed(c, w)') /\ (w # "exec" /\ Printed(c, w)' => Printed(c, w))
    BY <1>0, <2>9 DEF Printed, InPipe
  <2>11. Kinds'
    <3>1. \A k \in DOMAIN outlog' : LogKind(outlog'[k])
      BY <2>2, <2>8 DEF AnswerInv, Kinds
    <3> QED
      BY <1>0, <2>7, <3>1 DEF AnswerInv, Kinds, PipeKinds, LogKind
  <2>12. Progress'
    <3>1. \A c \in Execs : ex'[c].pc \in Before => ex[c].pc \in Before
      BY <2>4, <2>5 DEF Before
    <3>2. "exec" \notin Whats
      BY DEF Whats
    <3> QED
      BY <1>0, <2>7, <2>10, <3>1, <3>2 DEF AnswerInv, Progress
  <2>13. ASSUME NEW tag \in Tags PROVE InOrder(tag)'
    <3>1. ASSUME NEW k \in DOMAIN outlog', NEW c \in Execs, IsLine(c, LastOf(tag), outlog'[k])
          PROVE  /\ \E j \in DOMAIN outlog' : j < k /\ IsLine(c, FirstOf(tag), outlog'[j])
                 /\ \A i \in DOMAIN pipes[tag] : pipes[tag][i].exec # c
      <4>1. k \in DOMAIN outlog /\ outlog'[k] = outlog[k]
        BY <2>2, <2>8, <3>1 DEF IsLine, LastOf
      <4> QED
        BY <2>8, <3>1, <4>1 DEF AnswerInv, InOrder
    <3>2. ASSUME NEW i \in DOMAIN pipes[tag], NEW c \in Execs, IsLine(c, LastOf(tag), pipes[tag][i])
          PROVE  /\ \/ InLog(c, FirstOf(tag))'
                    \/ \E j \in DOMAIN pipes[tag] : j < i /\ IsLine(c, FirstOf(tag), pipes[tag][j])
                 /\ \A j \in DOMAIN pipes[tag] : j > i => pipes[tag][j].exec # c
      BY <2>9, <3>2 DEF AnswerInv, InOrder
    <3> QED
      BY <1>0, <3>1, <3>2 DEF InOrder
  <2>14. HasRead(e, ex[e]) /\ Ways(e, ex[e], blame) /\ \A tag \in Tags : Owned(tag, e, ex[e], blame)
    BY DEF AnswerInv
  <2>15. HasRead(e, x)
    BY <2>4, <2>6, <2>14 DEF HasRead, Whole, Keeping
  <2>16. Ways(e, x, blame)
    <3>1. \A tag \in Tags : Whole(e, ex[e], tag) => Whole(e, x, tag)
      BY <2>6 DEF Whole
    <3> QED
      BY <2>1, <2>3, <2>4, <2>14, <3>1 DEF Ways, Tags
  <2>17. \A tag \in Tags : Owned(tag, e, x, blame)
    BY <2>1, <2>4, <2>6, <2>14 DEF Owned, Keeping
  <2>18. ASSUME NEW c \in Execs PROVE ex'[c].pc \in {"idle", "exited"}
    BY <1>0, <2>1, <2>4, <2>5 DEF ShellInv, Locked
  <2>19. ASSUME NEW c \in Execs
         PROVE  /\ HasRead(c, ex[c])' /\ Ways(c, ex[c], blame)'
                /\ \A tag \in Tags : Owned(tag, c, ex[c], blame)'
    <3>1. HasRead(c, ex'[c]) /\ Ways(c, ex'[c], blame) /\ \A tag \in Tags : Owned(tag, c, ex'[c], blame)
      <4>1. CASE c = e
        BY <2>5, <2>15, <2>16, <2>17, <4>1
      <4>2. CASE c # e
        BY <2>5, <4>2 DEF AnswerInv
      <4> QED
        BY <4>1, <4>2
    <3>2. HasRead(c, ex[c])'
      BY <1>0, <2>1, <2>2, <3>1, ReadStays
    <3>3. Ways(c, ex[c], blame)'
      BY <2>1, <2>7, <3>1 DEF Ways, Whole, Text
    <3>4. ASSUME NEW tag \in Tags PROVE Owned(tag, c, ex[c], blame)'
      <4>1. ex'[c].pc \notin {"connect"} \cup Keeping
        BY <2>18 DEF Keeping
      <4> QED
        BY <1>0, <2>1, <2>7, <3>1, <4>1 DEF Owned, Clean, Text
    <3> QED
      BY <3>2, <3>3, <3>4
  <2> QED
    BY <1>0, <2>11, <2>12, <2>13, <2>19 DEF AnswerInv
<1> QED
    BY <1>1, <1>2

\* The shell goes away, and then the session ends; the lines stay.
LEMMA SessionOverAnswers ==
    ASSUME AnswerInv, ShellExits \/ SessionEnds
    PROVE  AnswerInv'
<1>0. ShellInv' /\ UNCHANGED <<plan, typed, step, pipes, results, outlog, execLock, ex, blame>>
    BY SessionOverKeeps DEF AnswerInv, ShellExits, SessionEnds
<1>1. target' = target /\ Frame' = Frame
    BY <1>0 DEF target, Frame
<1>2. session \in [running : BOOLEAN, shell : BOOLEAN]
    BY DEF AnswerInv, ShellInv, ExecTypes
<1>3. ~session'.running => \A tag \in Tags : pipes[tag] = <<>>
    BY <1>2 DEF ShellExits, SessionEnds, AnswerInv, Kinds, Tags
<1>4. Kinds'
    BY <1>0, <1>1, <1>3 DEF AnswerInv, Kinds, PipeKinds
<1>5. Progress'
  <2>1. \A c, w : Printed(c, w)' = Printed(c, w)
    BY <1>0 DEF Printed, InLog, InPipe
  <2> QED
    BY <1>0, <1>1, <2>1 DEF AnswerInv, Progress
<1>6. \A tag \in Tags : InOrder(tag)'
    BY <1>0 DEF AnswerInv, InOrder, InLog
<1>7. ASSUME NEW c \in Execs
      PROVE  /\ HasRead(c, ex[c])' /\ Ways(c, ex[c], blame)'
             /\ \A tag \in Tags : Owned(tag, c, ex[c], blame)'
  <2>1. HasRead(c, ex[c])'
    BY <1>0, <1>1 DEF AnswerInv, HasRead, InLog, Used, Whole, Text, Flag
  <2>2. Ways(c, ex[c], blame)'
    BY <1>0, <1>1 DEF AnswerInv, Ways, Whole, Text
  <2>3. \A tag \in Tags : Owned(tag, c, ex[c], blame)'
    BY <1>0, <1>1 DEF AnswerInv, Owned, Clean, Text
  <2> QED
    BY <2>1, <2>2, <2>3
<1> QED
    BY <1>0, <1>4, <1>5, <1>6, <1>7 DEF AnswerInv

\* A captured line goes from the front of its pipe to the end of the log.
LEMMA CapturesAnswers ==
    ASSUME AnswerInv, NEW tag \in Tags, Captures(tag)
    PROVE  AnswerInv'
<1> DEFINE h == Head(pipes[tag])
           l == [tag |-> tag, exec |-> h.exec, what |-> h.what]
<1>0. /\ ShellInv /\ ShellInv' /\ ExecTypes /\ ExecTypes'
      /\ UNCHANGED <<plan, session, typed, step, results, execLock, ex, blame>>
      /\ pipes[tag] # <<>> /\ outlog' = Append(outlog, l) /\ outlog \in Seq(LogLines)
      /\ pipes' = [pipes EXCEPT ![tag] = Tail(pipes[tag])] /\ pipes \in [Tags -> Seq(Lines)]
      /\ pipes[tag] \in Seq(Lines) /\ DOMAIN ex = Execs
    BY CapturesKeeps DEF AnswerInv, ShellInv, ExecTypes, Captures, Tags
<1>1. /\ h \in Lines /\ h = pipes[tag][1] /\ 1 \in DOMAIN pipes[tag]
      /\ Len(pipes[tag]) \in Nat /\ DOMAIN pipes[tag] = 1..Len(pipes[tag])
      /\ \A i \in DOMAIN Tail(pipes[tag]) : i \in Nat /\ i + 1 \in DOMAIN pipes[tag] /\ Tail(pipes[tag])[i] = pipes[tag][i + 1]
      /\ \A i \in DOMAIN pipes[tag] : i # 1 =>
            i \in Nat /\ i - 1 \in DOMAIN Tail(pipes[tag]) /\ Tail(pipes[tag])[i - 1] = pipes[tag][i]
    BY <1>0
<1>2. /\ l \in LogLines /\ l.exec = h.exec /\ l.what = h.what /\ l.tag = tag /\ h.exec \in Execs
      /\ l.what \in {FirstOf(tag), LastOf(tag)}
    BY <1>1 DEF Lines, LogLines, Tags, AnswerInv, Kinds, PipeKinds
<1> HIDE DEF h, l
<1>3. /\ pipes'[tag] = Tail(pipes[tag]) /\ \A t \in Tags : t # tag => pipes'[t] = pipes[t]
    BY <1>0
<1>4. ASSUME NEW t \in Tags, NEW i \in DOMAIN pipes'[t]
       PROVE  \E j \in DOMAIN pipes[t] : pipes[t][j] = pipes'[t][i]
  <2>1. CASE t = tag
    <3>1. i \in DOMAIN Tail(pipes[tag]) /\ pipes'[t][i] = Tail(pipes[tag])[i]
      BY <1>3, <1>4, <2>1
    <3>2. i + 1 \in DOMAIN pipes[tag] /\ pipes'[t][i] = pipes[tag][i + 1]
      BY <1>1, <3>1
    <3> QED
      BY <2>1, <3>2
  <2>2. CASE t # tag
    BY <1>3, <1>4, <2>2
  <2> QED
    BY <2>1, <2>2
<1>5. target' = target /\ Frame' = Frame
    BY <1>0 DEF target, Frame
<1>6. /\ Len(outlog) \in Nat /\ DOMAIN outlog = 1..Len(outlog) /\ Len(outlog') = Len(outlog) + 1
      /\ DOMAIN outlog' = DOMAIN outlog \cup {Len(outlog) + 1} /\ Len(outlog) + 1 \notin DOMAIN outlog
      /\ outlog'[Len(outlog) + 1] = l /\ \A k \in DOMAIN outlog : outlog'[k] = outlog[k] /\ k <= Len(outlog)
    BY <1>0, <1>2, LogGrows
<1>7. \A c, w : InLog(c, w)' <=> InLog(c, w) \/ IsLine(c, w, h)
    BY <1>2, <1>6 DEF InLog, IsLine
<1>8. \A c, w : InPipe(tag, c, w) <=> InPipe(tag, c, w)' \/ IsLine(c, w, h)
  <2>1. ASSUME NEW c, NEW w, InPipe(tag, c, w) PROVE InPipe(tag, c, w)' \/ IsLine(c, w, h)
    <3>1. PICK i \in DOMAIN pipes[tag] : IsLine(c, w, pipes[tag][i])
      BY <2>1 DEF InPipe
    <3>2. CASE i = 1
      BY <1>1, <3>1, <3>2
    <3>3. CASE i # 1
      BY <1>1, <1>3, <3>1, <3>3, ZenonT(30) DEF InPipe
    <3> QED
      BY <3>2, <3>3
  <2>2. ASSUME NEW c, NEW w, InPipe(tag, c, w)' PROVE InPipe(tag, c, w)
    BY <1>1, <1>3, <2>2 DEF InPipe
  <2>3. ASSUME NEW c, NEW w, IsLine(c, w, h) PROVE InPipe(tag, c, w)
    BY <1>1, <2>3 DEF InPipe
  <2> QED
    BY <2>1, <2>2, <2>3
<1>9. \A c, w : Printed(c, w)' <=> Printed(c, w)
  <2>1. \A c, w : \A t \in Tags : t # tag => InPipe(t, c, w)' = InPipe(t, c, w)
    BY <1>3 DEF InPipe
  <2> QED
    BY <1>7, <1>8, <2>1 DEF Printed
<1>10. Kinds'
  <2>1. LogKind(l)
    BY <1>2 DEF LogKind, Tags, FirstOf, LastOf
  <2>2. \A k \in DOMAIN outlog' : LogKind(outlog'[k])
    BY <1>6, <2>1 DEF AnswerInv, Kinds
  <2>3. \A t \in Tags : \A i \in DOMAIN pipes'[t] : pipes'[t][i].what \in {FirstOf(t), LastOf(t)}
    BY <1>4 DEF AnswerInv, Kinds, PipeKinds
  <2>4. target \in {"PosixShell", "DuckDb"} /\ session.running
    BY <1>0 DEF AnswerInv, Kinds
  <2> QED
    BY <1>0, <1>5, <2>2, <2>3, <2>4 DEF AnswerInv, Kinds, PipeKinds, LogKind
<1>11. Progress'
    BY <1>0, <1>5, <1>9 DEF AnswerInv, Progress
<1>12. ASSUME NEW t \in Tags, t # tag PROVE InOrder(t)'
  <2>1. ~\E c \in Execs : IsLine(c, LastOf(t), l)
    BY <1>2, <1>12 DEF IsLine, Tags, FirstOf, LastOf
  <2>2. ASSUME NEW k \in DOMAIN outlog', NEW c \in Execs, IsLine(c, LastOf(t), outlog'[k])
        PROVE  /\ \E j \in DOMAIN outlog' : j < k /\ IsLine(c, FirstOf(t), outlog'[j])
               /\ \A i \in DOMAIN pipes'[t] : pipes'[t][i].exec # c
    <3>1. k \in DOMAIN outlog /\ outlog'[k] = outlog[k]
      BY <1>6, <2>1, <2>2
    <3> QED
      BY <1>3, <1>6, <1>12, <2>2, <3>1 DEF AnswerInv, InOrder
  <2>3. ASSUME NEW i \in DOMAIN pipes'[t], NEW c \in Execs, IsLine(c, LastOf(t), pipes'[t][i])
        PROVE  /\ \/ InLog(c, FirstOf(t))'
                  \/ \E j \in DOMAIN pipes'[t] : j < i /\ IsLine(c, FirstOf(t), pipes'[t][j])
               /\ \A j \in DOMAIN pipes'[t] : j > i => pipes'[t][j].exec # c
    BY <1>3, <1>7, <1>12, <2>3 DEF AnswerInv, InOrder
  <2> QED
    BY <2>2, <2>3 DEF InOrder
<1>13. InOrder(tag)'
  <2>0. /\ \A k \in DOMAIN outlog : \A e \in Execs : IsLine(e, LastOf(tag), outlog[k]) =>
              /\ \E j \in DOMAIN outlog : j < k /\ IsLine(e, FirstOf(tag), outlog[j])
              /\ \A i \in DOMAIN pipes[tag] : pipes[tag][i].exec # e
        /\ \A i \in DOMAIN pipes[tag] : \A e \in Execs : IsLine(e, LastOf(tag), pipes[tag][i]) =>
              /\ \/ InLog(e, FirstOf(tag))
                 \/ \E j \in DOMAIN pipes[tag] : j < i /\ IsLine(e, FirstOf(tag), pipes[tag][j])
              /\ \A j \in DOMAIN pipes[tag] : j > i => pipes[tag][j].exec # e
    BY DEF AnswerInv, InOrder
  <2>1. ASSUME NEW k \in DOMAIN outlog', NEW c \in Execs, IsLine(c, LastOf(tag), outlog'[k])
        PROVE  /\ \E j \in DOMAIN outlog' : j < k /\ IsLine(c, FirstOf(tag), outlog'[j])
               /\ \A i \in DOMAIN pipes'[tag] : pipes'[tag][i].exec # c
    <3>1. CASE k \in DOMAIN outlog
      <4>1. /\ \E j \in DOMAIN outlog : j < k /\ IsLine(c, FirstOf(tag), outlog[j])
            /\ \A i \in DOMAIN pipes[tag] : pipes[tag][i].exec # c
        BY <1>6, <2>0, <2>1, <3>1
      <4> QED
        BY <1>1, <1>3, <1>6, <4>1
    <3>2. CASE k \notin DOMAIN outlog
      <4>1. k = Len(outlog) + 1 /\ IsLine(c, LastOf(tag), pipes[tag][1])
        BY <1>1, <1>2, <1>6, <2>1, <3>2 DEF IsLine
      <4>2. InLog(c, FirstOf(tag)) /\ \A j \in DOMAIN pipes[tag] : j > 1 => pipes[tag][j].exec # c
        BY <1>1, <2>0, <4>1
      <4>3. \E j \in DOMAIN outlog' : j < k /\ IsLine(c, FirstOf(tag), outlog'[j])
        BY <1>6, <4>1, <4>2 DEF InLog
      <4>4. \A i \in DOMAIN pipes'[tag] : pipes'[tag][i].exec # c
        BY <1>1, <1>3, <4>2
      <4> QED
        BY <4>3, <4>4
    <3> QED
      BY <3>1, <3>2
  <2>2. ASSUME NEW i \in DOMAIN pipes'[tag], NEW c \in Execs, IsLine(c, LastOf(tag), pipes'[tag][i])
        PROVE  /\ \/ InLog(c, FirstOf(tag))'
                  \/ \E j \in DOMAIN pipes'[tag] : j < i /\ IsLine(c, FirstOf(tag), pipes'[tag][j])
               /\ \A j \in DOMAIN pipes'[tag] : j > i => pipes'[tag][j].exec # c
    <3>1. i \in Nat /\ i + 1 \in DOMAIN pipes[tag] /\ IsLine(c, LastOf(tag), pipes[tag][i + 1])
      BY <1>1, <1>3, <2>2
    <3>2. /\ \/ InLog(c, FirstOf(tag))
             \/ \E j \in DOMAIN pipes[tag] : j < i + 1 /\ IsLine(c, FirstOf(tag), pipes[tag][j])
          /\ \A j \in DOMAIN pipes[tag] : j > i + 1 => pipes[tag][j].exec # c
      BY <2>0, <3>1
    <3>3. \A j \in DOMAIN pipes'[tag] : j > i => pipes'[tag][j].exec # c
      BY <1>1, <1>3, <3>1, <3>2
    <3>4. ASSUME NEW j \in DOMAIN pipes[tag], j < i + 1, IsLine(c, FirstOf(tag), pipes[tag][j])
          PROVE  \/ InLog(c, FirstOf(tag))'
                 \/ \E m \in DOMAIN pipes'[tag] : m < i /\ IsLine(c, FirstOf(tag), pipes'[tag][m])
      <4>1. CASE j = 1
        BY <1>1, <1>7, <3>4, <4>1
      <4>2. CASE j # 1
        <5>1. j - 1 \in DOMAIN pipes'[tag] /\ j - 1 < i /\ pipes'[tag][j - 1] = pipes[tag][j]
          BY <1>1, <1>3, <3>1, <3>4, <4>2
        <5> QED
          BY <3>4, <5>1
      <4> QED
        BY <4>1, <4>2
    <3> QED
      BY <1>7, <3>2, <3>3, <3>4
  <2> QED
    BY <2>1, <2>2 DEF InOrder
<1>14. ASSUME NEW c \in Execs, NEW t \in Tags PROVE Owned(t, c, ex[c], blame)'
  <2>1. Owned(t, c, ex[c], blame)
    BY DEF AnswerInv
  <2>2. (\E i \in DOMAIN pipes'[t] : pipes'[t][i].exec = c) => \E i \in DOMAIN pipes[t] : pipes[t][i].exec = c
    BY <1>4
  <2>3. ASSUME Clean(t, blame), ex[c].pc \in {"connect"} \cup Keeping, NEW k \in DOMAIN outlog',
               k > ex[c].cursor, outlog'[k].tag = t
        PROVE  outlog'[k].exec = c
    <3>1. CASE k \in DOMAIN outlog
      BY <1>6, <2>1, <2>3, <3>1 DEF Owned
    <3>2. CASE k \notin DOMAIN outlog
      <4>1. outlog'[k] = l /\ t = tag
        BY <1>2, <1>6, <2>3, <3>2
      <4>2. ex[h.exec].pc \in Keeping
        BY <1>1, <1>2, <2>3, <4>1 DEF AnswerInv, Owned
      <4>3. execLock = h.exec /\ execLock = c
        BY <1>0, <1>2, <2>3, <4>2 DEF ShellInv, Locked, Keeping
      <4> QED
        BY <1>2, <4>1, <4>3
    <3> QED
      BY <3>1, <3>2
  <2> QED
    BY <1>0, <1>5, <2>1, <2>2, <2>3 DEF Owned, Clean, Text
<1>15. ASSUME NEW c \in Execs PROVE HasRead(c, ex[c])' /\ Ways(c, ex[c], blame)'
  <2>1. HasRead(c, ex'[c])
    BY <1>0 DEF AnswerInv
  <2>2. HasRead(c, ex[c])'
    BY <1>0, <1>2, <2>1, ReadStays
  <2>3. Ways(c, ex[c], blame)'
    BY <1>0, <1>5 DEF AnswerInv, Ways, Whole, Text
  <2> QED
    BY <2>2, <2>3
<1> QED
    BY <1>0, <1>10, <1>11, <1>12, <1>13, <1>14, <1>15 DEF AnswerInv

\* A frame prints on each way the command's first line before its last, and nothing after.
LEMMA FramesInOrder ==
    ASSUME plan \in Plans
    PROVE  \A m \in 1..Len(Frame) :
              /\ Frame[m][1] = "R" => target \notin {"PosixShell", "DuckDb"}
              /\ \A t \in Tags : Frame[m][1] = t =>
                    /\ target \in {"PosixShell", "DuckDb"} /\ Frame[m][2] \in {FirstOf(t), LastOf(t)}
                    /\ Frame[m][2] = LastOf(t) => \E n \in 1..m - 1 : Frame[n][2] = FirstOf(t)
                    /\ \A n \in 1..m - 1 : Frame[n][2] # LastOf(t)
<1>1. CASE target = "PosixShell"
  <2>1. Frame = <<<<"O", "out">>, <<"E", "err">>, <<"E", "marker">>, <<"O", "sentinel">>>>
    BY <1>1 DEF Frame
  <2> QED
    BY <1>1, <2>1 DEF Tags, FirstOf, LastOf
<1>2. CASE target = "DuckDb"
  <2>1. Frame = <<<<"O", "out">>, <<"E", "err">>, <<"O", "sentinel">>>>
    BY <1>2 DEF Frame
  <2> QED
    BY <1>2, <2>1 DEF Tags, FirstOf, LastOf
<1>3. CASE target \notin {"PosixShell", "DuckDb"}
  <2>1. Frame = <<<<"R", "result">>>>
    BY <1>3 DEF Frame
  <2> QED
    BY <1>3, <2>1 DEF Tags, FirstOf, LastOf
<1> QED
    BY <1>1, <1>2, <1>3

\* The frames that are left when the shell has run a line: the oldest has printed what of
\* it was run, and the others nothing.
LEMMA ProgressKept ==
    ASSUME AnswerInv, ShellPrints, NEW e \in Execs, e = typed[1],
           \A w \in Whats :
              Printed(e, w)' <=> Printed(e, w) \/ (w = Frame[step + 1][2] /\ Frame[step + 1][1] # "R"),
           \A c \in Execs : c # e => \A w \in Whats : Printed(c, w)' <=> Printed(c, w)
    PROVE  Progress'
<1> DEFINE over == step + 1 = Len(Frame)
<1>0. /\ UNCHANGED <<plan, ex>> /\ typed # <<>> /\ typed \in Seq(Execs) /\ plan \in Plans
      /\ step \in Nat /\ step < Len(Frame) /\ ShellInv /\ 1 \in DOMAIN typed
    BY DEF AnswerInv, ShellInv, ShellPrints, ExecTypes
<1>1. /\ typed' = IF over THEN Tail(typed) ELSE typed
      /\ step' = IF over THEN 0 ELSE step + 1
    BY DEF ShellPrints
<1>2. Frame' = Frame
    BY <1>0 DEF Frame, target
<1>3. /\ Len(Frame) \in Nat /\ step + 1 \in 1..Len(Frame)
      /\ Frame[step + 1][1] = "R" => over
      /\ \A n \in 1..Len(Frame) : Frame[n][1] # "R" => Frame[n][2] \in Whats
      /\ \A n \in 1..Len(Frame) : Frame[n][1] = "R" => n = Len(Frame)
  <2>1. /\ Len(Frame) \in Nat
        /\ \A n \in 1..Len(Frame) :
              /\ Frame[n][1] \in {"O", "E", "R"} /\ (Frame[n][1] # "R" => Frame[n][2] \in Whats)
              /\ Frame[n][1] = "R" \/ Frame[n][2] = "sentinel" => n = Len(Frame)
    BY <1>0, FrameLines
  <2>2. step + 1 \in 1..Len(Frame)
    BY <1>0, <2>1
  <2> QED
    BY <2>1, <2>2
<1>4. /\ \A i \in DOMAIN typed : i # 1 => typed[i] # e /\ typed[i] \in Execs /\ \A w \in Whats : ~Printed(typed[i], w)
      /\ \A w \in Whats : Printed(e, w) => \E n \in 1..step : Frame[n][2] = w
      /\ \A n \in 1..step : Printed(e, Frame[n][2])
      /\ \A c \in Execs : ex[c].pc \in Before => c # e /\ \A w \in Whats : ~Printed(c, w)
    BY <1>0 DEF AnswerInv, Progress, ShellInv, Locked, Told
<1>5. \A c \in Execs : ex'[c].pc \in Before => \A w \in Whats : ~Printed(c, w)'
    BY <1>0, <1>4
<1>6. CASE over
  <2>1. typed' = Tail(typed) /\ step' = 0
    BY <1>1, <1>6
  <2>2. \A i \in DOMAIN typed' : i + 1 \in DOMAIN typed /\ i + 1 # 1 /\ typed'[i] = typed[i + 1]
    BY <1>0, <2>1
  <2>3. \A i \in DOMAIN typed' : \A w \in Whats : ~Printed(typed[i], w)'
    <3>1. ASSUME NEW c \in Execs, NEW i \in DOMAIN typed', c = typed'[i] PROVE \A w \in Whats : ~Printed(c, w)'
      <4>1. c # e /\ \A w \in Whats : ~Printed(c, w)
        BY <1>4, <2>2, <3>1
      <4> QED
        BY <4>1
    <3>2. \A i \in DOMAIN typed' : typed'[i] \in Execs
      BY <1>4, <2>2
    <3> QED
      BY <3>1, <3>2
  <2>4. typed' # <<>> => 1 \in DOMAIN typed'
    BY <1>0, <2>1
  <2>5. 1..step' = {}
    BY <2>1
  <2>6. typed' # <<>> =>
           /\ \A w \in Whats : Printed(typed[1], w)' => \E n \in 1..step' : Frame'[n][2] = w
           /\ \A n \in 1..step' : Printed(typed[1], Frame[n][2])'
    BY <2>3, <2>4, <2>5
  <2> QED
    BY <1>5, <2>1, <2>3, <2>6 DEF Progress
<1>7. CASE ~over
  <2>1. typed' = typed /\ step' = step + 1 /\ Frame[step + 1][1] # "R"
    BY <1>1, <1>3, <1>7
  <2>2. ASSUME NEW c \in Execs, NEW i \in DOMAIN typed, i # 1, c = typed[i] PROVE \A w \in Whats : ~Printed(c, w)'
    <3>1. c # e /\ \A w \in Whats : ~Printed(c, w)
      BY <1>4, <2>2
    <3> QED
      BY <3>1
  <2>3. \A i \in DOMAIN typed' : i # 1 => \A w \in Whats : ~Printed(typed[i], w)'
    BY <1>4, <2>1, <2>2
  <2>4. ASSUME NEW w \in Whats, Printed(e, w)' PROVE \E n \in 1..step' : Frame'[n][2] = w
    <3>1. CASE Printed(e, w)
      <4>1. PICK n \in 1..step : Frame[n][2] = w
        BY <1>4, <2>4, <3>1
      <4>2. n \in 1..step'
        BY <1>0, <2>1
      <4> QED
        BY <1>2, <4>1, <4>2
    <3>2. CASE ~Printed(e, w)
      <4>1. w = Frame[step + 1][2]
        BY <2>1, <2>4, <3>2
      <4>2. step + 1 \in 1..step'
        BY <1>0, <2>1
      <4> QED
        BY <1>2, <4>1, <4>2
    <3> QED
      BY <3>1, <3>2
  <2>5. ASSUME NEW n \in 1..step' PROVE Printed(e, Frame[n][2])'
    <3>1. n \in 1..Len(Frame) /\ n # Len(Frame) /\ (n \in 1..step \/ n = step + 1)
      BY <1>0, <1>3, <1>7, <2>1
    <3>2. Frame[n][2] \in Whats
      BY <1>3, <3>1
    <3>3. Printed(e, Frame[n][2]) \/ Frame[n][2] = Frame[step + 1][2]
      BY <1>4, <3>1
    <3>4. \A w \in Whats : Printed(e, w) \/ w = Frame[step + 1][2] => Printed(e, w)'
      BY <2>1
    <3>5. \A w \in Whats : w = Frame[n][2] => Printed(e, w)'
      BY <3>3, <3>4
    <3> QED
      BY <1>2, <3>2, <3>5
  <2>6. typed' # <<>> /\ typed'[1] = e
    BY <1>0, <2>1
  <2>7. /\ \A w \in Whats : Printed(typed[1], w)' => \E n \in 1..step' : Frame'[n][2] = w
        /\ \A n \in 1..step' : Printed(typed[1], Frame[n][2])'
    BY <2>4, <2>5, <2>6
  <2> QED
    BY <1>5, <2>3, <2>6, <2>7 DEF Progress
<1> QED
    BY <1>6, <1>7

\* The shell prints the next line of the oldest frame.
LEMMA PrintsAnswers ==
    ASSUME AnswerInv, ShellPrints
    PROVE  AnswerInv'
<1> DEFINE line == Frame[step + 1]
           m == step + 1
<1>0. /\ ShellInv /\ ShellInv' /\ UNCHANGED <<plan, session, outlog, execLock, ex, blame>>
      /\ session.shell /\ session.running /\ typed # <<>> /\ typed \in Seq(Execs) /\ plan \in Plans
      /\ step \in Nat /\ step < Len(Frame) /\ pipes \in [Tags -> Seq(Lines)]
    BY ShellPrintsKeeps DEF AnswerInv, ShellInv, ShellPrints, ExecTypes, Tags, Locked
<1>1. PICK e \in Execs : e = typed[1] /\ e = Head(typed) /\ 1 \in DOMAIN typed
    BY <1>0
<1>2. IF line[1] = "R" THEN results' = results \cup {e} /\ pipes' = pipes
      ELSE pipes' = [pipes EXCEPT ![line[1]] = Append(pipes[line[1]], Line(e, line[2]))] /\ results' = results
    BY <1>1 DEF ShellPrints
<1>3. target' = target /\ Frame' = Frame
    BY <1>0 DEF target, Frame
<1>4. /\ m \in 1..Len(Frame) /\ line[1] \in {"O", "E", "R"} /\ (line[1] # "R" => line[2] \in Whats)
      /\ (line[1] = "R" => target \notin {"PosixShell", "DuckDb"})
      /\ \A t \in Tags : line[1] = t =>
            /\ target \in {"PosixShell", "DuckDb"} /\ line[2] \in {FirstOf(t), LastOf(t)}
            /\ line[2] = LastOf(t) => \E n \in 1..step : Frame[n][2] = FirstOf(t)
            /\ \A n \in 1..step : Frame[n][2] # LastOf(t)
  <2>1. /\ Len(Frame) \in Nat
        /\ \A n \in 1..Len(Frame) : Frame[n][1] \in {"O", "E", "R"} /\ (Frame[n][1] # "R" => Frame[n][2] \in Whats)
    BY <1>0, FrameLines
  <2>2. m \in 1..Len(Frame) /\ m - 1 = step
    BY <1>0, <2>1
  <2> QED
    BY <1>0, <2>1, <2>2, FramesInOrder
<1>5. \A c, w : InLog(c, w)' = InLog(c, w)
    BY <1>0 DEF InLog
<1>6. /\ \A w \in Whats : Printed(e, w) => \E n \in 1..step : Frame[n][2] = w
      /\ \A n \in 1..step : Printed(e, Frame[n][2])
    BY <1>0, <1>1 DEF AnswerInv, Progress
<1>7. ASSUME NEW c \in Execs PROVE HasRead(c, ex[c])' /\ Ways(c, ex[c], blame)'
    BY <1>0, <1>3 DEF AnswerInv, HasRead, InLog, Used, Whole, Text, Flag, Ways
<1>8. CASE line[1] = "R"
  <2>1. results' = results \cup {e} /\ pipes' = pipes /\ target \notin {"PosixShell", "DuckDb"}
    BY <1>2, <1>4, <1>8
  <2>2. Kinds'
    BY <1>0, <1>3, <2>1 DEF AnswerInv, Kinds, PipeKinds
  <2>3. \A c, w : Printed(c, w)' = Printed(c, w)
    BY <1>0, <2>1 DEF Printed, InLog, InPipe
  <2>4. Progress'
    BY <1>1, <1>8, <2>3, ProgressKept
  <2>5. \A tag \in Tags : InOrder(tag)'
    BY <1>0, <2>1 DEF AnswerInv, InOrder, InLog
  <2>6. \A c \in Execs : \A tag \in Tags : Owned(tag, c, ex[c], blame)'
    BY <1>0, <1>3, <2>1 DEF AnswerInv, Owned, Clean, Text
  <2> QED
    BY <1>0, <1>7, <2>2, <2>4, <2>5, <2>6 DEF AnswerInv
<1>9. CASE line[1] # "R"
  <2>1. line[1] \in Tags /\ line[2] \in Whats
    BY <1>4, <1>9 DEF Tags
  <2>2. PICK t \in Tags : t = line[1]
    BY <2>1
  <2>3. PICK w \in Whats : w = line[2]
    BY <2>1
  <2>4. Line(e, w) \in Lines
    BY DEF Line, Lines
  <2>5. PICK l \in Lines : l = Line(e, w)
    BY <2>4
  <2>6. /\ results' = results /\ pipes' = [pipes EXCEPT ![t] = Append(pipes[t], l)]
        /\ target \in {"PosixShell", "DuckDb"} /\ w \in {FirstOf(t), LastOf(t)}
        /\ w = LastOf(t) => \E n \in 1..step : Frame[n][2] = FirstOf(t)
        /\ \A n \in 1..step : Frame[n][2] # LastOf(t)
    BY <1>2, <1>4, <1>9, <2>2, <2>3, <2>5
  <2>7. l.exec = e /\ l.what = w /\ \A c, v : IsLine(c, v, l) <=> c = e /\ v = w
    BY <2>5 DEF Line, IsLine
  <2>8. FirstOf(t) \in Whats /\ LastOf(t) \in Whats /\ \A s \in Tags : s # t => w \notin {FirstOf(s), LastOf(s)}
    BY <2>6 DEF FirstOf, LastOf, Whats, Tags
  <2>9. w = Frame[step + 1][2] /\ Frame[step + 1][1] # "R"
    BY <1>9, <2>3
  <2> HIDE DEF line, m
  <2>10. /\ pipes[t] \in Seq(Lines) /\ pipes'[t] = Append(pipes[t], l)
        /\ \A s \in Tags : s # t => pipes'[s] = pipes[s]
    BY <1>0, <2>6
  <2>11. Len(pipes[t]) + 1 \in Nat
    BY <2>10
  <2>12. PICK N \in Nat : N = Len(pipes[t]) + 1
    BY <2>11
  <2>13. /\ Len(pipes[t]) \in Nat /\ DOMAIN pipes[t] = 1..Len(pipes[t])
        /\ DOMAIN pipes'[t] = DOMAIN pipes[t] \cup {N} /\ N \notin DOMAIN pipes[t]
        /\ pipes'[t][N] = l
        /\ \A i \in DOMAIN pipes[t] : i \in Nat /\ i < N /\ pipes'[t][i] = pipes[t][i]
    BY <2>10, <2>12
  <2>14. \A c, v : InPipe(t, c, v)' <=> InPipe(t, c, v) \/ (c = e /\ v = w)
    BY <2>7, <2>13 DEF InPipe
  <2>15. \A c, v : Printed(c, v)' <=> Printed(c, v) \/ (c = e /\ v = w)
    <3>1. \A c, v : \A s \in Tags : s # t => (InPipe(s, c, v)' <=> InPipe(s, c, v))
      BY <2>10 DEF InPipe
    <3>2. \A c, v : InLog(c, v)' = InLog(c, v)
      BY <1>0 DEF InLog
    <3> QED
      BY <2>6, <2>14, <3>1, <3>2 DEF Printed
  <2>16. Kinds'
    <3>1. \A s \in Tags : \A i \in DOMAIN pipes'[s] : pipes'[s][i].what \in {FirstOf(s), LastOf(s)}
      <4>1. ASSUME NEW i \in DOMAIN pipes'[t] PROVE pipes'[t][i].what \in {FirstOf(t), LastOf(t)}
        BY <2>6, <2>7, <2>13, <4>1 DEF AnswerInv, Kinds, PipeKinds
      <4>2. ASSUME NEW s \in Tags, s # t, NEW i \in DOMAIN pipes'[s] PROVE pipes'[s][i].what \in {FirstOf(s), LastOf(s)}
        BY <2>10, <4>2 DEF AnswerInv, Kinds, PipeKinds
      <4> QED
        BY <4>1, <4>2
    <3> QED
      BY <1>0, <1>3, <2>6, <3>1 DEF AnswerInv, Kinds, PipeKinds
  <2>17. Progress'
    <3>1. \A v \in Whats : Printed(e, v)' <=> Printed(e, v) \/ (v = Frame[step + 1][2] /\ Frame[step + 1][1] # "R")
      BY <2>9, <2>15
    <3>2. \A c \in Execs : c # e => \A v \in Whats : Printed(c, v)' <=> Printed(c, v)
      BY <2>15
    <3> QED
      BY <1>1, <3>1, <3>2, ProgressKept
  <2>18. ~Printed(e, LastOf(t))
    BY <1>6, <2>6, <2>8
  <2>19. w = LastOf(t) => InLog(e, FirstOf(t)) \/ InPipe(t, e, FirstOf(t))
    <3>1. ASSUME NEW s \in Tags, InPipe(s, e, FirstOf(t)) PROVE s = t
      BY <2>6, <3>1 DEF InPipe, IsLine, AnswerInv, Kinds, PipeKinds, FirstOf, LastOf, Tags
    <3>2. w = LastOf(t) => Printed(e, FirstOf(t))
      BY <1>6, <2>6
    <3> QED
      BY <3>1, <3>2 DEF Printed
  <2>20. InOrder(t)'
    <3>0. /\ \A k \in DOMAIN outlog : \A c \in Execs : IsLine(c, LastOf(t), outlog[k]) =>
                /\ \E j \in DOMAIN outlog : j < k /\ IsLine(c, FirstOf(t), outlog[j])
                /\ \A i \in DOMAIN pipes[t] : pipes[t][i].exec # c
          /\ \A i \in DOMAIN pipes[t] : \A c \in Execs : IsLine(c, LastOf(t), pipes[t][i]) =>
                /\ \/ InLog(c, FirstOf(t))
                   \/ \E j \in DOMAIN pipes[t] : j < i /\ IsLine(c, FirstOf(t), pipes[t][j])
                /\ \A j \in DOMAIN pipes[t] : j > i => pipes[t][j].exec # c
      BY <2>6 DEF AnswerInv, InOrder
    <3>1. ASSUME NEW k \in DOMAIN outlog, NEW c \in Execs, IsLine(c, LastOf(t), outlog[k])
          PROVE  /\ \E j \in DOMAIN outlog : j < k /\ IsLine(c, FirstOf(t), outlog[j])
                 /\ \A i \in DOMAIN pipes'[t] : pipes'[t][i].exec # c
      <4>1. c # e
        BY <2>18, <3>1 DEF Printed, InLog
      <4> QED
        BY <2>7, <2>13, <3>0, <3>1, <4>1
    <3>2. ASSUME NEW i \in DOMAIN pipes'[t], NEW c \in Execs, IsLine(c, LastOf(t), pipes'[t][i])
          PROVE  /\ \/ InLog(c, FirstOf(t))
                    \/ \E j \in DOMAIN pipes'[t] : j < i /\ IsLine(c, FirstOf(t), pipes'[t][j])
                 /\ \A j \in DOMAIN pipes'[t] : j > i => pipes'[t][j].exec # c
      <4>1. CASE i \in DOMAIN pipes[t]
        <5>1. IsLine(c, LastOf(t), pipes[t][i])
          BY <2>13, <3>2, <4>1
        <5>2. c # e
          BY <2>6, <2>18, <4>1, <5>1 DEF Printed, InPipe
        <5>3. /\ \/ InLog(c, FirstOf(t))
                 \/ \E j \in DOMAIN pipes[t] : j < i /\ IsLine(c, FirstOf(t), pipes[t][j])
              /\ \A j \in DOMAIN pipes[t] : j > i => pipes[t][j].exec # c
          BY <3>0, <4>1, <5>1
        <5> QED
          BY <2>7, <2>13, <5>2, <5>3
      <4>2. CASE i \notin DOMAIN pipes[t]
        <5>1. i = N /\ c = e /\ w = LastOf(t)
          BY <2>7, <2>13, <3>2, <4>2
        <5>2. \A j \in DOMAIN pipes'[t] : ~(j > i)
          BY <2>13, <5>1
        <5>3. InPipe(t, e, FirstOf(t)) => \E j \in DOMAIN pipes'[t] : j < i /\ IsLine(c, FirstOf(t), pipes'[t][j])
          BY <2>13, <5>1 DEF InPipe
        <5> QED
          BY <2>19, <5>1, <5>2, <5>3
      <4> QED
        BY <4>1, <4>2
    <3>3. \A c \in Execs : InLog(c, FirstOf(t))' = InLog(c, FirstOf(t))
      BY <1>5
    <3> QED
      BY <1>0, <3>1, <3>2, <3>3 DEF InOrder
  <2>21. ASSUME NEW s \in Tags PROVE InOrder(s)'
    <3>1. CASE s = t
      BY <2>20, <3>1
    <3>2. CASE s # t
      BY <1>0, <2>10, <3>2 DEF AnswerInv, InOrder, InLog
    <3> QED
      BY <3>1, <3>2
  <2>22. ASSUME NEW c \in Execs, NEW s \in Tags PROVE Owned(s, c, ex[c], blame)'
    <3>1. Owned(s, c, ex[c], blame)
      BY DEF AnswerInv
    <3>2. ASSUME Clean(s, blame), NEW i \in DOMAIN pipes'[s], pipes'[s][i].exec = c PROVE ex[c].pc \in Keeping
      <4>1. CASE c = e
        BY <1>0, <1>1, <3>2, <4>1 DEF ShellInv, Locked, Clean
      <4>2. CASE c # e
        <5>1. i \in DOMAIN pipes[s] /\ pipes[s][i].exec = c
          BY <2>7, <2>10, <2>13, <3>2, <4>2
        <5> QED
          BY <3>1, <3>2, <5>1 DEF Owned
      <4> QED
        BY <4>1, <4>2
    <3> QED
      BY <1>0, <1>3, <3>1, <3>2 DEF Owned, Clean, Text
  <2> QED
    BY <1>0, <1>7, <2>16, <2>17, <2>21, <2>22 DEF AnswerInv
<1> QED
    BY <1>8, <1>9

\* At first nothing is printed and nobody has read.
LEMMA AnswerInitInv == ExecInit => AnswerInv
<1> SUFFICES ASSUME ExecInit PROVE AnswerInv
    OBVIOUS
<1>1. /\ ShellInv /\ outlog = <<>> /\ typed = <<>> /\ step = 0 /\ results = {} /\ session.running
      /\ \A tag \in Tags : pipes[tag] = <<>>
    BY ShellInitInv DEF ExecInit, Tags
<1>2. ASSUME NEW e \in Execs
      PROVE  /\ ex[e].pc = "idle" /\ ex[e].out = <<>> /\ ex[e].err = <<>> /\ ~ex[e].sentinel /\ ~ex[e].marked
             /\ ~ex[e].timedOut
    BY DEF ExecInit
<1>3. \A e, w : ~Printed(e, w)
    BY <1>1 DEF Printed, InLog, InPipe
<1>4. Kinds
    BY <1>1 DEF Kinds, PipeKinds
<1>5. Progress
    BY <1>1, <1>3 DEF Progress
<1>6. \A tag \in Tags : InOrder(tag)
    BY <1>1 DEF InOrder
<1>7. ASSUME NEW e \in Execs
      PROVE  /\ HasRead(e, ex[e]) /\ Ways(e, ex[e], blame)
             /\ \A tag \in Tags : Owned(tag, e, ex[e], blame)
  <2>1. \A tag \in Tags : Text(ex[e], tag) = <<>> /\ ~Flag(ex[e], tag)
    BY <1>2 DEF Text, Flag
  <2>2. ex[e].pc \notin {"connect", "wait", "finish", "exited"} \cup Keeping
    BY <1>2 DEF Keeping
  <2>3. HasRead(e, ex[e])
    <3>1. <<>> \in Seq(Lines)
      OBVIOUS
    <3> QED
      BY <2>1, <2>2, <3>1 DEF HasRead
  <2>4. Ways(e, ex[e], blame)
    BY <1>2 DEF Ways
  <2>5. \A tag \in Tags : Owned(tag, e, ex[e], blame)
    BY <1>1, <2>1, <2>2 DEF Owned
  <2> QED
    BY <2>3, <2>4, <2>5
<1> QED
    BY <1>1, <1>4, <1>5, <1>6, <1>7 DEF AnswerInv

LEMMA AnswerStands ==
    ASSUME AnswerInv, UNCHANGED <<plan, shellVars, outlog, execLock, ex, blame>>
    PROVE  AnswerInv'
<1>1. UNCHANGED <<plan, session, typed, step, pipes, results, outlog, execLock, ex, blame>>
  BY DEF shellVars
<1>2. ShellInv'
  BY ShellStands DEF AnswerInv
<1>3. target' = target /\ Frame' = Frame
  BY <1>1 DEF target, Frame
<1>4. Kinds' /\ Progress' /\ \A tag \in Tags : InOrder(tag)'
  BY <1>1, StreamsStand
<1>5. ASSUME NEW c \in Execs
      PROVE  /\ HasRead(c, ex[c])' /\ Ways(c, ex[c], blame)'
             /\ \A tag \in Tags : Owned(tag, c, ex[c], blame)'
  <2>1. HasRead(c, ex[c])'
    BY <1>1, <1>3 DEF AnswerInv, HasRead, InLog, Used, Whole, Text, Flag
  <2>2. Ways(c, ex[c], blame)'
    BY <1>1, <1>3 DEF AnswerInv, Ways, Whole, Text
  <2>3. \A tag \in Tags : Owned(tag, c, ex[c], blame)'
    BY <1>1, <1>3 DEF AnswerInv, Owned, Clean, Text
  <2> QED
    BY <2>1, <2>2, <2>3
<1> QED
  BY <1>2, <1>4, <1>5 DEF AnswerInv

\* Every step keeps the invariant.
LEMMA AnswerStep == AnswerInv /\ [ExecNext]_execVars => AnswerInv'
<1> SUFFICES ASSUME AnswerInv, [ExecNext]_execVars PROVE AnswerInv'
    OBVIOUS
<1>1. ASSUME NEW e \in Execs, Client(e) \/ ExDies(e) PROVE AnswerInv'
  <2>1. CASE ExLooks(e)
    BY <2>1, AnswerStands DEF ExLooks
  <2> QED
    BY <1>1, <2>1, BeforeAnswers, TypesAnswers, WaitingAnswers, ReadsAnswers, DrainingAnswers, EndAnswers DEF Client
<1>2. CASE UNCHANGED execVars
    BY <1>2, AnswerStands DEF execVars
<1>3. ASSUME NEW tag \in {"O", "E"}, Captures(tag) PROVE AnswerInv'
    BY <1>3, CapturesAnswers DEF Tags
<1> QED
    BY <1>1, <1>2, <1>3, PrintsAnswers, SessionOverAnswers DEF ExecNext

\* An answer holds the command's own output and all of it, for any number of clients and
\* any interleaving of the two capture threads (exec.rs wait_sentinel_result and the drains
\* after a timeout), with the exceptions that AnswerIsOwn names.
THEOREM AnswerIsOwnHolds == ExecSpec => []AnswerIsOwn
<1>1. AnswerInv => AnswerIsOwn
  <2> SUFFICES ASSUME AnswerInv, NEW e \in Execs, Answered(e)
               PROVE  /\ blame.died \/ ~Foreign(e, ex[e].out)
                      /\ blame.died \/ blame.timed \/ blame.graced \/ ~Foreign(e, ex[e].err)
                      /\ Contains(ex[e].out, Line(e, "out"))
                      /\ target = "DuckDb" \/ blame.graced \/ Contains(ex[e].err, Line(e, "err"))
    BY DEF AnswerIsOwn
  <2>1. /\ ex[e].pc = "exited" /\ ~ex[e].timedOut /\ ex[e].code = 0 /\ Ways(e, ex[e], blame)
        /\ \A tag \in Tags : Owned(tag, e, ex[e], blame)
    BY DEF AnswerInv, Answered, ExAt
  <2>2. /\ Whole(e, ex[e], "O")
        /\ IF target = "DuckDb" THEN ex[e].err = <<>> ELSE blame.graced \/ Whole(e, ex[e], "E")
    BY <2>1 DEF Ways
  <2>3. Contains(ex[e].out, Line(e, "out"))
    BY <2>2 DEF Whole, Text, FirstOf
  <2>4. target = "DuckDb" \/ blame.graced \/ Contains(ex[e].err, Line(e, "err"))
    BY <2>2 DEF Whole, Text, FirstOf
  <2>5. ASSUME NEW s, NEW what \in {"out", "err"}, \A k \in DOMAIN s : s[k] = Line(e, what) PROVE ~Foreign(e, s)
    BY <2>5 DEF Foreign, Line
  <2>6. blame.died \/ ~Foreign(e, ex[e].out)
    <3>1. blame.died \/ \A k \in DOMAIN ex[e].out : ex[e].out[k] = Line(e, "out")
      BY <2>1 DEF Owned, Clean, Text, FirstOf, Tags
    <3> QED
      BY <2>5, <3>1
  <2>7. blame.died \/ blame.timed \/ blame.graced \/ ~Foreign(e, ex[e].err)
    <3>1. CASE target = "DuckDb"
      BY <2>2, <3>1 DEF Foreign
    <3>2. CASE target # "DuckDb"
      <4>1. blame.died \/ blame.timed \/ blame.graced \/ \A k \in DOMAIN ex[e].err : ex[e].err[k] = Line(e, "err")
        BY <2>1, <3>2 DEF Owned, Clean, Text, FirstOf, Tags
      <4> QED
        BY <2>5, <4>1
    <3> QED
      BY <3>1, <3>2
  <2> QED
    BY <2>3, <2>4, <2>6, <2>7
<1> QED
    BY <1>1, AnswerInitInv, AnswerStep, PTL DEF ExecSpec

(***************************************************************************)
(* LogFollow: the matching lines of a log                                  *)
(***************************************************************************)
FileLines == [n : Nat, kind : {"recent", "old", "malformed"}]

\* f is the table of the first matches after line a, of up to m lines.
Matchings(f, s, a, m, since) ==
    f = [k \in 0..m |-> IF k = 0 THEN <<>>
                        ELSE IF Matches(s[a + k], since) THEN Append(f[k - 1], s[a + k]) ELSE f[k - 1]]
TableOf(f, s, a, m, since) == f \in [0..m -> Seq(FileLines)] /\ Matchings(f, s, a, m, since)
HasTable(s, a, m, since) == \E f : TableOf(f, s, a, m, since)
SameAfter(s, t, a, m) == \A k \in 1..m : s[a + k] = t[a + k]

LEMMA MatchingsExist ==
    ASSUME NEW s \in Seq(FileLines), NEW a \in Nat, NEW m \in Nat, a + m <= Len(s), NEW since
    PROVE  HasTable(s, a, m, since)
<1> DEFINE V == Seq(FileLines)
           F == [p \in Nat \X V |-> IF a + p[1] \in 1..Len(s) /\ Matches(s[a + p[1]], since)
                                    THEN Append(p[2], s[a + p[1]]) ELSE p[2]]
<1>1. ASSUME NEW n \in Nat, NEW u \in V
      PROVE  F[<<n, u>>] \in V
    OBVIOUS
<1>2. \A n \in Nat, u \in V : a + n \in 1..Len(s) =>
          F[<<n, u>>] = IF Matches(s[a + n], since) THEN Append(u, s[a + n]) ELSE u
    OBVIOUS
<1>3. <<>> \in V
    OBVIOUS
<1> HIDE DEF F, V
<1>4. PICK f \in [0..m -> V] : Computes(f, F, <<>>, m)
    BY <1>1, <1>3, Recursion
<1>5. ASSUME NEW k \in 0..m, k # 0
      PROVE  F[<<k, f[k - 1]>>] = IF Matches(s[a + k], since) THEN Append(f[k - 1], s[a + k]) ELSE f[k - 1]
  <2>1. k \in Nat /\ a + k \in 1..Len(s) /\ k - 1 \in 0..m
    BY <1>5
  <2> QED
    BY <1>2, <1>4, <2>1
<1>6. Matchings(f, s, a, m, since)
    BY <1>4, <1>5 DEF Matchings, Computes
<1> QED
    BY <1>4, <1>6 DEF V, TableOf, HasTable

LEMMA MatchingsAt ==
    ASSUME NEW f, NEW s, NEW a \in Nat, NEW m \in Nat, NEW since, Matchings(f, s, a, m, since),
           NEW j \in Nat, NEW k \in Nat, k = j + 1, k <= m
    PROVE  f[k] = IF Matches(s[a + k], since) THEN Append(f[j], s[a + k]) ELSE f[j]
<1>1. k \in 0..m /\ k # 0 /\ k - 1 = j
    OBVIOUS
<1> QED
    BY <1>1 DEF Matchings

\* A table depends on the lines it covers only, and begins like a longer one.
LEMMA MatchingsAgree ==
    ASSUME NEW s, NEW t, NEW a \in Nat, NEW m \in Nat, NEW n \in Nat, m <= n, NEW since,
           SameAfter(s, t, a, m),
           NEW f, Matchings(f, s, a, m, since), NEW g, Matchings(g, t, a, n, since)
    PROVE  f[m] = g[m]
<1> DEFINE T == {k \in Nat : k <= m => f[k] = g[k]}
<1>1. 0 \in T
    BY DEF Matchings
<1>2. ASSUME NEW j \in Nat, j \in T
      PROVE  j + 1 \in T
  <2>1. PICK k \in Nat : k = j + 1
    OBVIOUS
  <2>2. SUFFICES ASSUME k <= m PROVE f[k] = g[k]
    BY <2>1
  <2>3. f[j] = g[j] /\ s[a + k] = t[a + k]
    BY <1>2, <2>1, <2>2 DEF SameAfter
  <2>4. f[k] = IF Matches(s[a + k], since) THEN Append(f[j], s[a + k]) ELSE f[j]
    BY <2>1, <2>2, MatchingsAt
  <2>5. g[k] = IF Matches(t[a + k], since) THEN Append(g[j], t[a + k]) ELSE g[j]
    BY <2>1, <2>2, MatchingsAt
  <2> QED
    BY <2>3, <2>4, <2>5
<1> HIDE DEF T
<1>3. m \in T
    BY <1>1, <1>2, NatSetInduction
<1> QED
    BY <1>3 DEF T

\* The lines that match are the last entry of any table.
LEMMA MatchingIs ==
    ASSUME NEW s \in Seq(FileLines), NEW a \in Nat, NEW m \in Nat, NEW b \in Nat, b = a + m,
           b <= Len(s), NEW since, NEW f, TableOf(f, s, a, m, since)
    PROVE  Matching(s, a, b, since) = f[m]
<1>1. b - a = m
    OBVIOUS
<1> DEFINE g == CHOOSE h : Matchings(h, s, a, m, since)
<1>3. Matchings(g, s, a, m, since)
    BY DEF TableOf
<1>4. Matching(s, a, b, since) = g[m]
    BY <1>1 DEF Matching, Matchings
<1> HIDE DEF g
<1>5. Matchings(f, s, a, m, since) /\ SameAfter(s, s, a, m)
    BY DEF TableOf, SameAfter
<1>6. f[m] = g[m]
    BY <1>3, <1>5, MatchingsAgree
<1> QED
    BY <1>4, <1>6

LEMMA MatchingNone ==
    ASSUME NEW s \in Seq(FileLines), NEW a \in Nat, a <= Len(s), NEW since
    PROVE  Matching(s, a, a, since) = <<>>
<1>1. a + 0 <= Len(s) /\ a = a + 0 /\ 0 \in Nat
    OBVIOUS
<1>2. PICK f : TableOf(f, s, a, 0, since)
    BY <1>1, MatchingsExist DEF HasTable
<1>3. Matching(s, a, a, since) = f[0]
    BY <1>1, <1>2, MatchingIs
<1> QED
    BY <1>2, <1>3 DEF TableOf, Matchings

LEMMA MatchingType ==
    ASSUME NEW s \in Seq(FileLines), NEW a \in Nat, NEW b \in Nat, a <= b, b <= Len(s), NEW since
    PROVE  Matching(s, a, b, since) \in Seq(FileLines)
<1>1. PICK m \in Nat : b = a + m
    BY b - a \in Nat
<1>2. PICK f : TableOf(f, s, a, m, since)
    BY <1>1, MatchingsExist DEF HasTable
<1>3. Matching(s, a, b, since) = f[m] /\ m \in 0..m
    BY <1>1, <1>2, MatchingIs
<1> QED
    BY <1>2, <1>3 DEF TableOf

\* One line more.
ExtendsBy(longer, shorter, l, since) ==
    longer = IF Matches(l, since) THEN Append(shorter, l) ELSE shorter

LEMMA MatchingNext ==
    ASSUME NEW s \in Seq(FileLines), NEW a \in Nat, NEW b \in Nat, a <= b, NEW c \in Nat, c = b + 1,
           c <= Len(s), NEW since
    PROVE  ExtendsBy(Matching(s, a, c, since), Matching(s, a, b, since), s[c], since)
<1>1. PICK m \in Nat : b = a + m
    BY b - a \in Nat
<1>2. PICK n \in Nat : n = m + 1
    OBVIOUS
<1>3. c = a + n /\ b <= Len(s) /\ m <= n /\ SameAfter(s, s, a, m)
    BY <1>1, <1>2 DEF SameAfter
<1>4. PICK f : TableOf(f, s, a, m, since)
    BY <1>1, <1>3, MatchingsExist DEF HasTable
<1>5. PICK g : TableOf(g, s, a, n, since)
    BY <1>3, MatchingsExist DEF HasTable
<1>6. Matching(s, a, b, since) = f[m]
    BY <1>1, <1>3, <1>4, MatchingIs
<1>7. Matching(s, a, c, since) = g[n]
    BY <1>3, <1>5, MatchingIs
<1>8. Matchings(f, s, a, m, since) /\ Matchings(g, s, a, n, since)
    BY <1>4, <1>5 DEF TableOf
<1>9. f[m] = g[m]
    BY <1>3, <1>8, MatchingsAgree
<1>10. g[n] = IF Matches(s[a + n], since) THEN Append(g[m], s[a + n]) ELSE g[m]
    BY <1>2, <1>8, MatchingsAt
<1> QED
    BY <1>3, <1>6, <1>7, <1>9, <1>10 DEF ExtendsBy

\* What matched stays what matched while the log grows.
LEMMA MatchingGrows ==
    ASSUME NEW s \in Seq(FileLines), NEW l \in FileLines, NEW a \in Nat, NEW b \in Nat, a <= b,
           b <= Len(s), NEW since
    PROVE  Matching(Append(s, l), a, b, since) = Matching(s, a, b, since)
<1>1. PICK m \in Nat : b = a + m
    BY b - a \in Nat
<1>2. PICK t : t = Append(s, l)
    OBVIOUS
<1>3. t \in Seq(FileLines) /\ b <= Len(t)
    BY <1>2
<1>4. SameAfter(s, t, a, m)
    BY <1>1, <1>2 DEF SameAfter
<1>5. PICK f : TableOf(f, s, a, m, since)
    BY <1>1, MatchingsExist DEF HasTable
<1>6. PICK g : TableOf(g, t, a, m, since)
    BY <1>1, <1>3, MatchingsExist DEF HasTable
<1>7. Matching(s, a, b, since) = f[m]
    BY <1>1, <1>5, MatchingIs
<1>8. Matching(t, a, b, since) = g[m]
    BY <1>1, <1>3, <1>6, MatchingIs
<1>9. Matchings(f, s, a, m, since) /\ Matchings(g, t, a, m, since)
    BY <1>5, <1>6 DEF TableOf
<1>10. f[m] = g[m]
    BY <1>4, <1>9, MatchingsAgree
<1> QED
    BY <1>2, <1>7, <1>8, <1>10

\* The ring holds the last n of what was pushed.
LEMMA RingHolds ==
    ASSUME NEW s \in Seq(FileLines), NEW l \in FileLines, NEW n \in Nat
    PROVE  RingPush(LastLines(s, n), l, n) = LastLines(Append(s, l), n)
<1>1. PICK t : t = Append(s, l)
    OBVIOUS
<1>2. PICK m \in Nat : m = Len(s)
    OBVIOUS
<1>3. t \in Seq(FileLines) /\ Len(t) = m + 1
    BY <1>1, <1>2
<1>4. CASE n = 0
  <2>1. LastLines(s, n) = <<>>
    BY <1>2, <1>4 DEF LastLines
  <2>2. LastLines(t, n) = <<>>
    BY <1>3, <1>4 DEF LastLines
  <2> QED
    BY <1>1, <1>4, <2>1, <2>2 DEF RingPush
<1>5. CASE n # 0 /\ m < n
  <2>1. LastLines(s, n) = s
    BY <1>2, <1>5 DEF LastLines
  <2>2. LastLines(t, n) = t
    BY <1>3, <1>5 DEF LastLines
  <2> QED
    BY <1>1, <1>2, <1>5, <2>1, <2>2 DEF RingPush
<1>6. CASE n # 0 /\ n <= m
  <2>0. PICK i \in Nat : i = m - n + 1
    BY <1>6
  <2>1. PICK ring : ring = SubSeq(s, i, m)
    OBVIOUS
  <2>2. ring \in Seq(FileLines) /\ Len(ring) = n /\ \A k \in 1..n : ring[k] = s[i + k - 1]
    BY <1>2, <1>6, <2>0, <2>1
  <2>3. LastLines(s, n) = ring
    <3>1. CASE m = n
      <4>1. i = 1 /\ \A k \in 1..n : ring[k] = s[k]
        BY <2>0, <2>2, <3>1
      <4>2. ring = s
        BY <1>2, <2>2, <3>1, <4>1, SeqEqual
      <4> QED
        BY <1>2, <3>1, <4>2 DEF LastLines
    <3>2. CASE m # n
      BY <1>2, <1>6, <2>0, <2>1, <3>2 DEF LastLines
    <3> QED
      BY <3>1, <3>2
  <2>4. PICK u : u = SubSeq(t, i + 1, m + 1)
    OBVIOUS
  <2>5. u \in Seq(FileLines) /\ Len(u) = n /\ \A k \in 1..n : u[k] = t[i + k]
    BY <1>3, <1>6, <2>0, <2>4
  <2>6. LastLines(t, n) = u
    BY <1>3, <1>6, <2>0, <2>4 DEF LastLines
  <2>7. PICK v : v = Append(Tail(ring), l)
    OBVIOUS
  <2>8. v \in Seq(FileLines) /\ Len(v) = n /\ v[n] = l /\ \A k \in 1..(n - 1) : v[k] = ring[k + 1]
    BY <1>6, <2>2, <2>7
  <2>9. ASSUME NEW k \in 1..n PROVE v[k] = u[k]
    <3>1. CASE k = n
      <4>1. i + k = m + 1 /\ t[m + 1] = l
        BY <1>1, <1>2, <2>0, <3>1
      <4> QED
        BY <2>5, <2>8, <3>1, <4>1
    <3>2. CASE k # n
      <4>1. PICK j \in Nat : j = k + 1
        OBVIOUS
      <4>2. k \in 1..(n - 1) /\ j \in 1..n /\ i + j - 1 = i + k /\ i + k \in 1..m
        BY <1>6, <2>0, <3>2, <4>1
      <4>3. v[k] = ring[j] /\ ring[j] = s[i + k] /\ u[k] = t[i + k] /\ t[i + k] = s[i + k]
        BY <1>1, <1>2, <2>2, <2>5, <2>8, <4>1, <4>2
      <4> QED
        BY <4>3
    <3> QED
      BY <3>1, <3>2
  <2>10. v = u
    BY <2>5, <2>8, <2>9, SeqEqual
  <2> QED
    BY <1>1, <1>6, <2>2, <2>3, <2>6, <2>7, <2>10 DEF RingPush
<1> QED
    BY <1>2, <1>4, <1>5, <1>6

LEMMA LastOfType ==
    ASSUME NEW s \in Seq(FileLines), NEW n \in Nat
    PROVE  LastLines(s, n) \in Seq(FileLines)
<1>1. PICK i \in Int : i = Len(s) - n + 1
    OBVIOUS
<1> QED
    BY <1>1 DEF LastLines

(***************************************************************************)
(* LogFollow: the inductive invariant                                      *)
(***************************************************************************)
ReadingPcs == {"start", "absent", "tail", "read", "stop", "done"}
ReaderRec(r) == r \in [pc : ReadingPcs, pos : Nat, from : Nat, ring : Seq(FileLines), cut : Nat]

LogTypes ==
    /\ lines \in Seq(FileLines) /\ printed \in Seq(FileLines) /\ query \in Queries
    /\ ReaderRec(reader) /\ reader.pos <= Len(lines) /\ reader.cut <= reader.pos

\* What --tail kept of the first cut lines of s.
Kept(s, q, cut) ==
    IF q.tail = NoTail THEN <<>> ELSE LastLines(Matching(s, 0, cut, q.since), q.tail)
Shows(p, s, q, cut, pos) == p = Kept(s, q, cut) \o Matching(s, cut, pos, q.since)

FollowInv ==
    /\ LogTypes
    /\ reader.pc \in {"start", "absent"} =>
           reader.pos = 0 /\ reader.cut = 0 /\ reader.ring = <<>> /\ printed = <<>>
    /\ reader.pc = "tail" =>
           /\ query.tail \in Nat /\ reader.cut = 0 /\ printed = <<>>
           /\ reader.ring = LastLines(Matching(lines, 0, reader.pos, query.since), query.tail)
    /\ reader.pc \in {"read", "stop", "done"} => Shows(printed, lines, query, reader.cut, reader.pos)

LEMMA QueryHas ==
    ASSUME LogTypes
    PROVE  query.tail # NoTail => query.tail \in Nat
BY LogAssumption DEF LogTypes

LEMMA KeptType ==
    ASSUME NEW s \in Seq(FileLines), NEW q, q.tail # NoTail => q.tail \in Nat, NEW cut \in Nat, cut <= Len(s)
    PROVE  Kept(s, q, cut) \in Seq(FileLines)
<1>1. CASE q.tail = NoTail
    BY <1>1 DEF Kept
<1>2. CASE q.tail # NoTail
  <2>1. PICK n \in Nat : n = q.tail
    BY <1>2
  <2>2. PICK m : m = Matching(s, 0, cut, q.since)
    OBVIOUS
  <2>3. m \in Seq(FileLines)
    BY <2>2, MatchingType
  <2>4. LastLines(m, n) \in Seq(FileLines)
    BY <2>3, LastOfType
  <2> QED
    BY <1>2, <2>1, <2>2, <2>4 DEF Kept
<1> QED
    BY <1>1, <1>2

\* The log grows, and the reader has not come to its new line.
LEMMA FileGrows == FollowInv /\ (\E kind \in {"recent", "old", "malformed"} : AppendsLine(kind)) => FollowInv'
<1> SUFFICES ASSUME FollowInv, NEW kind \in {"recent", "old", "malformed"}, AppendsLine(kind)
             PROVE  FollowInv'
    OBVIOUS
<1>0. PICK s \in Seq(FileLines), pos \in Nat, cut \in Nat :
          s = lines /\ pos = reader.pos /\ cut = reader.cut
    BY DEF FollowInv, LogTypes, ReaderRec
<1>1. PICK l : l = [n |-> Len(lines) + 1, kind |-> kind]
    OBVIOUS
<1>2. l \in FileLines
    BY <1>0, <1>1 DEF FileLines
<1>3. PICK t : t = Append(s, l)
    OBVIOUS
<1>4. t \in Seq(FileLines) /\ Len(t) = Len(s) + 1
    BY <1>2, <1>3
<1>5. lines' = t /\ UNCHANGED <<query, reader, printed>>
    BY <1>0, <1>1, <1>3 DEF AppendsLine
<1>6. cut <= pos /\ pos <= Len(s) /\ pos <= Len(t)
    BY <1>0, <1>4 DEF FollowInv, LogTypes
<1>7. /\ Matching(t, 0, cut, query.since) = Matching(s, 0, cut, query.since)
      /\ Matching(t, 0, pos, query.since) = Matching(s, 0, pos, query.since)
      /\ Matching(t, cut, pos, query.since) = Matching(s, cut, pos, query.since)
    BY <1>2, <1>3, <1>6, MatchingGrows
<1>8. LogTypes'
    BY <1>0, <1>4, <1>5, <1>6 DEF FollowInv, LogTypes, ReaderRec
<1>9. Shows(printed, s, query, cut, pos) => Shows(printed, t, query, cut, pos)
    BY <1>7 DEF Shows, Kept
<1> QED
    BY <1>0, <1>5, <1>7, <1>8, <1>9 DEF FollowInv

\* The reader finds the log, or not.
LEMMA OpensKeeps == FollowInv /\ (WaitsForFile \/ StopsOrWaits \/ OpensLog) => FollowInv'
<1> SUFFICES ASSUME FollowInv, WaitsForFile \/ StopsOrWaits \/ OpensLog
             PROVE  FollowInv'
    OBVIOUS
<1>0. /\ lines \in Seq(FileLines) /\ query \in Queries /\ ReaderRec(reader) /\ printed = <<>>
      /\ UNCHANGED <<printed, lines, query>>
      /\ reader.pc \in {"start", "absent"} /\ reader.pos = 0 /\ reader.cut = 0 /\ reader.ring = <<>>
    BY DEF FollowInv, LogTypes, WaitsForFile, StopsOrWaits, OpensLog, At, Reads
<1>1. query.tail # NoTail => query.tail \in Nat
    BY QueryHas DEF FollowInv
<1>2. PICK s \in Seq(FileLines) : s = lines
    BY <1>0
<1>3. Matching(s, 0, 0, query.since) = <<>>
    BY <1>2, MatchingNone
<1>4. query.tail # NoTail => LastLines(<<>>, query.tail) = <<>>
    BY <1>1 DEF LastLines
<1>5. Kept(s, query, 0) = <<>>
    BY <1>3, <1>4 DEF Kept
<1>6. Shows(<<>>, s, query, 0, 0)
    BY <1>3, <1>5 DEF Shows
<1>7. CASE WaitsForFile \/ StopsOrWaits
  <2>1. /\ ReaderRec(reader') /\ reader'.pos = 0 /\ reader'.cut = 0 /\ reader'.ring = <<>>
        /\ reader'.pc \in {"start", "absent", "done"}
    BY <1>0, <1>7 DEF WaitsForFile, StopsOrWaits, ReaderRec, ReadingPcs
  <2> QED
    BY <1>0, <1>2, <1>6, <2>1 DEF FollowInv, LogTypes
<1>8. CASE OpensLog
  <2>1. PICK from \in Nat :
            from = IF query.follow /\ query.tail = NoTail /\ ~query.since THEN Len(lines) ELSE 0
    BY <1>0
  <2>2. /\ ReaderRec(reader') /\ reader'.pos = from /\ reader'.cut = from /\ reader'.ring = <<>>
        /\ reader'.pc = IF query.tail = NoTail THEN "read" ELSE "tail"
    BY <1>0, <1>8, <2>1 DEF OpensLog, ReaderRec, ReadingPcs
  <2>3. from <= Len(s)
    BY <1>2, <2>1
  <2>4. LogTypes'
    BY <1>0, <1>2, <2>2, <2>3 DEF LogTypes
  <2>5. CASE query.tail = NoTail
    <3>1. Matching(s, from, from, query.since) = <<>> /\ Kept(s, query, from) = <<>>
      BY <2>3, <2>5, MatchingNone DEF Kept
    <3>2. Shows(<<>>, s, query, from, from)
      BY <3>1 DEF Shows
    <3> QED
      BY <1>0, <1>2, <2>2, <2>4, <2>5, <3>2 DEF FollowInv
  <2>6. CASE query.tail # NoTail
    <3>1. from = 0
      BY <2>1, <2>6
    <3> QED
      BY <1>0, <1>1, <1>2, <1>3, <1>4, <2>2, <2>4, <2>6, <3>1 DEF FollowInv
  <2> QED
    BY <2>5, <2>6
<1> QED
    BY <1>7, <1>8

\* --tail: the ring holds the last matching lines of those read.
LEMMA TailKeeps == FollowInv /\ ReadsTail => FollowInv'
<1> SUFFICES ASSUME FollowInv, ReadsTail
             PROVE  FollowInv'
    OBVIOUS
<1>0. /\ LogTypes /\ reader.pc = "tail" /\ reader.cut = 0 /\ printed = <<>> /\ query.tail \in Nat
      /\ reader.ring = LastLines(Matching(lines, 0, reader.pos, query.since), query.tail)
      /\ UNCHANGED <<lines, query>>
    BY DEF FollowInv, ReadsTail, At, Reads
<1>1. PICK s \in Seq(FileLines), pos \in Nat, n \in Nat, ring \in Seq(FileLines) :
          s = lines /\ pos = reader.pos /\ n = query.tail /\ ring = reader.ring
    BY <1>0 DEF LogTypes, ReaderRec
<1>2. pos <= Len(s) /\ n # NoTail /\ ring = LastLines(Matching(s, 0, pos, query.since), n)
    BY <1>0, <1>1, LogAssumption DEF LogTypes
<1>3. CASE AtEof
  <2>1. pos = Len(s) /\ printed' = <<>> \o ring
    BY <1>0, <1>1, <1>3 DEF ReadsTail, AtEof
  <2>2. ReaderRec(reader') /\ reader'.pos = pos /\ reader'.cut = pos /\ reader'.pc \in {"read", "done"}
    BY <1>0, <1>1, <1>3 DEF ReadsTail, ReaderRec, ReadingPcs, LogTypes
  <2>3. Matching(s, pos, pos, query.since) = <<>>
    BY <1>2, MatchingNone
  <2>4. Kept(s, query, pos) = ring
    BY <1>1, <1>2 DEF Kept
  <2>5. printed' = ring /\ ring \o <<>> = ring
    BY <2>1
  <2>6. Shows(printed', s, query, pos, pos)
    BY <2>3, <2>4, <2>5 DEF Shows
  <2>7. LogTypes'
    BY <1>0, <1>1, <1>2, <2>2, <2>5 DEF LogTypes
  <2> QED
    BY <1>0, <1>1, <2>2, <2>6, <2>7 DEF FollowInv
<1>4. CASE ~AtEof
  <2>1. PICK c \in Nat : c = pos + 1
    OBVIOUS
  <2>2. PICK l : l = s[c]
    OBVIOUS
  <2>3. c <= Len(s) /\ l \in FileLines
    BY <1>1, <1>2, <1>4, <2>1, <2>2 DEF AtEof
  <2>4. PICK m : m = Matching(s, 0, pos, query.since)
    OBVIOUS
  <2>5. m \in Seq(FileLines)
    BY <1>2, <2>4, MatchingType
  <2>6. Matching(s, 0, c, query.since) = IF Matches(l, query.since) THEN Append(m, l) ELSE m
    <3>1. PICK since : since = query.since
      OBVIOUS
    <3>2. ExtendsBy(Matching(s, 0, c, since), Matching(s, 0, pos, since), s[c], since)
      BY <2>1, <2>3, MatchingNext
    <3> QED
      BY <2>2, <2>4, <3>1, <3>2 DEF ExtendsBy
  <2>7. PICK new : new = IF Matches(l, query.since) THEN RingPush(ring, l, n) ELSE ring
    OBVIOUS
  <2>8. new = LastLines(Matching(s, 0, c, query.since), n)
    BY <1>2, <2>3, <2>4, <2>5, <2>6, <2>7, RingHolds
  <2>9. new \in Seq(FileLines)
    <3>1. PICK k : k = Matching(s, 0, c, query.since)
      OBVIOUS
    <3>2. k \in Seq(FileLines)
      BY <2>3, <3>1, MatchingType
    <3> QED
      BY <2>8, <3>1, <3>2, LastOfType
  <2>10. reader' = [reader EXCEPT !.pos = c, !.ring = new] /\ printed' = printed
    BY <1>0, <1>1, <1>4, <2>1, <2>2, <2>7 DEF ReadsTail, LogTypes, ReaderRec
  <2>11. /\ ReaderRec(reader') /\ reader'.pos = c /\ reader'.cut = 0 /\ reader'.pc = "tail"
         /\ reader'.ring = new
    BY <1>0, <2>9, <2>10 DEF ReaderRec, LogTypes
  <2>12. LogTypes'
    BY <1>0, <1>1, <2>3, <2>10, <2>11 DEF LogTypes
  <2> QED
    BY <1>0, <1>1, <2>8, <2>10, <2>11, <2>12 DEF FollowInv
<1> QED
    BY <1>3, <1>4

LEMMA AppendToConcat ==
    ASSUME NEW k \in Seq(FileLines), NEW m \in Seq(FileLines), NEW l \in FileLines
    PROVE  Append(k \o m, l) = k \o Append(m, l)
<1>1. PICK a : a = Append(k \o m, l)
    OBVIOUS
<1>2. PICK b : b = k \o Append(m, l)
    OBVIOUS
<1>3. PICK h \in Nat, n \in Nat : h = Len(k) /\ n = Len(m)
    OBVIOUS
<1>4. a \in Seq(FileLines) /\ Len(a) = h + n + 1
    BY <1>1, <1>3
<1>5. b \in Seq(FileLines) /\ Len(b) = h + n + 1
    BY <1>2, <1>3
<1>6. ASSUME NEW i \in 1..(h + n + 1) PROVE a[i] = b[i]
  <2>1. CASE i <= h
    BY <1>1, <1>2, <1>3, <2>1
  <2>2. CASE h < i /\ i <= h + n
    BY <1>1, <1>2, <1>3, <2>2
  <2>3. CASE i = h + n + 1
    BY <1>1, <1>2, <1>3, <2>3
  <2> QED
    BY <2>1, <2>2, <2>3
<1>7. a = b
    BY <1>4, <1>5, <1>6, SeqEqual
<1> QED
    BY <1>1, <1>2, <1>7

\* A line is printed if it matches.
LEMMA ReadKeeps == FollowInv /\ ReadsLine => FollowInv'
<1> SUFFICES ASSUME FollowInv, ReadsLine
             PROVE  FollowInv'
    OBVIOUS
<1>0. /\ LogTypes /\ reader.pc = "read" /\ Shows(printed, lines, query, reader.cut, reader.pos)
      /\ UNCHANGED <<lines, query>>
    BY DEF FollowInv, ReadsLine, At, Reads
<1>1. PICK s \in Seq(FileLines), pos \in Nat, cut \in Nat, c \in Nat, p \in Seq(FileLines) :
          s = lines /\ pos = reader.pos /\ cut = reader.cut /\ c = pos + 1 /\ p = printed
    BY <1>0 DEF LogTypes, ReaderRec
<1>2. PICK l : l = s[c]
    OBVIOUS
<1>3. cut <= pos /\ pos <= Len(s) /\ c <= Len(s) /\ l \in FileLines
    BY <1>0, <1>1, <1>2 DEF LogTypes, ReadsLine, AtEof
<1>4. PICK k : k = Kept(s, query, cut)
    OBVIOUS
<1>5. PICK m : m = Matching(s, cut, pos, query.since)
    OBVIOUS
<1>6. k \in Seq(FileLines) /\ m \in Seq(FileLines)
    BY <1>0, <1>3, <1>4, <1>5, KeptType, MatchingType, QueryHas
<1>7. Matching(s, cut, c, query.since) = IF Matches(l, query.since) THEN Append(m, l) ELSE m
  <2>1. PICK since : since = query.since
    OBVIOUS
  <2>2. ExtendsBy(Matching(s, cut, c, since), Matching(s, cut, pos, since), s[c], since)
    <3>1. c = pos + 1
      BY <1>1
    <3> QED
      BY <1>3, <3>1, MatchingNext
  <2> QED
    BY <1>2, <1>5, <2>1, <2>2 DEF ExtendsBy
<1>8. p = k \o m
    BY <1>0, <1>1, <1>4, <1>5 DEF Shows
<1>9. printed' = (IF Matches(l, query.since) THEN Append(p, l) ELSE p)
      /\ reader' = [reader EXCEPT !.pos = c]
    BY <1>0, <1>1, <1>2 DEF ReadsLine, LogTypes, ReaderRec
<1>10. ReaderRec(reader') /\ reader'.pos = c /\ reader'.cut = cut /\ reader'.pc = "read"
    BY <1>0, <1>1, <1>9 DEF LogTypes, ReaderRec
<1>11. Append(k \o m, l) = k \o Append(m, l)
    BY <1>3, <1>6, AppendToConcat
<1>12. printed' = k \o Matching(s, cut, c, query.since)
    BY <1>7, <1>8, <1>9, <1>11
<1>13. Shows(printed', s, query, cut, c)
    BY <1>4, <1>12 DEF Shows
<1>14. printed' \in Seq(FileLines) /\ cut <= c
    BY <1>1, <1>3, <1>9
<1>15. LogTypes'
    BY <1>0, <1>1, <1>3, <1>10, <1>14 DEF LogTypes
<1> QED
    BY <1>0, <1>1, <1>10, <1>13, <1>15 DEF FollowInv

\* The rest does not touch what was read and printed.
LEMMA FollowRests ==
    FollowInv /\ (ReadsEof \/ StopsOrSleeps \/ CreatesLog \/ WritesTerminal \/ UNCHANGED logVars) => FollowInv'
<1> SUFFICES ASSUME FollowInv, ReadsEof \/ StopsOrSleeps \/ CreatesLog \/ WritesTerminal \/ UNCHANGED logVars
             PROVE  FollowInv'
    OBVIOUS
<1>1. CASE CreatesLog \/ WritesTerminal \/ UNCHANGED logVars
    BY <1>1 DEF FollowInv, LogTypes, CreatesLog, WritesTerminal, logVars
<1>2. CASE ReadsEof \/ StopsOrSleeps
  <2>1. reader.pc \in {"read", "stop"} /\ UNCHANGED <<lines, query, printed>> /\ LogTypes
        /\ Shows(printed, lines, query, reader.cut, reader.pos)
    BY <1>2 DEF FollowInv, ReadsEof, StopsOrSleeps, At, Reads
  <2>2. /\ ReaderRec(reader') /\ reader'.pos = reader.pos /\ reader'.cut = reader.cut
        /\ reader'.pc \in {"read", "stop", "done"}
    BY <1>2, <2>1 DEF ReadsEof, StopsOrSleeps, LogTypes, ReaderRec, ReadingPcs
  <2>3. LogTypes'
    BY <2>1, <2>2 DEF LogTypes
  <2> QED
    BY <2>1, <2>2, <2>3 DEF FollowInv
<1> QED
    BY <1>1, <1>2

LEMMA FollowInitInv == LogInit => FollowInv
BY DEF LogInit, FollowInv, LogTypes, ReaderRec, ReadingPcs

LEMMA FollowStep == FollowInv /\ [LogNext]_logVars => FollowInv'
BY FileGrows, OpensKeeps, TailKeeps, ReadKeeps, FollowRests DEF LogNext, ReaderSteps

\* What log and a follower print are the matching lines, in order and each once, whatever
\* the log grows by meanwhile: with --tail, the last n of those there were when the end
\* was first reached, and all that came after (src/log.rs).
THEOREM FollowFaithfulHolds == LogSpec => []FollowFaithful
<1>1. FollowInv => FollowFaithful
    BY DEF FollowInv, FollowFaithful, Shows, Kept
<1> QED
    BY <1>1, FollowInitInv, FollowStep, PTL DEF LogSpec

(***************************************************************************)
(* The sweep's inductive invariant                                         *)
(***************************************************************************)
OwnerPcs == {"unborn", "launching", "bound", "listening", "serving", "ended", "dead"}
SweepPcs == {"idle", "names", "visit", "connect", "remove", "done"}

SocketTypes ==
    /\ crumb \in [PtySessions -> PtyRuns \cup {NoCrumb, NoSessionDir}]
    /\ owner \in [PtyRuns -> [pc : OwnerPcs, home : PtySessions, old : BOOLEAN]]
    /\ paths \subseteq PtyRuns
    /\ sweep \in [pc : SweepPcs, dry : BOOLEAN, left : SUBSET (PtySessions \cup PtyRuns),
                  named : SUBSET PtyRuns, at : PtyRuns \cup {NoCrumb},
                  orphans : SUBSET PtyRuns, kept : SUBSET PtyRuns,
                  abandoned : SUBSET PtyRuns]

\* A path is there from the bind to the end, or it was left by a sidecar that died; it
\* is not old before anyone listens on it.
PathsOwned ==
    /\ \A r \in PtyRuns : owner[r].pc \in {"bound", "listening", "serving"} => r \in paths
    /\ \A r \in paths : owner[r].pc \in {"bound", "listening", "serving", "dead"}
    /\ \A r \in PtyRuns : owner[r].pc \in {"unborn", "launching", "bound"} => ~owner[r].old

\* What the sweep knows of the socket at hand: it was old, and then also refused.
AtHand ==
    /\ sweep.pc \in {"connect", "remove"} => sweep.at \in PtyRuns /\ owner[sweep.at].old
    /\ sweep.pc = "remove" => OwnerAt(sweep.at, "dead")

\* What was abandoned when the sweep began stays so, and no breadcrumb read since names it.
StillAbandoned ==
    \A r \in sweep.abandoned :
        /\ OwnerAt(r, "dead") /\ owner[r].old
        /\ \A s \in PtySessions : crumb[s] # r
        /\ r \notin sweep.named
        /\ r \in paths \/ r \in sweep.orphans

\* What the sweep is done with: reported, or not to be unlinked.
Seen == sweep.orphans \cup sweep.kept

\* The abandoned sockets that are neither done with nor ahead: at most the one at hand.
Accounted ==
    /\ sweep.pc = "idle" => sweep.abandoned = {}
    /\ sweep.pc \in {"idle", "names"} => sweep.orphans = {} /\ sweep.kept = {}
    /\ sweep.pc = "visit" => sweep.abandoned \subseteq sweep.left \cup Seen
    /\ sweep.pc \in {"connect", "remove"} =>
          /\ sweep.abandoned \subseteq sweep.left \cup Seen \cup {sweep.at}
          /\ sweep.at \notin sweep.left \cup sweep.kept
    /\ sweep.pc = "done" => sweep.abandoned \subseteq Seen
    /\ sweep.left \cap sweep.kept = {}

\* A reported socket is a dead sidecar's, and gone unless the run was dry; one that was
\* kept is there.
Reported ==
    /\ \A r \in Seen : OwnerAt(r, "dead")
    /\ ~sweep.dry => sweep.orphans \cap paths = {}
    /\ sweep.kept \subseteq paths
    /\ sweep.dry => sweep.kept = {}

SweepInv ==
    SocketTypes /\ PathsOwned /\ AtHand /\ StillAbandoned /\ Accounted /\ Reported

(***************************************************************************)
(* The attach client's inductive invariant                                 *)
(***************************************************************************)
\* The terminal is raw only here, between RawTerminal::enter and its restoration.
RawPcs == {"spawn", "loop", "drain", "swap", "size", "keys", "detach", "grace", "shut", "restore"}

\* The fields of a record, whatever they hold.
HasFields(r, fields) == DOMAIN r = fields /\ r = [f \in fields |-> r[f]]

MainFields == {"pc", "code", "ending", "size", "due", "keyboard"}

RawInv ==
    /\ HasFields(main, MainFields)
    /\ HasFields(term, {"raw", "size", "left"})
    /\ HasFields(signal, {"handled", "pending", "wake", "running", "raised"})
    /\ term.raw => main.pc \in RawPcs
    /\ main.pc \in RawPcs \cup {"raw", "unhandle"} => signal.handled

(***************************************************************************)
(* The sweep takes exactly the abandoned sockets                           *)
(***************************************************************************)
LEMMA SocketInitInv == SocketInit => SweepInv
<1> SUFFICES ASSUME SocketInit PROVE SweepInv
    OBVIOUS
<1>1. (CHOOSE s \in PtySessions : TRUE) \in PtySessions
    BY SocketAssumption
<1>2. SocketTypes
  <2>1. owner \in [PtyRuns -> [pc : OwnerPcs, home : PtySessions, old : BOOLEAN]]
    BY <1>1 DEF SocketInit, OwnerPcs
  <2>2. crumb \in [PtySessions -> PtyRuns \cup {NoCrumb, NoSessionDir}] /\ paths \subseteq PtyRuns
    BY DEF SocketInit
  <2>3. sweep \in [pc : SweepPcs, dry : BOOLEAN, left : SUBSET (PtySessions \cup PtyRuns),
                  named : SUBSET PtyRuns, at : PtyRuns \cup {NoCrumb},
                  orphans : SUBSET PtyRuns, kept : SUBSET PtyRuns,
                  abandoned : SUBSET PtyRuns]
    BY DEF SocketInit, NoSweep, SweepPcs
  <2> QED
    BY <2>1, <2>2, <2>3 DEF SocketTypes
<1>3. PathsOwned
    BY DEF SocketInit, PathsOwned
<1>4. AtHand /\ StillAbandoned /\ Accounted /\ Reported
    BY DEF SocketInit, NoSweep, AtHand, StillAbandoned, Accounted, Reported, Seen
<1> QED
    BY <1>2, <1>3, <1>4 DEF SweepInv

\* OwnerGoes changes one sidecar's program counter and nothing else of it.
LEMMA OwnerMoves ==
    ASSUME SocketTypes, NEW r \in PtyRuns, NEW pc \in OwnerPcs, OwnerGoes(r, pc)
    PROVE  /\ owner' \in [PtyRuns -> [pc : OwnerPcs, home : PtySessions, old : BOOLEAN]]
           /\ owner'[r].pc = pc /\ owner'[r].old = owner[r].old
           /\ \A q \in PtyRuns \ {r} : owner'[q] = owner[q]
BY DEF SocketTypes, OwnerGoes

\* What a step of run r's sidecar may do to the things the sweep relies on: nothing to
\* another run's, and to its own nothing once it is dead, but that the socket ages.
SidecarEffect(r) ==
    /\ sweep' = sweep
    /\ \A q \in PtyRuns \ {r} : owner'[q] = owner[q] /\ (q \in paths' <=> q \in paths)
    /\ OwnerAt(r, "dead") => OwnerAt(r, "dead")' /\ (r \in paths' <=> r \in paths)
    /\ owner[r].old => owner'[r].old
    /\ r \in paths' => r \in paths \/ ~OwnerAt(r, "dead")
    /\ \A s \in PtySessions :
          crumb'[s] \in {crumb[s], NoCrumb, NoSessionDir} \/ (crumb'[s] = r /\ ~OwnerAt(r, "dead"))

SidecarMoves(r) ==
    \/ \E s \in PtySessions : Launches(r, s)
    \/ BindsPath(r) \/ BindRefused(r) \/ Listens(r) \/ PublishesCrumb(r)
    \/ PublishFails(r) \/ CleansUp(r) \/ KilledOutright(r) \/ Ages(r)

\* The sidecar of a run touches only that run's socket, and the link or breadcrumb only
\* to name itself or to withdraw.
LEMMA SidecarEffects ==
    ASSUME SweepInv, NEW r \in PtyRuns, SidecarMoves(r)
    PROVE  SocketTypes' /\ PathsOwned' /\ SidecarEffect(r)
<1> USE SocketAssumption
<1>0. SocketTypes /\ PathsOwned
    BY DEF SweepInv
<1>1. ASSUME NEW s \in PtySessions, Launches(r, s)
      PROVE  SocketTypes' /\ PathsOwned' /\ SidecarEffect(r)
  <2>1. /\ owner' \in [PtyRuns -> [pc : OwnerPcs, home : PtySessions, old : BOOLEAN]]
        /\ owner'[r].pc = "launching" /\ owner'[r].old = owner[r].old
        /\ \A q \in PtyRuns \ {r} : owner'[q] = owner[q]
    <3> DEFINE new == [owner[r] EXCEPT !.pc = "launching", !.home = s]
    <3>1. owner' = [owner EXCEPT ![r] = new]
      BY <1>1 DEF Launches
    <3>2. owner[r] \in [pc : OwnerPcs, home : PtySessions, old : BOOLEAN]
      BY <1>0 DEF SocketTypes
    <3>3. new \in [pc : OwnerPcs, home : PtySessions, old : BOOLEAN] /\ new.pc = "launching"
          /\ new.old = owner[r].old
      BY <3>2 DEF OwnerPcs
    <3> QED
      BY <1>0, <3>1, <3>3 DEF SocketTypes
  <2> QED
    BY <1>0, <1>1, <2>1 DEF Launches, SocketTypes, PathsOwned, SidecarEffect, OwnerAt
<1>2. CASE BindsPath(r)
  <2>1. OwnerGoes(r, "bound") /\ "bound" \in OwnerPcs
    BY <1>2 DEF BindsPath, OwnerPcs
  <2> QED
    BY <1>0, <1>2, <2>1, OwnerMoves DEF BindsPath, SocketTypes, PathsOwned, SidecarEffect, OwnerAt
<1>3. CASE BindRefused(r)
  <2>1. OwnerGoes(r, "ended") /\ "ended" \in OwnerPcs
    BY <1>3 DEF BindRefused, OwnerPcs
  <2> QED
    BY <1>0, <1>3, <2>1, OwnerMoves DEF BindRefused, SocketTypes, PathsOwned, SidecarEffect, OwnerAt
<1>4. CASE Listens(r)
  <2>1. OwnerGoes(r, "listening") /\ "listening" \in OwnerPcs
    BY <1>4 DEF Listens, OwnerPcs
  <2>2. r \in paths
    BY <1>0, <1>4 DEF Listens, PathsOwned, OwnerAt
  <2> QED
    BY <1>0, <1>4, <2>1, <2>2, OwnerMoves DEF Listens, SocketTypes, PathsOwned, SidecarEffect, OwnerAt
<1>5. CASE PublishesCrumb(r)
  <2>1. OwnerGoes(r, "serving") /\ "serving" \in OwnerPcs
    BY <1>5 DEF PublishesCrumb, OwnerPcs
  <2>2. /\ crumb' \in [PtySessions -> PtyRuns \cup {NoCrumb, NoSessionDir}]
        /\ \A s \in PtySessions : crumb'[s] \in {crumb[s], r}
        /\ UNCHANGED <<paths, sweep>> /\ owner[r].pc = "listening"
    BY <1>0, <1>5 DEF PublishesCrumb, SocketTypes, OwnerAt
  <2> QED
    BY <1>0, <2>1, <2>2, OwnerMoves, SMTT(30) DEF SocketTypes, PathsOwned, SidecarEffect, OwnerAt
<1>6. CASE PublishFails(r) \/ CleansUp(r)
  <2>1. OwnerGoes(r, "ended") /\ "ended" \in OwnerPcs /\ ~OwnerAt(r, "dead") /\ paths' = paths \ {r}
    BY <1>6 DEF PublishFails, CleansUp, OwnerPcs, OwnerAt
  <2>2. /\ crumb' \in [PtySessions -> PtyRuns \cup {NoCrumb, NoSessionDir}]
        /\ \A s \in PtySessions : crumb'[s] \in {crumb[s], NoCrumb}
        /\ sweep' = sweep
    BY <1>0, <1>6 DEF PublishFails, CleansUp, SocketTypes
  <2> QED
    BY <1>0, <2>1, <2>2, OwnerMoves DEF SocketTypes, PathsOwned, SidecarEffect, OwnerAt
<1>7. CASE KilledOutright(r)
  <2>1. OwnerGoes(r, "dead") /\ "dead" \in OwnerPcs
    BY <1>7 DEF KilledOutright, OwnerPcs
  <2> QED
    BY <1>0, <1>7, <2>1, OwnerMoves DEF KilledOutright, SocketTypes, PathsOwned, SidecarEffect, OwnerAt
<1>8. CASE Ages(r)
  <2>1. /\ owner' \in [PtyRuns -> [pc : OwnerPcs, home : PtySessions, old : BOOLEAN]]
        /\ owner'[r].pc = owner[r].pc /\ owner'[r].old
        /\ \A q \in PtyRuns \ {r} : owner'[q] = owner[q]
    <3> DEFINE new == [owner[r] EXCEPT !.old = TRUE]
    <3>1. owner' = [owner EXCEPT ![r] = new]
      BY <1>8 DEF Ages
    <3>2. owner[r] \in [pc : OwnerPcs, home : PtySessions, old : BOOLEAN]
      BY <1>0 DEF SocketTypes
    <3>3. new \in [pc : OwnerPcs, home : PtySessions, old : BOOLEAN] /\ new.pc = owner[r].pc
          /\ new.old
      BY <3>2
    <3> QED
      BY <1>0, <3>1, <3>3 DEF SocketTypes
  <2> QED
    BY <1>0, <1>8, <2>1 DEF Ages, SocketTypes, PathsOwned, SidecarEffect, OwnerAt
<1> QED
    BY <1>1, <1>2, <1>3, <1>4, <1>5, <1>6, <1>7, <1>8 DEF SidecarMoves

\* A sidecar's step breaks nothing the sweep knows.
LEMMA SidecarsKeepSweepInv ==
    ASSUME SweepInv, NEW r \in PtyRuns, SidecarMoves(r)
    PROVE  SweepInv'
<1> USE SocketAssumption
<1>1. SocketTypes' /\ PathsOwned' /\ SidecarEffect(r)
    BY SidecarEffects
<1>2. sweep.abandoned \subseteq PtyRuns /\ sweep.orphans \subseteq PtyRuns /\ sweep.kept \subseteq PtyRuns
    BY DEF SweepInv, SocketTypes
<1>3. AtHand'
    BY <1>1 DEF SweepInv, AtHand, SidecarEffect, OwnerAt
<1>4. StillAbandoned'
    BY <1>1, <1>2 DEF SweepInv, StillAbandoned, SidecarEffect, OwnerAt
<1>5. Accounted'
    BY <1>1 DEF SweepInv, Accounted, Seen, SidecarEffect
<1>6. Reported'
    BY <1>1, <1>2 DEF SweepInv, Reported, Seen, SidecarEffect, OwnerAt
<1> QED
    BY <1>1, <1>3, <1>4, <1>5, <1>6 DEF SweepInv

\* The sweep's own steps change paths at most, and there only what is dead.
LEMMA SweepStep == SweepInv /\ [SocketNext]_socketVars => SweepInv'
<1> SUFFICES ASSUME SweepInv, [SocketNext]_socketVars PROVE SweepInv'
    OBVIOUS
<1> USE SocketAssumption
<1> DEFINE Sweeps == [pc : SweepPcs, dry : BOOLEAN, left : SUBSET (PtySessions \cup PtyRuns),
                      named : SUBSET PtyRuns, at : PtyRuns \cup {NoCrumb},
                      orphans : SUBSET PtyRuns, kept : SUBSET PtyRuns,
                  abandoned : SUBSET PtyRuns]
<1>0. /\ SocketTypes /\ PathsOwned /\ AtHand /\ StillAbandoned /\ Accounted /\ Reported
      /\ sweep \in Sweeps /\ paths \subseteq PtyRuns
    BY DEF SweepInv, SocketTypes
<1>1. ASSUME NEW s \in PtySessions, DirectoryRemoved(s) PROVE SweepInv'
  <2>1. /\ crumb' \in [PtySessions -> PtyRuns \cup {NoCrumb, NoSessionDir}]
        /\ \A q \in PtySessions : crumb'[q] \in {crumb[q], NoSessionDir}
        /\ UNCHANGED <<owner, paths, sweep>>
    BY <1>0, <1>1 DEF DirectoryRemoved, SocketTypes
  <2>2. SocketTypes' /\ PathsOwned' /\ AtHand' /\ Accounted' /\ Reported'
    BY <1>0, <2>1 DEF SocketTypes, PathsOwned, AtHand, Accounted, Reported, Seen, OwnerAt
  <2>3. StillAbandoned'
    BY <1>0, <2>1 DEF StillAbandoned, OwnerAt
  <2> QED
    BY <2>2, <2>3 DEF SweepInv
<1>2. ASSUME SweepAlone, paths' \subseteq paths, sweep' \in Sweeps,
             \A r \in paths \ paths' : OwnerAt(r, "dead"),
             AtHand', StillAbandoned', Accounted', Reported'
      PROVE  SweepInv'
    BY <1>0, <1>2 DEF SweepInv, SweepAlone, SocketTypes, PathsOwned, OwnerAt
<1>3. ASSUME NEW s \in PtySessions, ReadsName(s) PROVE SweepInv'
  <2>1. /\ SweepAlone /\ UNCHANGED paths
        /\ sweep' = [sweep EXCEPT !.left = @ \ {s}, !.named = @ \cup ({crumb[s]} \cap PtyRuns)]
        /\ sweep.pc = "names"
    BY <1>3 DEF ReadsName
  <2>2. sweep' \in Sweeps
    BY <1>0, <2>1
  <2>3. AtHand' /\ Accounted' /\ Reported'
    BY <1>0, <2>1 DEF AtHand, Accounted, Reported, Seen, SweepAlone, OwnerAt
  <2>4. StillAbandoned'
    BY <1>0, <2>1 DEF StillAbandoned, SweepAlone, OwnerAt
  <2> QED
    BY <1>2, <2>1, <2>2, <2>3, <2>4
<1>4. ASSUME NEW r \in PtyRuns, Visits(r) PROVE SweepInv'
  <2>1. SweepAlone /\ UNCHANGED paths /\ sweep.pc = "visit"
    BY <1>4 DEF Visits
  <2>l. r \in sweep.left /\ r \notin sweep.kept
    BY <1>0, <1>4 DEF Visits, Accounted
  <2>2. CASE r \in sweep.named \/ r \notin paths \/ ~OldEnough(r)
    <3>1. sweep' = [sweep EXCEPT !.left = @ \ {r}]
      BY <1>4, <2>2 DEF Visits
    <3>2. sweep' \in Sweeps
      BY <1>0, <3>1
    <3>3. r \in sweep.abandoned => r \in sweep.orphans
      BY <1>0, <2>2 DEF StillAbandoned, OldEnough
    <3>4. AtHand' /\ StillAbandoned' /\ Reported'
      BY <1>0, <2>1, <3>1 DEF AtHand, StillAbandoned, Reported, Seen, SweepAlone, OwnerAt
    <3>5. Accounted'
      BY <1>0, <2>1, <3>1, <3>3 DEF Accounted, Seen
    <3> QED
      BY <1>2, <2>1, <3>2, <3>4, <3>5
  <2>3. CASE ~(r \in sweep.named \/ r \notin paths \/ ~OldEnough(r))
    <3>1. sweep' = [sweep EXCEPT !.left = @ \ {r}, !.pc = "connect", !.at = r]
      BY <1>4, <2>3 DEF Visits
    <3>2. sweep' \in Sweeps
      BY <1>0, <3>1 DEF SweepPcs
    <3>4. AtHand' /\ StillAbandoned' /\ Reported'
      BY <1>0, <2>1, <2>3, <3>1 DEF AtHand, StillAbandoned, Reported, Seen, SweepAlone, OwnerAt, OldEnough
    <3>5. Accounted'
      BY <1>0, <2>1, <2>l, <3>1 DEF Accounted, Seen
    <3> QED
      BY <1>2, <2>1, <3>2, <3>4, <3>5
  <2> QED
    BY <2>2, <2>3
<1>5. ASSUME NEW dry \in BOOLEAN, SweepStarts(dry) PROVE SweepInv'
  <2>1. SweepAlone /\ UNCHANGED paths
    BY <1>5 DEF SweepStarts
  <2>2. PICK sessions \in SUBSET PtySessions :
            sweep' = [NoSweep EXCEPT
                !.pc = "names", !.dry = dry, !.left = sessions,
                !.abandoned = {r \in paths : OwnerAt(r, "dead") /\ owner[r].old
                                             /\ \A s \in PtySessions : crumb[s] # r}]
    BY <1>5 DEF SweepStarts
  <2>3. sweep' \in Sweeps
    BY <1>0, <2>2 DEF NoSweep, SweepPcs
  <2>4. AtHand' /\ StillAbandoned' /\ Accounted' /\ Reported'
    BY <2>1, <2>2 DEF AtHand, StillAbandoned, Accounted, Reported, Seen, SweepAlone, OwnerAt, NoSweep
  <2> QED
    BY <1>2, <2>1, <2>3, <2>4
<1>6. CASE NamesUnreadable \/ ListingFails \/ PrunesAgain
  <2>1. SweepAlone /\ UNCHANGED paths /\ sweep' = NoSweep
    BY <1>6 DEF NamesUnreadable, ListingFails, PrunesAgain
  <2>2. sweep' \in Sweeps
    BY <2>1 DEF NoSweep, SweepPcs
  <2>3. AtHand' /\ StillAbandoned' /\ Accounted' /\ Reported'
    BY <2>1 DEF AtHand, StillAbandoned, Accounted, Reported, Seen, NoSweep
  <2> QED
    BY <1>2, <2>1, <2>2, <2>3
<1>7. CASE ListsSockets
  <2>1. /\ SweepAlone /\ UNCHANGED paths /\ sweep.pc = "names"
        /\ sweep' = [sweep EXCEPT !.pc = "visit", !.left = paths]
    BY <1>7 DEF ListsSockets
  <2>2. sweep' \in Sweeps
    BY <1>0, <2>1 DEF SweepPcs
  <2>3. AtHand' /\ StillAbandoned' /\ Reported'
    BY <1>0, <2>1 DEF AtHand, StillAbandoned, Reported, Seen, SweepAlone, OwnerAt
  <2>4. Accounted'
    BY <1>0, <2>1 DEF StillAbandoned, Accounted, Seen
  <2> QED
    BY <1>2, <2>1, <2>2, <2>3, <2>4
<1>8. CASE ConnectsToIt
  <2>1. SweepAlone /\ UNCHANGED paths /\ sweep.pc = "connect" /\ sweep.at \in PtyRuns
        /\ owner[sweep.at].old
    BY <1>0, <1>8 DEF ConnectsToIt, AtHand
  <2>2. sweep' = [sweep EXCEPT !.pc = IF Refused(sweep.at) THEN "remove" ELSE "visit"]
    BY <1>8 DEF ConnectsToIt
  <2>3. sweep' \in Sweeps
    BY <1>0, <2>2 DEF SweepPcs
  <2>4. Refused(sweep.at) => OwnerAt(sweep.at, "dead")
    BY <1>0, <2>1 DEF Refused, Listening, PathsOwned, OwnerAt
  <2>5. sweep.at \in sweep.abandoned /\ ~Refused(sweep.at) => sweep.at \in sweep.orphans
    BY <1>0 DEF StillAbandoned, Refused, Listening, OwnerAt
  <2>6. AtHand' /\ StillAbandoned' /\ Reported'
    BY <1>0, <2>1, <2>2, <2>4 DEF AtHand, StillAbandoned, Reported, Seen, SweepAlone, OwnerAt
  <2>7. Accounted'
    BY <1>0, <2>1, <2>2, <2>5 DEF Accounted, Seen
  <2> QED
    BY <1>2, <2>1, <2>3, <2>6, <2>7
<1>9. CASE RemovesIt
  <2>1. /\ SweepAlone /\ sweep.pc = "remove" /\ sweep.at \in PtyRuns /\ OwnerAt(sweep.at, "dead")
        /\ paths' = IF sweep.dry THEN paths ELSE paths \ {sweep.at}
    BY <1>0, <1>9 DEF RemovesIt, AtHand
  <2>2. sweep' = [sweep EXCEPT !.pc = "visit",
                    !.orphans = IF sweep.dry \/ sweep.at \in paths THEN @ \cup {sweep.at} ELSE @]
    BY <1>9 DEF RemovesIt
  <2>3. sweep' \in Sweeps
    BY <1>0, <2>1, <2>2 DEF SweepPcs
  <2>4. sweep.at \in sweep.abandoned => sweep.at \in sweep'.orphans
    BY <1>0, <2>2 DEF StillAbandoned
  <2>5. AtHand' /\ StillAbandoned'
    BY <1>0, <2>1, <2>2, <2>4 DEF AtHand, StillAbandoned, SweepAlone, OwnerAt
  <2>k. sweep.at \notin sweep.kept
    BY <1>0, <2>1 DEF Accounted
  <2>6. Reported'
    BY <1>0, <2>1, <2>2, <2>k DEF Reported, Seen, SweepAlone, OwnerAt
  <2>7. Accounted'
    BY <1>0, <2>1, <2>2, <2>4 DEF Accounted, Seen
  <2> QED
    BY <1>2, <2>1, <2>3, <2>5, <2>6, <2>7
<1>12. CASE KeepsIt
  <2>1. /\ SweepAlone /\ UNCHANGED paths /\ sweep.pc = "remove" /\ ~sweep.dry
        /\ sweep.at \in paths /\ sweep.at \in PtyRuns /\ OwnerAt(sweep.at, "dead")
    BY <1>0, <1>12 DEF KeepsIt, AtHand
  <2>2. sweep' = [sweep EXCEPT !.pc = "visit", !.kept = @ \cup {sweep.at}]
    BY <1>12 DEF KeepsIt
  <2>3. sweep' \in Sweeps
    BY <1>0, <2>1, <2>2 DEF SweepPcs
  <2>4. AtHand' /\ StillAbandoned' /\ Reported'
    BY <1>0, <2>1, <2>2 DEF AtHand, StillAbandoned, Reported, Seen, SweepAlone, OwnerAt
  <2>5. Accounted'
    BY <1>0, <2>1, <2>2 DEF Accounted, Seen
  <2> QED
    BY <1>2, <2>1, <2>3, <2>4, <2>5
<1>10. CASE SweepEnds
  <2>1. /\ SweepAlone /\ UNCHANGED paths /\ sweep.pc = "visit" /\ sweep.left = {}
        /\ sweep' = [sweep EXCEPT !.pc = "done"]
    BY <1>10 DEF SweepEnds
  <2>2. sweep' \in Sweeps
    BY <1>0, <2>1 DEF SweepPcs
  <2>3. AtHand' /\ StillAbandoned' /\ Reported'
    BY <1>0, <2>1 DEF AtHand, StillAbandoned, Reported, Seen, SweepAlone, OwnerAt
  <2>4. Accounted'
    BY <1>0, <2>1 DEF Accounted, Seen
  <2> QED
    BY <1>2, <2>1, <2>2, <2>3, <2>4
<1>11. CASE UNCHANGED socketVars
    BY <1>0, <1>11 DEF socketVars, SweepInv, SocketTypes, PathsOwned, AtHand, StillAbandoned, Accounted,
        Reported, Seen, OwnerAt
<1> QED
    BY <1>1, <1>3, <1>4, <1>5, <1>6, <1>7, <1>8, <1>9, <1>10, <1>11, <1>12, SidecarsKeepSweepInv
       DEF SocketNext, SidecarMoves

\* For any runs and sessions, and however often prune runs: a listening sidecar keeps its
\* socket, a sweep reports only sockets of sidecars that died, and one that ends has
\* reported everything that was abandoned when it began and that it could unlink.
THEOREM SweepExactHolds == SocketSpec => []SweepExact
<1>1. SweepInv => SweepExact
    BY DEF SweepInv, PathsOwned, Accounted, Reported, Seen, SweepExact, Listening
<1> QED
    BY <1>1, SocketInitInv, SweepStep, PTL DEF SocketSpec

(***************************************************************************)
(* The terminal is never left raw                                          *)
(***************************************************************************)
\* Exit and GoTo move the main thread's program counter.
LEMMA MainMoves ==
    ASSUME HasFields(main, MainFields)
    PROVE  /\ \A code : Exit(code) => HasFields(main', MainFields) /\ main'.pc = "exited"
           /\ \A to : GoTo(to) => HasFields(main', MainFields) /\ main'.pc = to
BY DEF HasFields, MainFields, Exit, GoTo

\* A cancelling signal is deadly only where the handlers are not installed, and there
\* the terminal is not raw: they go in before it is and come out after it was.
THEOREM NeverLeftRawHolds == AttachSpec => []NeverLeftRaw
<1>1. AttachInit => RawInv
    BY DEF AttachInit, RawInv, RawPcs, HasFields, MainFields
<1>2. ASSUME RawInv, [AttachNext]_attachVars PROVE RawInv'
  <2>0. RawInv
    BY <1>2
  <2>1. CASE \E pty, running, human, takeover, tty \in BOOLEAN :
                Checks(pty, running, human, takeover, tty)
    <3>1. /\ main.pc = "check" /\ UNCHANGED <<term, signal>>
          /\ Exit(1) \/ Exit(Control) \/ GoTo("connect")
      BY <2>1 DEF Checks
    <3> QED
      BY <2>0, <3>1, MainMoves DEF RawInv, RawPcs
  <2>2. CASE \/ \E peer \in Peers : Connects(peer)
             \/ \E sent \in BOOLEAN, reply \in Replies : Hello(sent, reply)
    <3>1. /\ main.pc \in {"connect", "hello"} /\ UNCHANGED <<term, signal>>
          /\ (\E code : Exit(code)) \/ GoTo("hello") \/ GoTo("install")
      BY <2>2 DEF Connects, Hello
    <3> QED
      BY <2>0, <3>1, MainMoves DEF RawInv, RawPcs
  <2>3. CASE InstallHandlers
    <3>1. CASE Exit(1) /\ UNCHANGED signal
      BY <2>0, <2>3, <3>1, MainMoves DEF InstallHandlers, RawInv, RawPcs
    <3>2. CASE GoTo("raw") /\ signal' = [signal EXCEPT !.handled = TRUE, !.pending = {}, !.wake = FALSE]
      <4>1. HasFields(signal', DOMAIN signal) /\ signal'.handled
        BY <2>0, <3>2 DEF RawInv, HasFields
      <4> QED
        BY <2>0, <2>3, <3>2, <4>1, MainMoves DEF InstallHandlers, RawInv, RawPcs, HasFields
    <3> QED
      BY <2>3, <3>1, <3>2 DEF InstallHandlers
  <2>4. CASE EnterRaw
    <3>1. CASE GoTo("spawn") /\ UNCHANGED signal /\ term' = [term EXCEPT !.raw = TRUE]
      BY <2>0, <2>4, <3>1, MainMoves DEF EnterRaw, RawInv, RawPcs, HasFields
    <3>2. CASE Exit(1) /\ UNCHANGED term /\ signal' = [signal EXCEPT !.handled = FALSE]
      BY <2>0, <2>4, <3>2, MainMoves DEF EnterRaw, RawInv, RawPcs, HasFields
    <3> QED
      BY <2>4, <3>1, <3>2 DEF EnterRaw
  <2> USE DEF RawInv, RawPcs, HasFields, MainFields, threads, shared, Exit, GoTo, EndsBy
  <2>5. CASE SpawnThreads
    BY <1>2, <2>5 DEF SpawnThreads
  <2>6. CASE LoopClosed
    BY <1>2, <2>6 DEF LoopClosed
  <2>7. CASE Poll \/ TakeDrains
    BY <1>2, <2>7 DEF Poll, TakeDrains
  <2>8. CASE TakeSwaps
    BY <1>2, <2>8 DEF TakeSwaps
  <2>9. CASE SizeCheck
    BY <1>2, <2>9 DEF SizeCheck
  <2>10. CASE NoKeys \/ KeyboardClosed
    BY <1>2, <2>10 DEF NoKeys, KeyboardClosed
  <2>11. CASE ReadKey
    <3>1. main.pc = "keys" /\ UNCHANGED <<term, signal>> /\ (EndsBy("detached") \/ GoTo("loop"))
      BY <2>11 DEF ReadKey
    <3> QED
      BY <1>2, <3>1
  <2>12. CASE DetachQueued \/ GraceEnds \/ ShutSocket
    BY <1>2, <2>12 DEF DetachQueued, GraceEnds, ShutSocket
  <2>13. CASE RestoreTerminal
    BY <1>2, <2>13 DEF RestoreTerminal
  <2>14. CASE RestoreHandlers
    BY <1>2, <2>14 DEF RestoreHandlers
  <2>15. CASE Leaves
    BY <1>2, <2>15 DEF Leaves
  <2>16. CASE OtherThreads
    BY <1>2, <2>16 DEF OtherThreads, SenderNext, SenderWrites, SenderFails, ReaderReads,
        ReaderPrints, ReaderEnds
  <2>17. CASE TerminalResizes \/ Cancelled \/ HandlerWakes
    BY <1>2, <2>17, ZenonT(30) DEF TerminalResizes, Cancelled, HandlerWakes, Handler
  <2>18. CASE \/ \E key \in {"plain", "detach"} : Types(key)
             \/ TerminalCloses \/ SessionSends \/ SessionReads \/ SessionRetires \/ SessionCloses
    BY <1>2, <2>18 DEF Types, TerminalCloses, SessionSends, SessionReads, SessionRetires, SessionCloses
  <2>19. CASE UNCHANGED attachVars
    BY <1>2, <2>19 DEF attachVars
  <2> QED
    BY <1>2, <2>1, <2>2, <2>3, <2>4, <2>5, <2>6, <2>7, <2>8, <2>9, <2>10,
       <2>11, <2>12, <2>13, <2>14, <2>15, <2>16, <2>17, <2>18, <2>19
       DEF AttachNext, MainThread, World
<1>3. RawInv => NeverLeftRaw
    BY DEF RawInv, RawPcs, NeverLeftRaw, Alive
<1> QED
    BY <1>1, <1>2, <1>3, PTL DEF AttachSpec
=============================================================================
