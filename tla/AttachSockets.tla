---------------------------- MODULE AttachSockets ----------------------------
(***************************************************************************)
(* The attach sockets of PTY runs and prune's sweep of the ones left       *)
(* behind (src/attach_socket.rs).  A run has a socket path of its own in   *)
(* sockets/; its session's breadcrumb a.sock.path names it.  A sidecar     *)
(* that ends removes its socket, one that is killed leaves it, and the     *)
(* sweep must take exactly those: the names it spares are read long before *)
(* it unlinks, while sidecars bind, publish, end and die.                  *)
(***************************************************************************)
EXTENDS FiniteSets

CONSTANTS
    PtyRuns,       \* runs; each has its own socket path (a hash of session and run)
    PtySessions,   \* session names
    NoCrumb,       \* a session directory without a.sock.path
    NoSessionDir   \* there is no session directory

ASSUME SocketAssumption ==
    /\ PtySessions # {}
    /\ {NoCrumb, NoSessionDir} \cap PtyRuns = {}

VARIABLES
    crumb,    \* crumb[s]: the run that a.sock.path of session s names
    owner,    \* owner[r]: run r's sidecar, its session, and whether its socket is 60 s old
    paths,    \* the runs whose socket path exists
    sweep     \* prune's sweep

socketVars == <<crumb, owner, paths, sweep>>

NoSweep == [pc |-> "idle", dry |-> FALSE, left |-> {}, named |-> {}, at |-> NoCrumb,
            orphans |-> {}, kept |-> {}, abandoned |-> {}]

SocketInit ==
    /\ crumb = [s \in PtySessions |-> NoSessionDir]
    /\ owner = [r \in PtyRuns |-> [pc |-> "unborn", home |-> CHOOSE s \in PtySessions : TRUE,
                                   old |-> FALSE]]
    /\ paths = {} /\ sweep = NoSweep

(***************************************************************************)
(* The sidecars                                                            *)
(***************************************************************************)
OwnerAt(r, pc) == owner[r].pc = pc
OwnerGoes(r, pc) == owner' = [owner EXCEPT ![r].pc = pc]
Listening(r) == owner[r].pc \in {"listening", "serving"}

Launches(r, s) ==
    /\ OwnerAt(r, "unborn") /\ crumb[s] = NoSessionDir
    /\ crumb' = [crumb EXCEPT ![s] = NoCrumb]
    /\ owner' = [owner EXCEPT ![r].pc = "launching", ![r].home = s]
    /\ UNCHANGED <<paths, sweep>>

\* bind(2) makes the path, and refuses one that exists; a connect is refused until listen(2).
BindsPath(r) ==
    /\ OwnerAt(r, "launching") /\ r \notin paths
    /\ paths' = paths \cup {r}
    /\ OwnerGoes(r, "bound")
    /\ UNCHANGED <<crumb, sweep>>

\* The socket directory is unsafe or the path too long: the run ends as SpawnFailed.
BindRefused(r) ==
    /\ OwnerAt(r, "launching")
    /\ OwnerGoes(r, "ended")
    /\ UNCHANGED <<crumb, paths, sweep>>

Listens(r) ==
    /\ OwnerAt(r, "bound")
    /\ OwnerGoes(r, "listening")
    /\ UNCHANGED <<crumb, paths, sweep>>

\* publish_breadcrumb writes by path: into whatever directory has the session's name.
PublishesCrumb(r) ==
    /\ OwnerAt(r, "listening") /\ crumb[owner[r].home] # NoSessionDir
    /\ crumb' = [crumb EXCEPT ![owner[r].home] = r]
    /\ OwnerGoes(r, "serving")
    /\ UNCHANGED <<paths, sweep>>

\* It fails (surely without a directory): the socket just bound is taken back.
PublishFails(r) ==
    /\ OwnerAt(r, "listening")
    /\ paths' = paths \ {r}
    /\ OwnerGoes(r, "ended")
    /\ UNCHANGED <<crumb, sweep>>

\* AttachSocketCleanup: the socket, and the breadcrumb while it names it.  One step, as
\* the sweep never looks at the two together; a removal that fails leaves to it what
\* KilledOutright and DirectoryRemoved leave.
CleansUp(r) ==
    /\ OwnerAt(r, "serving")
    /\ paths' = paths \ {r}
    /\ crumb' = [crumb EXCEPT ![owner[r].home] = IF @ = r THEN NoCrumb ELSE @]
    /\ OwnerGoes(r, "ended")
    /\ UNCHANGED sweep

KilledOutright(r) ==
    /\ owner[r].pc \in {"launching", "bound", "listening", "serving"}
    /\ OwnerGoes(r, "dead")
    /\ UNCHANGED <<crumb, paths, sweep>>

\* ORPHAN_GRACE passes.  Only bind(2) and listen(2), one call of the library, are never
\* 60 s apart.
Ages(r) ==
    /\ r \in paths /\ ~owner[r].old /\ ~OwnerAt(r, "bound")
    /\ owner' = [owner EXCEPT ![r].old = TRUE]
    /\ UNCHANGED <<crumb, paths, sweep>>

\* prune, --replace or a user; SessionDirectory shows it can be a live session's.
DirectoryRemoved(s) ==
    /\ crumb[s] # NoSessionDir
    /\ crumb' = [crumb EXCEPT ![s] = NoSessionDir]
    /\ UNCHANGED <<owner, paths, sweep>>

(***************************************************************************)
(* sweep_orphans                                                           *)
(***************************************************************************)
SweepAlone == UNCHANGED <<crumb, owner>>

\* Sessions made after the listing may be seen or not.  abandoned (history): what any
\* sweep from here on has to take; kept (history): what it failed to unlink.
SweepStarts(dry) ==
    /\ sweep.pc = "idle"
    /\ \E sessions \in SUBSET PtySessions :
        /\ {s \in PtySessions : crumb[s] # NoSessionDir} \subseteq sessions
        /\ sweep' = [NoSweep EXCEPT
            !.pc = "names", !.dry = dry, !.left = sessions,
            !.abandoned = {r \in paths : OwnerAt(r, "dead") /\ owner[r].old
                                         /\ \A s \in PtySessions : crumb[s] # r}]
    /\ SweepAlone /\ UNCHANGED paths

\* breadcrumb_names, one session; one without a breadcrumb names nothing.
ReadsName(s) ==
    /\ sweep.pc = "names" /\ s \in sweep.left
    /\ sweep' = [sweep EXCEPT !.left = @ \ {s}, !.named = @ \cup ({crumb[s]} \cap PtyRuns)]
    /\ SweepAlone /\ UNCHANGED paths

\* Any other error: an unnamed socket could be a live one's, nothing is removed.
NamesUnreadable ==
    /\ sweep.pc = "names"
    /\ sweep' = NoSweep
    /\ SweepAlone /\ UNCHANGED paths

ListsSockets ==
    /\ sweep.pc = "names" /\ sweep.left = {}
    /\ sweep' = [sweep EXCEPT !.pc = "visit", !.left = paths]
    /\ SweepAlone /\ UNCHANGED paths

\* Mutant: a young socket is as good as an old one.
OldEnough_Any(r) == TRUE
OldEnough(r) == owner[r].old

Visits(r) ==
    /\ sweep.pc = "visit" /\ r \in sweep.left
    /\ sweep' = IF r \in sweep.named \/ r \notin paths \/ ~OldEnough(r)
                THEN [sweep EXCEPT !.left = @ \ {r}]
                ELSE [sweep EXCEPT !.left = @ \ {r}, !.pc = "connect", !.at = r]
    /\ SweepAlone /\ UNCHANGED paths

\* Mutant: what no breadcrumb names is removed untested.
Refused_Untested(r) == r \in paths
\* connect(2): refused by a path nothing listens on; without a path, not found.
Refused(r) == r \in paths /\ ~Listening(r)

ConnectsToIt ==
    /\ sweep.pc = "connect"
    /\ sweep' = [sweep EXCEPT !.pc = IF Refused(sweep.at) THEN "remove" ELSE "visit"]
    /\ SweepAlone /\ UNCHANGED paths

RemovesIt ==
    /\ sweep.pc = "remove"
    /\ paths' = IF sweep.dry THEN paths ELSE paths \ {sweep.at}
    /\ sweep' = [sweep EXCEPT !.pc = "visit",
                    !.orphans = IF sweep.dry \/ sweep.at \in paths THEN @ \cup {sweep.at} ELSE @]
    /\ SweepAlone

\* remove_file fails: the socket stays, is not reported, and the sweep goes on.
KeepsIt ==
    /\ sweep.pc = "remove" /\ ~sweep.dry /\ sweep.at \in paths
    /\ sweep' = [sweep EXCEPT !.pc = "visit", !.kept = @ \cup {sweep.at}]
    /\ SweepAlone /\ UNCHANGED paths

\* The listing fails half way: prune ends in an error, and what was removed is gone.
ListingFails ==
    /\ sweep.pc = "visit"
    /\ sweep' = NoSweep
    /\ SweepAlone /\ UNCHANGED paths

SweepEnds ==
    /\ sweep.pc = "visit" /\ sweep.left = {}
    /\ sweep' = [sweep EXCEPT !.pc = "done"]
    /\ SweepAlone /\ UNCHANGED paths

PrunesAgain ==
    /\ sweep.pc = "done"
    /\ sweep' = NoSweep
    /\ SweepAlone /\ UNCHANGED paths

SocketNext ==
    \/ \E r \in PtyRuns :
        \/ \E s \in PtySessions : Launches(r, s)
        \/ BindsPath(r) \/ BindRefused(r) \/ Listens(r) \/ PublishesCrumb(r)
        \/ PublishFails(r) \/ CleansUp(r) \/ KilledOutright(r) \/ Ages(r) \/ Visits(r)
    \/ \E s \in PtySessions : DirectoryRemoved(s) \/ ReadsName(s)
    \/ \E dry \in BOOLEAN : SweepStarts(dry)
    \/ NamesUnreadable \/ ListsSockets \/ ConnectsToIt \/ RemovesIt \/ KeepsIt
    \/ ListingFails \/ SweepEnds \/ PrunesAgain

SocketSpec == SocketInit /\ [][SocketNext]_socketVars

-----------------------------------------------------------------------------
\* The sweep takes the sockets of dead sidecars and no others (sweep_orphans): the socket
\* of a sidecar that listens keeps its path, even when its session's directory is gone or
\* a sweep read the breadcrumbs before it was named; a sweep that ends has reported every
\* socket that was abandoned, old and unnamed when it began, but those it could not unlink,
\* and only those of sidecars that have died, and they are gone unless it was a dry run.
SweepExact ==
    /\ \A r \in PtyRuns : Listening(r) => r \in paths
    /\ \A r \in sweep.orphans : OwnerAt(r, "dead")
    /\ sweep.pc = "done" =>
        /\ sweep.abandoned \subseteq sweep.orphans \cup sweep.kept
        /\ sweep.dry => sweep.kept = {}
        /\ ~sweep.dry => sweep.orphans \cap paths = {} /\ sweep.kept \subseteq paths
        /\ sweep.orphans \cap sweep.kept = {}

=============================================================================
