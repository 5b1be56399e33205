---------------------------- MODULE EscapeParser ----------------------------
(***************************************************************************)
(* The attach client's detach escape (src/attach_escape.rs): Ctrl-\ d,     *)
(* recognised in the legacy and the CSI encodings of keys, when a read may *)
(* end inside a sequence and a held piece may expire.                      *)
(*                                                                         *)
(* The bytes of a CSI's parameters that no cut of interest divides are one *)
(* unit, named for what classify_csi reads in them; each unit carries the  *)
(* number and kind of the event it was typed for, and its place.           *)
(***************************************************************************)
EXTENDS Naturals, Sequences, FiniteSets, SequencesExt, TLC

CONSTANTS
    Scripts,      \* what is typed: sequences of events
    MaxSequence   \* MAX_SEQUENCE, in units

ASSUME EscapeAssumption == MaxSequence \in Nat \ {0, 1}

VARIABLES
    mode,      \* EscapeMode
    script,    \* the units that the terminal writes
    read,      \* how many of them were read
    parser,    \* EscapeParser: prefix, between, between_kept, partial
    forwarded, \* what was forwarded
    detached,  \* Escape::Detach was returned
    expired    \* a held piece was forwarded as it stood

escapeVars == <<mode, script, read, parser, forwarded, detached, expired>>

\* PREFIX and DETACH_KEY are the legacy bytes; key_event's keys and events are these.
Parameters == {"92;5", "92;5:2", "92:3", "100", "100:3", "57441", "63"}

\* 0x40..=0x7e
FinalBytes == {"d", "x", "[", "u"}

Other == [key |-> "Other", ofBackslash |-> FALSE]
Prefix == [key |-> "Prefix", ofBackslash |-> FALSE]
Detach == [key |-> "Detach", ofBackslash |-> FALSE]
Incidental(ofBackslash) == [key |-> "Incidental", ofBackslash |-> ofBackslash]

\* csi_key, classify_csi, key_event, is_modifier_key and number; a CSI of several
\* parameter units is not a key.
CsiKey(params, final) ==
    CASE Len(params) # 1 \/ final # "u" -> Other
      [] OTHER -> CASE params[1] = "92;5" -> Prefix
                    [] params[1] \in {"92;5:2", "92:3"} -> Incidental(TRUE)
                    [] params[1] \in {"100:3", "57441"} -> Incidental(FALSE)
                    [] params[1] = "100" -> Detach
                    [] OTHER -> Other

Bytes(units) == [i \in DOMAIN units |-> units[i].unit]

Complete(len, key) == [complete |-> TRUE, len |-> len, key |-> key]
Unfinished == [complete |-> FALSE, len |-> 0, key |-> Other]

\* escape_sequence: up to the final byte, the first byte that is not of a CSI, or the limit.
EscapeSequence(input) ==
    LET limit == IF Len(input) < MaxSequence THEN Len(input) ELSE MaxSequence
        ends == {i \in 3..limit : input[i] \notin Parameters}
        last == CHOOSE i \in ends : \A j \in ends : i <= j
    IN  CASE Len(input) = 1 -> Unfinished
          [] Len(input) > 1 /\ input[2] # "[" -> Complete(1, Other)
          [] OTHER ->
               IF ends # {}
               THEN IF input[last] \in FinalBytes
                    THEN Complete(last, CsiKey(SubSeq(input, 3, last - 1), input[last]))
                    ELSE Complete(last - 1, Other)
               ELSE IF Len(input) >= MaxSequence THEN Complete(MaxSequence, Other)
                                                 ELSE Unfinished

Token(input) ==
    CASE input[1] = "PREFIX" -> Complete(1, Prefix)
      [] input[1] = "d" -> Complete(1, Detach)
      [] input[1] = "ESC" -> EscapeSequence(input)
      [] OTHER -> Complete(1, Other)

\* Mutant: only a lone ESC is held back for the rest of its sequence.
CouldBecomePrefix_Lone(unfinished) == unfinished = <<"ESC">>

\* could_become_prefix
CouldBecomePrefix(unfinished) ==
    /\ unfinished[1] = "ESC"
    /\ Len(unfinished) > 1 => unfinished[2] = "["
    /\ Len(unfinished) > 2 => unfinished[3] \in {"92;5", "92;5:2", "92:3"}
    /\ Len(unfinished) <= 3

(***************************************************************************)
(* decide and feed: a parser p, what it forwards and whether it detaches   *)
(***************************************************************************)
NewParser == [prefix |-> <<>>, between |-> <<>>, kept |-> <<>>, partial |-> <<>>]

Result(p, out, stop) == [p |-> p, out |-> out, stop |-> stop]

\* Mutant: what came between, forwarded with an ordinary key, is kept for the next prefix.
Decide_KeepsAll(p, units, key) ==
    LET cleared == [p EXCEPT !.prefix = <<>>, !.between = <<>>, !.kept = <<>>] IN
    IF p.prefix = <<>>
    THEN IF key = Prefix THEN Result([p EXCEPT !.prefix = units], <<>>, FALSE)
                         ELSE Result(p, units, FALSE)
    ELSE CASE key.key = "Incidental" ->
                  Result([p EXCEPT !.between = @ \o units,
                                   !.kept = IF key.ofBackslash THEN @ ELSE @ \o units],
                         <<>>, FALSE)
           [] key = Detach -> Result(cleared, p.kept, TRUE)
           [] key = Prefix -> Result(cleared, p.kept \o units, FALSE)
           [] OTHER -> Result([cleared EXCEPT !.kept = p.kept], p.prefix \o p.between \o units,
                              FALSE)

\* Mutant: what came between, releases included, is forwarded after a swallowed prefix.
Decide_KeepsReleases(p, units, key) ==
    LET cleared == [p EXCEPT !.prefix = <<>>, !.between = <<>>, !.kept = <<>>] IN
    IF p.prefix = <<>>
    THEN IF key = Prefix THEN Result([p EXCEPT !.prefix = units], <<>>, FALSE)
                         ELSE Result(p, units, FALSE)
    ELSE CASE key.key = "Incidental" ->
                  Result([p EXCEPT !.between = @ \o units, !.kept = @ \o units], <<>>, FALSE)
           [] key = Detach -> Result(cleared, p.kept, TRUE)
           [] key = Prefix -> Result(cleared, p.kept \o units, FALSE)
           [] OTHER -> Result(cleared, p.prefix \o p.between \o units, FALSE)

Decide(p, units, key) ==
    LET cleared == [p EXCEPT !.prefix = <<>>, !.between = <<>>, !.kept = <<>>] IN
    IF p.prefix = <<>>
    THEN IF key = Prefix THEN Result([p EXCEPT !.prefix = units], <<>>, FALSE)
                         ELSE Result(p, units, FALSE)
    ELSE CASE key.key = "Incidental" ->
                  Result([p EXCEPT !.between = @ \o units,
                                   !.kept = IF key.ofBackslash THEN @ ELSE @ \o units],
                         <<>>, FALSE)
           [] key = Detach -> Result(cleared, p.kept, TRUE)
           [] key = Prefix -> Result(cleared, p.kept \o units, FALSE)
           [] OTHER -> Result(cleared, p.prefix \o p.between \o units, FALSE)

RECURSIVE FeedRest(_, _, _)
FeedRest(p, rest, out) ==
    IF rest = <<>> THEN Result(p, out, FALSE)
    ELSE LET token == Token(Bytes(rest))
             step == Decide(p, SubSeq(rest, 1, token.len), token.key)
         IN  IF token.complete
             THEN IF step.stop THEN Result(step.p, out \o step.out, TRUE)
                  ELSE FeedRest(step.p, SubSeq(rest, token.len + 1, Len(rest)), out \o step.out)
             ELSE IF p.prefix # <<>> \/ CouldBecomePrefix(Bytes(rest))
                  THEN Result([p EXCEPT !.partial = rest], out, FALSE)
                  ELSE Result(p, out \o rest, FALSE)

\* feed: what was held of the last read comes first.
FeedUnits(m, p, input) ==
    IF m = "Disabled" THEN Result(p, input, FALSE)
    ELSE FeedRest([p EXCEPT !.partial = <<>>], p.partial \o input, <<>>)

(***************************************************************************)
(* The state machine: reads that end anywhere                              *)
(***************************************************************************)
\* What a terminal writes for an event.
Encoding(event) ==
    CASE event \in Parameters \ {"63"} -> <<"ESC", "[", event, "u">>
      [] event = "long" -> <<"ESC", "[", "63", "63", "63", "d">>
      [] OTHER -> <<event>>

EscapeInit ==
    /\ mode \in {"CtrlBackslash", "Disabled"}
    /\ \E typed \in Scripts :
        LET units == FlattenSeq([i \in DOMAIN typed |->
                        [j \in DOMAIN Encoding(typed[i]) |->
                            [unit |-> Encoding(typed[i])[j], event |-> i, kind |-> typed[i]]]])
        IN  script = [k \in DOMAIN units |-> [at |-> k] @@ units[k]]
    /\ read = 0
    /\ parser = NewParser
    /\ forwarded = <<>>
    /\ detached = FALSE
    /\ expired = FALSE

Feed(n) ==
    /\ ~detached
    /\ LET fed == FeedUnits(mode, parser, SubSeq(script, read + 1, read + n))
       IN  /\ parser' = fed.p
           /\ forwarded' = forwarded \o fed.out
           /\ detached' = fed.stop
    /\ read' = read + n
    /\ UNCHANGED <<mode, script, expired>>

\* flush_expired: PARTIAL_HOLD has passed and the rest has not come.
FlushExpired ==
    /\ ~detached /\ parser.partial # <<>>
    /\ LET decided == Decide([parser EXCEPT !.partial = <<>>], parser.partial, Other)
       IN  parser' = decided.p /\ forwarded' = forwarded \o decided.out
    /\ expired' = TRUE
    /\ UNCHANGED <<mode, script, read, detached>>

EscapeNext == FlushExpired \/ \E n \in 1..(Len(script) - read) : Feed(n)

(***************************************************************************)
(* Properties                                                              *)
(***************************************************************************)
\* Where reads end makes no difference: unless a held piece expired, the parser holds and
\* has forwarded what it would had it read everything at once.
CutsDontMatter ==
    ~expired =>
        LET once == FeedUnits(mode, NewParser, SubSeq(script, 1, read))
        IN  once.stop = detached /\ once.out = forwarded /\ once.p = parser

\* What is forwarded or held back.
Kept == forwarded \o parser.prefix \o parser.between \o parser.partial

Presses == {"PREFIX", "92;5"}
OfBackslash == {"92;5:2", "92:3"}
Releases == OfBackslash \cup {"100:3", "57441"}
DetachKeys == {"d", "100"}
IsEvent(i, kinds) == \E k \in 1..read : script[k].event = i /\ script[k].kind \in kinds

\* The Ctrl-\ press that event i is, or is a repeat or a release of.
IsPressOf(j, i) ==
    /\ IsEvent(j, Presses) /\ (i = j \/ IsEvent(i, OfBackslash))
    /\ j <= i /\ \A l \in (j + 1)..i : ~IsEvent(l, Presses)

\* Press j was a prefix: the next key was a press that took its place and of which nothing
\* is missing, or it detached as event c.
WasPrefix(j, c, missing) ==
    \E i \in (j + 1)..c :
        /\ \A l \in (j + 1)..(i - 1) : IsEvent(l, Releases)
        /\ IF i = c THEN detached
                    ELSE IsEvent(i, Presses) /\ \A k \in missing : script[k].event # i

\* Of what was typed, up to the key c that detached, the child gets every unit once and in
\* the order typed, now or when what is held is decided.  It misses only the presses that
\* were prefixes, each whole and with its own repeats and releases, so that it sees the
\* release of a press if and only if it saw the press; also when a sequence expires half read.
ChildSeesPairs ==
    /\ \A k \in 2..Len(Kept) : Kept[k - 1].at < Kept[k].at
    /\ LET missing == 1..read \ {Kept[k].at : k \in DOMAIN Kept}
       IN  missing # {} =>
            \E c \in IF detached THEN 1..Len(script) ELSE {Len(script) + 1} :
               /\ detached => IsEvent(c, DetachKeys)
               /\ \A k \in 1..read : script[k].event >= c => k \in missing
               /\ \A k \in missing : script[k].event < c =>
                   \E j \in 1..script[k].event :
                       /\ IsPressOf(j, script[k].event) /\ WasPrefix(j, c, missing)
                       /\ \A l \in 1..read :
                            script[l].event < c /\ IsPressOf(j, script[l].event) => l \in missing

=============================================================================
