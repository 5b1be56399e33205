----------------------------- MODULE MCPtyInput -----------------------------
(***************************************************************************)
(* Instances of PtyInput for TLC.                                          *)
(***************************************************************************)
EXTENDS PtyInput

Setup(mode, frames, vanish, output, ends, past) ==
    [mode |-> mode, frames |-> frames, vanish |-> vanish, output |-> output, ends |-> ends,
     past |-> past]

\* A human who types is taken over, and may vanish; so is a viewer of output that falls
\* behind; a viewer vanishes under output and a full queue; a push is taken over, and may
\* vanish; a push and a FIFO frame take turns; a human takes over from a FIFO frame; the
\* run ends under an attach and a push, and under two FIFO frames one of
\* which cannot be read; more connections than slots; the last epoch is granted, and spent.
EverySetup ==
    {Setup(<<"attach", "takeover", "absent">>, <<<<2>>, <<>>, <<>>>>, {1}, 0, FALSE, 0),
     Setup(<<"attach", "takeover", "absent">>, <<<<>>, <<>>, <<>>>>, {}, 2, FALSE, 0),
     Setup(<<"attach", "absent", "absent">>, <<<<1, 1, 1>>, <<>>, <<>>>>, {1}, 2, FALSE, 0),
     Setup(<<"push", "takeover", "absent">>, <<<<2>>, <<0>>, <<>>>>, {1}, 0, FALSE, 0),
     Setup(<<"push", "fifo", "absent">>, <<<<2>>, <<1>>, <<>>>>, {1}, 0, FALSE, 0),
     Setup(<<"attach", "push", "absent">>, <<<<1>>, <<0, 1>>, <<>>>>, {}, 0, TRUE, 0),
     Setup(<<"fifo", "takeover", "fifo">>, <<<<1>>, <<>>, <<>>>>, {1}, 0, TRUE, 0),
     Setup(<<"attach", "push", "attach">>, <<<<>>, <<>>, <<>>>>, {}, 0, FALSE, 0),
     Setup(<<"takeover", "takeover", "absent">>, <<<<1>>, <<>>, <<>>>>, {}, 0, FALSE, 2),
     Setup(<<"attach", "fifo", "absent">>, <<<<>>, <<1>>, <<>>>>, {}, 0, FALSE, 3)}

=============================================================================
