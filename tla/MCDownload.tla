------------------------------ MODULE MCDownload ------------------------------
(* Small instances of Download for TLC: the calls each run makes. *)
EXTENDS Download

Call(resume, verifySize, verify, preserve) ==
    [resume |-> resume, verifySize |-> verifySize, verify |-> verify,
     preserve |-> preserve]

\* One call, with no check at all, or with every check there is and the mode asked for.
FirstCalls == {Call(FALSE, FALSE, "size", FALSE), Call(FALSE, TRUE, "reread", TRUE)}

\* A call and its resumption, checked at rung 1, by size alone or not at all.
ResumedCalls ==
    {Call(r, TRUE, c, FALSE) : r \in BOOLEAN, c \in {"size", "hash"}}
    \cup {Call(FALSE, FALSE, "size", FALSE)}

\* The file stands still: every answer a server may give and every way to give up, one
\* call, with a window of three.
Stable ==
    [options |-> FirstCalls, sized |-> BOOLEAN, terse |-> {FALSE}, checkFile |-> FALSE,
     quirks |-> {"zero", "long", "refusal"}, shifting |-> FALSE,
     cancels |-> {"opening", "transfer", "closing"}, congested |-> TRUE,
     depth |-> 3, largest |-> 5, calls |-> 1]
\* A server that does not tell the mode, and a second call beside a handle left open.
Untold ==
    [options |-> {Call(FALSE, TRUE, "size", p) : p \in BOOLEAN}, sized |-> {TRUE},
     terse |-> {TRUE}, checkFile |-> FALSE, quirks |-> {}, shifting |-> FALSE,
     cancels |-> {"closing"}, congested |-> TRUE, depth |-> 1, largest |-> 1, calls |-> 2]
\* The file grows and shrinks; a second call may resume.
Changing ==
    [options |-> ResumedCalls, sized |-> BOOLEAN, terse |-> {FALSE}, checkFile |-> TRUE,
     quirks |-> {"zero"}, shifting |-> TRUE,
     cancels |-> {"transfer"}, congested |-> FALSE,
     depth |-> 2, largest |-> 3, calls |-> 2]
\* A caller who asks for nothing but the resumption.
Plain ==
    [options |-> {Call(r, TRUE, "size", FALSE) : r \in BOOLEAN}, sized |-> BOOLEAN,
     terse |-> {FALSE}, checkFile |-> FALSE, quirks |-> {}, shifting |-> FALSE,
     cancels |-> {"transfer"}, congested |-> FALSE,
     depth |-> 2, largest |-> 4, calls |-> 2]
AllScenes == {Stable, Untold, Changing}
OnlyPlain == {Plain}
===============================================================================
