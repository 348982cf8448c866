----------------------------- MODULE Calibration -----------------------------
(***************************************************************************)
(* The hover calibration (scripts/dev/hover_calibration.py): a sweep of    *)
(* throttle intents posted to the backend, one CSV row per step, and       *)
(* throttle 0 when the operator interrupts it, against a backend that      *)
(* refuses, stalls, dies and comes back.                                   *)
(*                                                                         *)
(* A post is under way until the backend has handled it, also when the     *)
(* script no longer waits for it: the endpoint runs in a thread pool and   *)
(* is not cancelled, so posts may be handled in any order.                 *)
(***************************************************************************)
EXTENDS Naturals, Sequences, FiniteSets, SequencesExt

CONSTANTS
    Steps,         \* steps of the sweep
    MaxCrashes     \* bound: crashes of the backend

CalibrationAssumption ==
    Steps \in Nat \ {0} /\ MaxCrashes \in Nat

VARIABLES
    pc,        \* where the script is
    step,      \* the step it is about
    note,      \* what went wrong in it
    rows,      \* the CSV
    exit,      \* the exit code, or Running
    posts,     \* posts under way: their throttle, and whether the script waits
    backend,   \* is it up, does it take the script's token, its intent
    crashes,
    applied    \* history: throttles the backend has taken over

vars == <<pc, step, note, rows, exit, posts, backend, crashes, applied>>

script == <<pc, step, note, rows, exit>>

Running == 255
Reset == 0          \* throttle 0; the throttle of a step is its number
NoIntent == Steps + 1
Throttle == IF pc = "resetting" THEN Reset ELSE step
PostNotes == {"http", "401", "network", "timeout"}

TypeOK ==
    /\ pc \in {"post", "waiting", "hold", "resetting", "reset", "end"} /\ step \in 1 .. Steps
    /\ note \in {""} \cup PostNotes /\ exit \in {Running, 0, 1, 3, 130}
    /\ \A i \in DOMAIN rows : rows[i] \in [step : 1 .. Steps, note : {"", "csv"} \cup PostNotes]
    /\ \A p \in posts : p.throttle \in 0 .. Steps /\ p.awaited \in BOOLEAN
    /\ Cardinality({p \in posts : p.awaited}) = (IF pc \in {"waiting", "reset"} THEN 1 ELSE 0)
    /\ backend \in [up : BOOLEAN, locked : BOOLEAN, intent : 0 .. NoIntent]
    /\ (exit = Running) = (pc # "end")

Init ==
    /\ pc = "post" /\ step = 1 /\ note = "" /\ rows = <<>> /\ exit = Running
    /\ posts = {} /\ crashes = 0 /\ applied = {}
    /\ backend \in [up : BOOLEAN, locked : BOOLEAN, intent : {NoIntent}]

Exit(code) == pc' = "end" /\ exit' = code
-----------------------------------------------------------------------------
(* The outcome of a post, with the note n for a failure.                   *)

\* What became of the reset is not looked at; a refused token ends the sweep.
Outcome(n) ==
    IF pc \in {"resetting", "reset"}
    THEN Exit(130) /\ UNCHANGED <<step, note, rows>>
    ELSE IF n = "401"
    THEN Exit(3) /\ UNCHANGED <<step, note, rows>>
    ELSE pc' = "hold" /\ note' = n /\ UNCHANGED <<step, rows, exit>>

\* A backend that is down refuses the connection.
Post ==
    /\ pc \in {"post", "resetting"}
    /\ IF backend.up
       THEN /\ posts' = posts \cup {[throttle |-> Throttle, awaited |-> TRUE]}
            /\ pc' = IF pc = "post" THEN "waiting" ELSE "reset"
            /\ UNCHANGED <<step, note, rows, exit>>
       ELSE Outcome("network") /\ UNCHANGED posts
    /\ UNCHANGED <<backend, crashes, applied>>

Forsaken == {[p EXCEPT !.awaited = FALSE] : p \in posts}

\* Fault: a timeout is no failure.
TimeoutUnnoted ==
    /\ pc \in {"waiting", "reset"}
    /\ Outcome("")
    /\ posts' = Forsaken
    /\ UNCHANGED <<backend, crashes, applied>>

Timeout ==
    /\ pc \in {"waiting", "reset"}
    /\ Outcome("timeout")
    /\ posts' = Forsaken
    /\ UNCHANGED <<backend, crashes, applied>>

\* The end of the hold: the operator has classified the step, and the recording is read or
\* there is none; the trouble with the post is noted first.
Record ==
    /\ pc = "hold"
    /\ \E csv \in {"", "csv"} :
          rows' = Append(rows, [step |-> step, note |-> IF note = "" THEN csv ELSE note])
    /\ IF step < Steps THEN pc' = "post" /\ step' = step + 1 /\ UNCHANGED exit
       ELSE Exit(0) /\ UNCHANGED step
    /\ note' = ""
    /\ UNCHANGED <<posts, backend, crashes, applied>>

\* Ctrl-C in the sweep: throttle 0 is posted, and the post it interrupts is left behind.
Interrupt ==
    /\ pc \in {"post", "waiting", "hold"}
    /\ pc' = "resetting" /\ posts' = Forsaken
    /\ UNCHANGED <<step, note, rows, exit, backend, crashes, applied>>

Script == Post \/ Timeout \/ Record
-----------------------------------------------------------------------------
(* The backend.                                                            *)

\* One post is handled: it is refused, for its token, its rate or an error, or taken over;
\* who waits for it has the answer.
Handle ==
    \E p \in posts, verdict \in {"", "http", "401"} :
        /\ backend.locked = (verdict = "401")
        /\ posts' = posts \ {p}
        /\ IF verdict = ""
           THEN backend' = [backend EXCEPT !.intent = p.throttle] /\ applied' = applied \cup {p.throttle}
           ELSE UNCHANGED <<backend, applied>>
        /\ IF p.awaited THEN Outcome(verdict) ELSE UNCHANGED script
        /\ UNCHANGED crashes

\* It goes down and forgets its intent.  An answer that was awaited never comes: the exception
\* of a connection closed before it (http.client.RemoteDisconnected) is not among those
\* caught, so the script ends.
Crash ==
    /\ backend.up /\ crashes < MaxCrashes
    /\ crashes' = crashes + 1
    /\ backend' = [backend EXCEPT !.up = FALSE, !.intent = NoIntent]
    /\ posts' = {}
    /\ IF \E p \in posts : p.awaited THEN Exit(1) /\ UNCHANGED <<step, note, rows>>
       ELSE UNCHANGED script
    /\ UNCHANGED applied

\* It comes back, with the same token or another.
Restart ==
    /\ ~backend.up
    /\ \E l \in BOOLEAN : backend' = [backend EXCEPT !.up = TRUE, !.locked = l]
    /\ UNCHANGED <<script, posts, crashes, applied>>

Next == Script \/ Interrupt \/ Handle \/ Crash \/ Restart

Spec == Init /\ [][Next]_vars
-----------------------------------------------------------------------------
(* Properties.                                                             *)

\* A step that failed has its row too: the rows are those of the first steps, and those of
\* all of them when the sweep says that it ended well.
RowsFollowTheSteps ==
    /\ \A i \in DOMAIN rows : rows[i].step = i
    /\ exit = Running => Len(rows) = step - 1
    /\ exit = 0 => Len(rows) = Steps

\* A row that notes no trouble with the post is of a throttle the backend took over.
SilentRowWasApplied ==
    \A i \in DOMAIN rows : rows[i].note \in {"", "csv"} => rows[i].step \in applied

\* A sweep given up for its token leaves none of its throttles in effect: a backend that
\* refuses the token has never taken it, and one that did has gone down since.
RefusedLeavesNothing == exit = 3 => backend.intent = NoIntent

\* "any step that fails (HTTP error, CSV unreadable) records the failure in the `notes` column
\* and continues so a 71-step run isn't lost to a single backend hiccup" (hover_calibration.py).
NoSweepIsLost == exit # 1
=============================================================================
