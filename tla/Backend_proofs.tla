---------------------------- MODULE Backend_proofs ----------------------------
(* Theorems about the parts of the backend that need no other to be right:   *)
(* the rows of the hover calibration that posts to it, the live view it      *)
(* keeps for its viewers, the gate of its endpoints and the UDP ingest.      *)
EXTENDS MCBackend, SequenceTheorems, FiniteSetTheorems, TLAPS

-----------------------------------------------------------------------------
(* The hover calibration.                                                  *)

PostOutcomes == {"", "http", "401", "network", "timeout"}
Notes == {"csv"} \cup PostOutcomes
Rows == [step : 1 .. Steps, note : Notes]
Posts == [throttle : 0 .. Steps, awaited : BOOLEAN]
Backends == [up : BOOLEAN, locked : BOOLEAN, intent : 0 .. Sweep!NoIntent]

SweepType ==
    /\ pc \in {"post", "waiting", "hold", "resetting", "reset", "end"} /\ step \in 1 .. Steps
    /\ note \in PostOutcomes /\ exit \in {Sweep!Running, 0, 1, 3, 130}
    /\ rows \in Seq(Rows) /\ sweepPosts \subseteq Posts /\ backend \in Backends
    /\ exit = Sweep!Running <=> pc # "end"

\* The script waits for one post, of the step it is about or of the reset, or for none.
WaitsForOne ==
    IF pc = "waiting" THEN \E p \in sweepPosts :
                               /\ p.awaited /\ p.throttle = step
                               /\ \A q \in sweepPosts : q.awaited => q = p
    ELSE IF pc = "reset" THEN \E p \in sweepPosts :
                               /\ p.awaited /\ \A q \in sweepPosts : q.awaited => q = p
    ELSE \A q \in sweepPosts : ~q.awaited

\* A step is held without a note only once its throttle was taken over.
HeldIsApplied == pc = "hold" /\ note = "" => step \in applied

\* A backend that is down has forgotten its intent and every post, and one that refuses the
\* token has taken none; after a refusal nothing is posted any more.
LockedIsIdle ==
    /\ backend.locked => backend.intent = Sweep!NoIntent
    /\ ~backend.up => backend.intent = Sweep!NoIntent /\ sweepPosts = {}
    /\ exit = 3 => backend.locked \/ sweepPosts = {}

SweepInv ==
    /\ SweepType /\ WaitsForOne /\ HeldIsApplied /\ LockedIsIdle
    /\ Sweep!RowsFollowTheSteps /\ Sweep!SilentRowWasApplied /\ Sweep!RefusedLeavesNothing
-----------------------------------------------------------------------------
(* What became of a post.                                                  *)

LEMMA SweepConstants ==
    /\ Steps \in Nat \ {0} /\ Sweep!NoIntent = Steps + 1
    /\ 1 \in 1 .. Steps /\ 1 .. Steps \subseteq 0 .. Steps
    /\ Sweep!NoIntent \in 0 .. Sweep!NoIntent /\ 0 .. Steps \subseteq 0 .. Sweep!NoIntent
BY BackendAssumption DEF BackendAssumption, Sweep!CalibrationAssumption, Sweep!NoIntent

LEMMA ExitCodes == 255 # 3 /\ 130 # 3 /\ 1 # 3 /\ 0 # 3 /\ 255 # 0 /\ 3 # 0 /\ 130 # 0 /\ 1 # 0
OBVIOUS

\* A failure is noted, or ends the sweep for its token, and a reset ends it anyway.
LEMMA OutcomeEffect ==
    ASSUME SweepType, pc # "end", NEW n \in PostOutcomes, Sweep!Outcome(n)
    PROVE  /\ step' = step /\ rows' = rows /\ note' \in {note, n}
           /\ \/ pc' = "hold" /\ note' = n /\ exit' = exit /\ pc \notin {"resetting", "reset"}
              \/ pc' = "end" /\ exit' = 3 /\ n = "401"
              \/ pc' = "end" /\ exit' = 130
BY DEF SweepType, Sweep!Outcome, Sweep!Exit

\* The parts of the invariant that speak of what is posted and what the script is about.
LEMMA OutcomeType ==
    ASSUME SweepType, pc # "end", NEW n \in PostOutcomes, Sweep!Outcome(n),
           sweepPosts' \subseteq Posts, backend' \in Backends
    PROVE  SweepType' /\ pc' \notin {"waiting", "reset"}
<1>1. exit = Sweep!Running
  BY DEF SweepType
<1>2. step' \in 1 .. Steps /\ note' \in PostOutcomes /\ rows' \in Seq(Rows)
  BY OutcomeEffect DEF SweepType
<1>3. \/ pc' = "hold" /\ exit' = exit
      \/ pc' = "end" /\ exit' = 3
      \/ pc' = "end" /\ exit' = 130
  BY OutcomeEffect
<1>4. /\ pc' \in {"post", "waiting", "hold", "resetting", "reset", "end"}
      /\ pc' \notin {"waiting", "reset"}
  BY <1>3, Zenon
<1>5. /\ exit' \in {Sweep!Running, 0, 1, 3, 130}
      /\ exit' = Sweep!Running <=> pc' # "end"
  BY <1>1, <1>3 DEF Sweep!Running
<1>6. QED
  BY <1>2, <1>4, <1>5 DEF SweepType

\* A failure but for the token is noted or ends a reset.
LEMMA FailureEffect ==
    ASSUME SweepType, pc # "end", NEW n \in PostOutcomes, n # "401", n # "", Sweep!Outcome(n)
    PROVE  rows' = rows /\ exit' # 3 /\ (pc' = "hold" => note' # "")
<1>1. exit = 255
  BY DEF SweepType, Sweep!Running
<1>2. \/ pc' = "hold" /\ note' = n /\ exit' = exit
      \/ pc' = "end" /\ exit' = 130
  BY OutcomeEffect
<1>3. rows' = rows
  BY OutcomeEffect
<1>4. exit' # 3
  BY <1>1, <1>2, ExitCodes, Zenon
<1>5. pc' = "hold" => note' # ""
  BY <1>2, Zenon
<1>6. QED
  BY <1>3, <1>4, <1>5

LEMMA OutcomeRows ==
    ASSUME SweepType, Sweep!RowsFollowTheSteps,
           pc # "end", NEW n \in PostOutcomes, Sweep!Outcome(n)
    PROVE  Sweep!RowsFollowTheSteps'
<1>1. exit = Sweep!Running
  BY DEF SweepType
<1>2. /\ rows' = rows /\ step' = step
      /\ exit' = Sweep!Running \/ exit' = 3 \/ exit' = 130
  BY <1>1, OutcomeEffect
<1>3. /\ exit' = Sweep!Running => Len(rows') = step' - 1
      /\ exit' = 0 => Len(rows') = Steps
  BY <1>1, <1>2 DEF Sweep!RowsFollowTheSteps, Sweep!Running
<1>4. \A i \in DOMAIN rows' : rows'[i].step = i
  BY <1>2, Zenon DEF Sweep!RowsFollowTheSteps
<1>5. QED
  BY <1>3, <1>4 DEF Sweep!RowsFollowTheSteps

LEMMA SweepInit == Sweep!Init => SweepInv
<1> SUFFICES ASSUME Sweep!Init PROVE SweepInv
  OBVIOUS
<1>1. /\ pc = "post" /\ step = 1 /\ note = "" /\ exit = Sweep!Running
      /\ sweepPosts = {} /\ applied = {}
  BY DEF Sweep!Init
<1>2. backend \in Backends /\ backend.intent = Sweep!NoIntent
  <2>1. backend \in [up : BOOLEAN, locked : BOOLEAN, intent : {Sweep!NoIntent}]
    BY DEF Sweep!Init
  <2>2. QED
    BY <2>1, SweepConstants DEF Backends
<1>3. rows \in Seq(Rows) /\ Len(rows) = 0 /\ DOMAIN rows = {}
  <2>1. rows = <<>>
    BY DEF Sweep!Init
  <2>2. QED
    BY <2>1
<1>4. SweepType
  <2>1. step \in 1 .. Steps
    BY <1>1, SweepConstants
  <2>2. note \in PostOutcomes
    BY <1>1 DEF PostOutcomes
  <2>3. QED
    BY <1>1, <1>2, <1>3, <2>1, <2>2, Zenon DEF SweepType
<1>5. WaitsForOne /\ HeldIsApplied /\ LockedIsIdle
  BY <1>1, <1>2 DEF WaitsForOne, HeldIsApplied, LockedIsIdle, Sweep!Running
<1>6. Sweep!RowsFollowTheSteps
  <2>1. exit = 255 /\ step = 1
    BY <1>1, Zenon DEF Sweep!Running
  <2>2. exit # 0 /\ Len(rows) = step - 1
    BY <1>3, <2>1
  <2>3. QED
    BY <1>3, <2>2, Zenon DEF Sweep!RowsFollowTheSteps
<1>7. Sweep!SilentRowWasApplied /\ Sweep!RefusedLeavesNothing
  BY <1>2, <1>3, Zenon DEF Sweep!SilentRowWasApplied, Sweep!RefusedLeavesNothing
<1>8. QED
  BY <1>4, <1>5, <1>6, <1>7 DEF SweepInv

LEMMA AwaitedField ==
    ASSUME NEW T, NEW B, NEW p \in [throttle : T, awaited : B], NEW x \in B
    PROVE  /\ [p EXCEPT !.awaited = x] \in [throttle : T, awaited : B]
           /\ [p EXCEPT !.awaited = x].awaited = x
OBVIOUS

\* What is left behind is no longer waited for.
LEMMA ForsakenType ==
    ASSUME SweepType
    PROVE  Sweep!Forsaken \subseteq Posts /\ \A p \in Sweep!Forsaken : ~p.awaited
<1>1. ASSUME NEW p \in sweepPosts
      PROVE  LET f == [p EXCEPT !.awaited = FALSE] IN f \in Posts /\ ~f.awaited
  <2>1. p \in [throttle : 0 .. Steps, awaited : BOOLEAN]
    BY DEF SweepType, Posts
  <2>2. FALSE \in BOOLEAN
    OBVIOUS
  <2> DEFINE f == [p EXCEPT !.awaited = FALSE]
  <2>3. f \in [throttle : 0 .. Steps, awaited : BOOLEAN] /\ f.awaited = FALSE
    BY <2>1, <2>2, AwaitedField
  <2>4. QED
    BY <2>3, Zenon DEF Posts
<1>2. QED
  BY <1>1 DEF Sweep!Forsaken

LEMMA SilentKept ==
    ASSUME Sweep!SilentRowWasApplied, UNCHANGED rows, applied \subseteq applied'
    PROVE  Sweep!SilentRowWasApplied'
BY Zenon DEF Sweep!SilentRowWasApplied

\* A step that asks nobody for anything and takes nothing back.
LEMMA RefusedKept ==
    ASSUME LockedIsIdle, Sweep!RefusedLeavesNothing, exit' # 3
    PROVE  Sweep!RefusedLeavesNothing'
BY DEF Sweep!RefusedLeavesNothing

\* Where a post is tried or waited for, the script runs.
LEMMA RunsInPost ==
    ASSUME SweepType, pc # "end"
    PROVE  exit = 255 /\ exit # 3 /\ exit # 0
BY DEF SweepType, Sweep!Running

LEMMA SweepPost == SweepInv /\ Sweep!Post => SweepInv'
<1> SUFFICES ASSUME SweepInv, Sweep!Post PROVE SweepInv'
  OBVIOUS
<1>1. /\ SweepType /\ WaitsForOne /\ HeldIsApplied /\ LockedIsIdle
      /\ Sweep!RowsFollowTheSteps /\ Sweep!SilentRowWasApplied /\ Sweep!RefusedLeavesNothing
  BY DEF SweepInv
<1>2. /\ pc \in {"post", "resetting"} /\ pc # "end"
      /\ backend' = backend /\ applied' = applied
  BY DEF Sweep!Post
<1>3. /\ exit = 255 /\ \A q \in sweepPosts : ~q.awaited
      /\ sweepPosts \subseteq Posts /\ backend \in Backends
  BY <1>1, <1>2, RunsInPost DEF WaitsForOne, SweepType
<1>4. CASE backend.up
  <2> DEFINE p == [throttle |-> Sweep!Throttle, awaited |-> TRUE]
  <2>1. /\ sweepPosts' = sweepPosts \cup {p}
        /\ pc' = IF pc = "post" THEN "waiting" ELSE "reset"
        /\ step' = step /\ note' = note /\ rows' = rows /\ exit' = exit
    BY <1>4 DEF Sweep!Post
  <2>2. Sweep!Throttle \in 0 .. Steps /\ (pc = "post" => Sweep!Throttle = step)
    BY <1>1, <1>2, SweepConstants DEF Sweep!Throttle, Sweep!Reset, SweepType
  <2>3. p \in Posts /\ p.awaited /\ (pc = "post" => p.throttle = step)
    BY <2>2 DEF Posts
  <2> HIDE DEF p
  <2>4. SweepType'
    BY <1>1, <1>2, <1>3, <2>1, <2>3 DEF SweepType, Sweep!Running
  <2>5. WaitsForOne'
    BY <1>2, <1>3, <2>1, <2>3 DEF WaitsForOne
  <2>6. HeldIsApplied' /\ LockedIsIdle'
    <3>1. pc' # "hold" /\ exit' = 255 /\ backend'.up /\ backend' = backend
      BY <1>2, <1>3, <1>4, <2>1
    <3>2. exit' # 3
      BY <3>1
    <3>3. QED
      BY <1>1, <3>1, <3>2, Zenon DEF HeldIsApplied, LockedIsIdle
  <2>7. Sweep!RowsFollowTheSteps'
    BY <1>1, <2>1, Zenon DEF Sweep!RowsFollowTheSteps
  <2>8. Sweep!SilentRowWasApplied' /\ Sweep!RefusedLeavesNothing'
    BY <1>1, <1>2, <1>3, <2>1, SilentKept, RefusedKept
  <2>9. QED
    BY <2>4, <2>5, <2>6, <2>7, <2>8 DEF SweepInv
<1>5. CASE ~backend.up
  <2>1. Sweep!Outcome("network") /\ sweepPosts' = sweepPosts
    BY <1>5 DEF Sweep!Post
  <2>2. "network" \in PostOutcomes /\ "network" # "401" /\ "network" # ""
    BY DEF PostOutcomes
  <2>3. SweepType' /\ pc' \notin {"waiting", "reset"}
    BY <1>1, <1>2, <1>3, <2>1, <2>2, OutcomeType
  <2>4. /\ rows' = rows /\ exit' # 3
        /\ pc' = "hold" => note' # ""
    BY <1>1, <1>2, <2>1, <2>2, FailureEffect
  <2>5. WaitsForOne' /\ HeldIsApplied'
    BY <1>3, <2>1, <2>3, <2>4 DEF WaitsForOne, HeldIsApplied
  <2>6. LockedIsIdle'
    BY <1>1, <1>2, <2>1, <2>4 DEF LockedIsIdle
  <2>7. Sweep!RowsFollowTheSteps'
    BY <1>1, <1>2, <2>1, <2>2, OutcomeRows
  <2>8. Sweep!SilentRowWasApplied' /\ Sweep!RefusedLeavesNothing'
    BY <1>1, <1>2, <2>4, SilentKept, RefusedKept
  <2>9. QED
    BY <2>3, <2>5, <2>6, <2>7, <2>8 DEF SweepInv
<1>6. QED
  BY <1>4, <1>5

LEMMA SweepTimeout == SweepInv /\ Sweep!Timeout => SweepInv'
<1> SUFFICES ASSUME SweepInv, Sweep!Timeout PROVE SweepInv'
  OBVIOUS
<1>1. /\ SweepType /\ WaitsForOne /\ HeldIsApplied /\ LockedIsIdle
      /\ Sweep!RowsFollowTheSteps /\ Sweep!SilentRowWasApplied /\ Sweep!RefusedLeavesNothing
  BY DEF SweepInv
<1>2. /\ pc \in {"waiting", "reset"} /\ pc # "end" /\ Sweep!Outcome("timeout")
      /\ sweepPosts' = Sweep!Forsaken
      /\ backend' = backend /\ applied' = applied
  BY DEF Sweep!Timeout
<1>3. exit = 255 /\ backend \in Backends
  BY <1>1, <1>2, RunsInPost DEF SweepType
<1>4. sweepPosts' \subseteq Posts /\ \A p \in sweepPosts' : ~p.awaited
  BY <1>1, <1>2, ForsakenType
<1>5. "timeout" \in PostOutcomes /\ "timeout" # "401" /\ "timeout" # ""
  BY DEF PostOutcomes
<1>6. SweepType' /\ pc' \notin {"waiting", "reset"}
  BY <1>1, <1>2, <1>3, <1>4, <1>5, OutcomeType
<1>7. /\ rows' = rows /\ exit' # 3
      /\ pc' = "hold" => note' # ""
  BY <1>1, <1>2, <1>5, FailureEffect
<1>8. WaitsForOne' /\ HeldIsApplied'
  BY <1>4, <1>6, <1>7 DEF WaitsForOne, HeldIsApplied
<1>9. LockedIsIdle'
  <2>1. sweepPosts = {} => sweepPosts' = {}
    BY <1>2 DEF Sweep!Forsaken
  <2>2. QED
    BY <1>1, <1>2, <1>7, <2>1, Zenon DEF LockedIsIdle
<1>10. Sweep!RowsFollowTheSteps'
  BY <1>1, <1>2, <1>5, OutcomeRows
<1>11. Sweep!SilentRowWasApplied' /\ Sweep!RefusedLeavesNothing'
  BY <1>1, <1>2, <1>7, SilentKept, RefusedKept
<1>12. QED
  BY <1>6, <1>8, <1>9, <1>10, <1>11 DEF SweepInv

\* What a crash, a restart and a post do to the record of the backend.
LEMMA CrashedBackend ==
    ASSUME NEW B, NEW I, NEW b \in [up : B, locked : B, intent : I], NEW i \in I
    PROVE  [b EXCEPT !.up = FALSE, !.intent = i].intent = i
           /\ (FALSE \in B => [b EXCEPT !.up = FALSE, !.intent = i]
                                \in [up : B, locked : B, intent : I])
           /\ [b EXCEPT !.up = FALSE, !.intent = i].up = FALSE
OBVIOUS

LEMMA RestartedBackend ==
    ASSUME NEW B, NEW I, NEW b \in [up : B, locked : B, intent : I], NEW l \in B
    PROVE  [b EXCEPT !.up = TRUE, !.locked = l].intent = b.intent
           /\ (TRUE \in B => [b EXCEPT !.up = TRUE, !.locked = l]
                                \in [up : B, locked : B, intent : I])
           /\ [b EXCEPT !.up = TRUE, !.locked = l].up = TRUE
OBVIOUS

LEMMA IntendedBackend ==
    ASSUME NEW B, NEW I, NEW b \in [up : B, locked : B, intent : I], NEW i \in I
    PROVE  /\ [b EXCEPT !.intent = i] \in [up : B, locked : B, intent : I]
           /\ [b EXCEPT !.intent = i].up = b.up /\ [b EXCEPT !.intent = i].locked = b.locked
OBVIOUS

LEMMA Appended ==
    ASSUME NEW E, NEW s \in Seq(E), NEW x \in E
    PROVE  /\ Append(s, x) \in Seq(E) /\ Len(Append(s, x)) = Len(s) + 1 /\ Len(s) \in Nat
           /\ DOMAIN s = 1 .. Len(s) /\ DOMAIN Append(s, x) = 1 .. (Len(s) + 1)
           /\ Append(s, x)[Len(s) + 1] = x
           /\ \A i \in 1 .. Len(s) : Append(s, x)[i] = s[i]
OBVIOUS

\* The row of a step notes what became of its post first.
LEMMA RecordRow ==
    ASSUME SweepType, HeldIsApplied, Sweep!Record
    PROVE  \E row \in Rows :
              /\ rows' = Append(rows, row) /\ row.step = step
              /\ row.note \in {"", "csv"} => step \in applied
<1>1. PICK csv \in {"", "csv"} :
         rows' = Append(rows, [step |-> step, note |-> IF note = "" THEN csv ELSE note])
  BY DEF Sweep!Record
<1> DEFINE row == [step |-> step, note |-> IF note = "" THEN csv ELSE note]
<1>2. note \in PostOutcomes /\ step \in 1 .. Steps /\ pc = "hold"
  BY DEF SweepType, Sweep!Record
<1>3. (IF note = "" THEN csv ELSE note) \in Notes
  BY <1>2, Zenon DEF Notes, PostOutcomes
<1>4. note # "" => note \notin {"", "csv"}
  BY <1>2, Zenon DEF PostOutcomes
<1>5. note = "" => step \in applied
  BY <1>2 DEF HeldIsApplied
<1>6. row \in Rows /\ row.step = step /\ row.note = (IF note = "" THEN csv ELSE note)
  BY <1>2, <1>3, Zenon DEF Rows
<1>7. row.note \in {"", "csv"} => step \in applied
  BY <1>4, <1>5, <1>6, Zenon
<1>8. QED
  BY <1>1, <1>6, <1>7, Zenon

LEMMA SweepRecord == SweepInv /\ Sweep!Record => SweepInv'
<1> SUFFICES ASSUME SweepInv, Sweep!Record PROVE SweepInv'
  OBVIOUS
<1>1. /\ SweepType /\ WaitsForOne /\ HeldIsApplied /\ LockedIsIdle
      /\ Sweep!RowsFollowTheSteps /\ Sweep!SilentRowWasApplied /\ Sweep!RefusedLeavesNothing
  BY DEF SweepInv
<1>2. /\ pc = "hold" /\ note' = ""
      /\ sweepPosts' = sweepPosts /\ backend' = backend /\ applied' = applied
  BY DEF Sweep!Record
<1>4. exit = 255 /\ step \in 1 .. Steps /\ rows \in Seq(Rows) /\ Steps \in Nat
  BY <1>1, <1>2, RunsInPost, SweepConstants DEF SweepType
<1>5. PICK row \in Rows :
              /\ rows' = Append(rows, row) /\ row.step = step
              /\ row.note \in {"", "csv"} => step \in applied
  BY <1>1, RecordRow
<1> DEFINE len == Len(rows)
<1>6. /\ rows' \in Seq(Rows) /\ Len(rows') = len + 1 /\ len \in Nat
      /\ DOMAIN rows = 1 .. len /\ DOMAIN rows' = 1 .. (len + 1)
      /\ rows'[len + 1] = row /\ \A i \in 1 .. len : rows'[i] = rows[i]
  <2>1. rows' = Append(rows, row) /\ rows \in Seq(Rows)
    BY <1>4, <1>5, Zenon
  <2>2. /\ Append(rows, row) \in Seq(Rows) /\ Len(Append(rows, row)) = Len(rows) + 1
        /\ Len(rows) \in Nat /\ DOMAIN rows = 1 .. Len(rows)
        /\ DOMAIN Append(rows, row) = 1 .. (Len(rows) + 1)
        /\ Append(rows, row)[Len(rows) + 1] = row
        /\ \A i \in 1 .. Len(rows) : Append(rows, row)[i] = rows[i]
    <3> HIDE DEF len
    <3>1. row \in Rows
      OBVIOUS
    <3>2. QED
      BY <2>1, <3>1, Appended, SMT
  <2>3. QED
    BY <2>1, <2>2, Zenon DEF len
<1> HIDE DEF len
<1>7. len = step - 1 /\ \A i \in DOMAIN rows : rows[i].step = i
  BY <1>1, <1>4, Zenon DEF len, Sweep!RowsFollowTheSteps, Sweep!Running
<1>8. /\ \A i \in DOMAIN rows' : rows'[i].step = i
      /\ \A i \in DOMAIN rows' : rows'[i].note \in {"", "csv"} => rows'[i].step \in applied
  <2> SUFFICES ASSUME NEW i \in DOMAIN rows'
               PROVE  /\ rows'[i].step = i
                      /\ rows'[i].note \in {"", "csv"} => rows'[i].step \in applied
    OBVIOUS
  <2>1. CASE i = len + 1
    <3>1. rows'[i] = row
      BY <1>6, <2>1, Zenon
    <3>2. i = step
      BY <1>4, <1>6, <1>7, <2>1
    <3>3. QED
      BY <1>5, <3>1, <3>2, Zenon
  <2>2. CASE i # len + 1
    <3>1. i \in 1 .. len
      BY <1>6, <2>2
    <3>2. rows'[i] = rows[i] /\ i \in DOMAIN rows
      BY <1>6, <3>1, Zenon
    <3>3. QED
      BY <1>1, <1>7, <3>2, Zenon DEF Sweep!SilentRowWasApplied
  <2>3. QED
    BY <2>1, <2>2
<1>9. \A q \in sweepPosts' : ~q.awaited
  BY <1>1, <1>2 DEF WaitsForOne
<1>10. CASE step < Steps
  <2>1. pc' = "post" /\ step' = step + 1 /\ exit' = exit
    BY <1>10 DEF Sweep!Record
  <2>2. step' \in 1 .. Steps /\ Len(rows') = step' - 1
    BY <1>4, <1>6, <1>7, <1>10, <2>1
  <2>20. exit' = 255 /\ exit' # 0 /\ exit' # 3
    BY <1>4, <2>1, ExitCodes, Zenon
  <2>3. "" \in PostOutcomes
    BY DEF PostOutcomes
  <2>4. SweepType'
    BY <1>1, <1>2, <1>6, <2>1, <2>2, <2>3, <2>20, Zenon DEF SweepType, Sweep!Running
  <2>5. WaitsForOne' /\ HeldIsApplied' /\ LockedIsIdle'
    BY <1>1, <1>2, <1>9, <2>1, <2>20, Zenon DEF WaitsForOne, HeldIsApplied, LockedIsIdle
  <2>6. Sweep!RowsFollowTheSteps'
    BY <1>8, <2>2, <2>20, Zenon DEF Sweep!RowsFollowTheSteps
  <2>7. Sweep!SilentRowWasApplied' /\ Sweep!RefusedLeavesNothing'
    BY <1>2, <1>8, <2>20, Zenon DEF Sweep!SilentRowWasApplied, Sweep!RefusedLeavesNothing
  <2>8. QED
    BY <2>4, <2>5, <2>6, <2>7 DEF SweepInv
<1>11. CASE ~(step < Steps)
  <2>1. pc' = "end" /\ step' = step /\ exit' = 0
    BY <1>11 DEF Sweep!Record, Sweep!Exit
  <2>2. step' \in 1 .. Steps /\ Len(rows') = Steps
    BY <1>4, <1>6, <1>7, <1>11, <2>1
  <2>20. exit' # Sweep!Running /\ exit' # 3 /\ exit' \in {Sweep!Running, 0, 1, 3, 130}
    BY <2>1, ExitCodes, Zenon DEF Sweep!Running
  <2>3. "" \in PostOutcomes
    BY DEF PostOutcomes
  <2>4. SweepType'
    BY <1>1, <1>2, <1>6, <2>1, <2>2, <2>3, <2>20, Zenon DEF SweepType
  <2>5. WaitsForOne' /\ HeldIsApplied' /\ LockedIsIdle'
    BY <1>1, <1>2, <1>9, <2>1, <2>20, Zenon DEF WaitsForOne, HeldIsApplied, LockedIsIdle
  <2>6. Sweep!RowsFollowTheSteps'
    BY <1>8, <2>2, <2>20, Zenon DEF Sweep!RowsFollowTheSteps
  <2>7. Sweep!SilentRowWasApplied' /\ Sweep!RefusedLeavesNothing'
    BY <1>2, <1>8, <2>20, Zenon DEF Sweep!SilentRowWasApplied, Sweep!RefusedLeavesNothing
  <2>8. QED
    BY <2>4, <2>5, <2>6, <2>7 DEF SweepInv
<1>12. QED
  BY <1>10, <1>11

LEMMA SweepInterrupt == SweepInv /\ Sweep!Interrupt => SweepInv'
<1> SUFFICES ASSUME SweepInv, Sweep!Interrupt PROVE SweepInv'
  OBVIOUS
<1>1. /\ SweepType /\ WaitsForOne /\ HeldIsApplied /\ LockedIsIdle
      /\ Sweep!RowsFollowTheSteps /\ Sweep!SilentRowWasApplied /\ Sweep!RefusedLeavesNothing
  BY DEF SweepInv
<1>2. /\ pc \in {"post", "waiting", "hold"} /\ pc # "end" /\ pc' = "resetting"
      /\ step' = step /\ note' = note /\ rows' = rows /\ exit' = exit
      /\ sweepPosts' = Sweep!Forsaken
      /\ backend' = backend /\ applied' = applied
  BY DEF Sweep!Interrupt
<1>3. exit = 255 /\ exit' # 3
  BY <1>1, <1>2, RunsInPost
<1>4. sweepPosts' \subseteq Posts /\ \A p \in sweepPosts' : ~p.awaited
  BY <1>1, <1>2, ForsakenType
<1>5. SweepType'
  BY <1>1, <1>2, <1>3, <1>4, Zenon DEF SweepType, Sweep!Running
<1>6. WaitsForOne' /\ HeldIsApplied'
  BY <1>2, <1>4 DEF WaitsForOne, HeldIsApplied
<1>7. LockedIsIdle'
  <2>1. sweepPosts = {} => sweepPosts' = {}
    BY <1>2 DEF Sweep!Forsaken
  <2>2. QED
    BY <1>1, <1>2, <1>3, <2>1, Zenon DEF LockedIsIdle
<1>8. Sweep!RowsFollowTheSteps'
  BY <1>1, <1>2, Zenon DEF Sweep!RowsFollowTheSteps
<1>9. Sweep!SilentRowWasApplied' /\ Sweep!RefusedLeavesNothing'
  BY <1>1, <1>2, <1>3, SilentKept, RefusedKept
<1>10. QED
  BY <1>5, <1>6, <1>7, <1>8, <1>9 DEF SweepInv

LEMMA SweepCrash == SweepInv /\ Sweep!Crash => SweepInv'
<1> SUFFICES ASSUME SweepInv, Sweep!Crash PROVE SweepInv'
  OBVIOUS
<1>1. /\ SweepType /\ WaitsForOne /\ HeldIsApplied /\ LockedIsIdle
      /\ Sweep!RowsFollowTheSteps /\ Sweep!SilentRowWasApplied /\ Sweep!RefusedLeavesNothing
  BY DEF SweepInv
<1>2. /\ backend' = [backend EXCEPT !.up = FALSE, !.intent = Sweep!NoIntent]
      /\ sweepPosts' = {} /\ applied' = applied
      /\ step' = step /\ note' = note /\ rows' = rows
  <2>1. step' = step /\ note' = note /\ rows' = rows
    BY Zenon DEF Sweep!Crash, Sweep!script
  <2>2. backend' = [backend EXCEPT !.up = FALSE, !.intent = Sweep!NoIntent]
    BY Zenon DEF Sweep!Crash
  <2>3. sweepPosts' = {} /\ applied' = applied
    BY Zenon DEF Sweep!Crash
  <2>4. QED
    BY <2>1, <2>2, <2>3
<1>3. backend' \in Backends /\ backend'.intent = Sweep!NoIntent
  <2>1. backend \in Backends /\ Sweep!NoIntent \in 0 .. Sweep!NoIntent
    BY <1>1, SweepConstants DEF SweepType
  <2>2. QED
    BY <1>2, <2>1, CrashedBackend, Zenon DEF Backends
<1>4. CASE \E p \in sweepPosts : p.awaited
  <2>1. pc' = "end" /\ exit' = 1
    BY <1>4 DEF Sweep!Crash, Sweep!Exit
  <2>2. pc # "end"
    BY <1>1, <1>4 DEF WaitsForOne
  <2>3. exit' # 3 /\ exit' # 0 /\ exit' # Sweep!Running /\ exit' \in {Sweep!Running, 0, 1, 3, 130}
    BY <2>1 DEF Sweep!Running
  <2>4. SweepType'
    BY <1>1, <1>2, <1>3, <2>1, <2>3, Zenon DEF SweepType
  <2>5. WaitsForOne' /\ HeldIsApplied' /\ LockedIsIdle'
    BY <1>2, <1>3, <2>1, <2>3, Zenon DEF WaitsForOne, HeldIsApplied, LockedIsIdle
  <2>6. Sweep!RowsFollowTheSteps'
    BY <1>1, <1>2, <2>3, Zenon DEF Sweep!RowsFollowTheSteps
  <2>7. Sweep!SilentRowWasApplied' /\ Sweep!RefusedLeavesNothing'
    BY <1>1, <1>2, <2>3, SilentKept, RefusedKept
  <2>8. QED
    BY <2>4, <2>5, <2>6, <2>7 DEF SweepInv
<1>5. CASE ~\E p \in sweepPosts : p.awaited
  <2>1. pc' = pc /\ exit' = exit
    BY <1>5 DEF Sweep!Crash, Sweep!script
  <2>2. pc \notin {"waiting", "reset"}
    BY <1>1, <1>5 DEF WaitsForOne
  <2>3. SweepType'
    BY <1>1, <1>2, <1>3, <2>1, Zenon DEF SweepType
  <2>4. WaitsForOne' /\ HeldIsApplied' /\ LockedIsIdle'
    BY <1>1, <1>2, <1>3, <2>1, <2>2, Zenon DEF WaitsForOne, HeldIsApplied, LockedIsIdle
  <2>5. Sweep!RowsFollowTheSteps'
    BY <1>1, <1>2, <2>1, Zenon DEF Sweep!RowsFollowTheSteps
  <2>6. Sweep!SilentRowWasApplied'
    BY <1>1, <1>2, SilentKept
  <2>7. Sweep!RefusedLeavesNothing'
    BY <1>3, Zenon DEF Sweep!RefusedLeavesNothing
  <2>8. QED
    BY <2>3, <2>4, <2>5, <2>6, <2>7 DEF SweepInv
<1>6. QED
  BY <1>4, <1>5

LEMMA SweepRestart == SweepInv /\ Sweep!Restart => SweepInv'
<1> SUFFICES ASSUME SweepInv, Sweep!Restart PROVE SweepInv'
  OBVIOUS
<1>1. /\ SweepType /\ WaitsForOne /\ HeldIsApplied /\ LockedIsIdle
      /\ Sweep!RowsFollowTheSteps /\ Sweep!SilentRowWasApplied /\ Sweep!RefusedLeavesNothing
  BY DEF SweepInv
<1>2. PICK l \in BOOLEAN : backend' = [backend EXCEPT !.up = TRUE, !.locked = l]
  BY DEF Sweep!Restart
<1>3. /\ ~backend.up /\ UNCHANGED <<pc, step, note, rows, exit, sweepPosts, applied>>
  BY DEF Sweep!Restart, Sweep!script
<1>4. backend \in Backends /\ sweepPosts = {} /\ backend.intent = Sweep!NoIntent
  BY <1>1, <1>3 DEF SweepType, LockedIsIdle
<1>5. backend' \in Backends /\ backend'.intent = Sweep!NoIntent
  BY <1>2, <1>4, RestartedBackend, Zenon DEF Backends
<1>6. SweepType'
  BY <1>1, <1>3, <1>5, Zenon DEF SweepType
<1>7. WaitsForOne' /\ HeldIsApplied' /\ LockedIsIdle'
  BY <1>1, <1>3, <1>4, <1>5, Zenon DEF WaitsForOne, HeldIsApplied, LockedIsIdle
<1>8. Sweep!RowsFollowTheSteps' /\ Sweep!SilentRowWasApplied'
  BY <1>1, <1>3, Zenon DEF Sweep!RowsFollowTheSteps, Sweep!SilentRowWasApplied
<1>9. Sweep!RefusedLeavesNothing'
  BY <1>5, Zenon DEF Sweep!RefusedLeavesNothing
<1>10. QED
  BY <1>6, <1>7, <1>8, <1>9 DEF SweepInv

Verdicts == {"", "http", "401"}

LEMMA VerdictsAreOutcomes ==
    ASSUME NEW v \in Verdicts
    PROVE  v \in PostOutcomes /\ (v = "" => v # "401")
BY DEF Verdicts, PostOutcomes

\* An intent taken over is of a backend that does not refuse the token.
LEMMA HandledBackend ==
    ASSUME LockedIsIdle, NEW p \in sweepPosts, p \in Posts, backend \in Backends,
           NEW v \in Verdicts, backend.locked = (v = "401"),
           IF v = ""
           THEN backend' = [backend EXCEPT !.intent = p.throttle]
                /\ applied' = applied \cup {p.throttle}
           ELSE UNCHANGED <<backend, applied>>
    PROVE  /\ backend' \in Backends /\ backend'.up = backend.up
           /\ backend'.locked = backend.locked
           /\ backend'.locked => backend'.intent = Sweep!NoIntent
           /\ applied \subseteq applied' /\ (v = "" => p.throttle \in applied')
<1>1. p.throttle \in 0 .. Sweep!NoIntent
  BY SweepConstants DEF Posts
<1>2. CASE v = ""
  <2>1. /\ backend' = [backend EXCEPT !.intent = p.throttle]
        /\ applied' = applied \cup {p.throttle}
    BY <1>2, Zenon
  <2>2. backend' \in Backends /\ backend'.up = backend.up /\ backend'.locked = backend.locked
    BY <1>1, <2>1, IntendedBackend, Zenon DEF Backends
  <2>3. backend.locked = FALSE
    BY <1>2, VerdictsAreOutcomes, Zenon
  <2>4. applied \subseteq applied' /\ p.throttle \in applied'
    BY <2>1, Zenon
  <2>5. QED
    BY <2>2, <2>3, <2>4, Zenon
<1>3. CASE v # ""
  <2>1. backend' = backend /\ applied' = applied
    BY <1>3, Zenon
  <2>2. QED
    BY <1>3, <2>1, Zenon DEF LockedIsIdle
<1>4. QED
  BY <1>2, <1>3

LEMMA SweepHandle == SweepInv /\ Sweep!Handle => SweepInv'
<1> SUFFICES ASSUME SweepInv, Sweep!Handle PROVE SweepInv'
  OBVIOUS
<1>1. /\ SweepType /\ WaitsForOne /\ HeldIsApplied /\ LockedIsIdle
      /\ Sweep!RowsFollowTheSteps /\ Sweep!SilentRowWasApplied /\ Sweep!RefusedLeavesNothing
  BY DEF SweepInv
<1>2. PICK p \in sweepPosts, v \in Verdicts :
        /\ backend.locked = (v = "401")
        /\ sweepPosts' = sweepPosts \ {p}
        /\ IF v = ""
           THEN backend' = [backend EXCEPT !.intent = p.throttle]
                /\ applied' = applied \cup {p.throttle}
           ELSE UNCHANGED <<backend, applied>>
        /\ IF p.awaited THEN Sweep!Outcome(v) ELSE UNCHANGED Sweep!script
  BY Zenon DEF Sweep!Handle, Verdicts
<1>3. v \in PostOutcomes
  BY VerdictsAreOutcomes
<1>4. p \in Posts /\ backend \in Backends /\ sweepPosts' \subseteq Posts
  BY <1>1, <1>2, Zenon DEF SweepType
<1>5. /\ backend' \in Backends /\ backend'.up = backend.up /\ backend'.locked = backend.locked
      /\ backend'.locked => backend'.intent = Sweep!NoIntent
      /\ applied \subseteq applied' /\ (v = "" => p.throttle \in applied')
  BY <1>1, <1>2, <1>4, HandledBackend, Zenon
<1>6. backend.up = TRUE
  <2>1. ~backend.up => FALSE
    BY <1>1 DEF LockedIsIdle
  <2>2. backend.up \in BOOLEAN
    BY <1>4 DEF Backends
  <2>3. QED
    BY <2>1, <2>2
<1>7. CASE p.awaited
  <2>1. Sweep!Outcome(v)
    BY <1>2, <1>7, Zenon
  <2>2. /\ pc \in {"waiting", "reset"} /\ pc # "end"
        /\ \A q \in sweepPosts : q.awaited => q = p
        /\ pc = "waiting" => p.throttle = step
    BY <1>1, <1>7, Zenon DEF WaitsForOne
  <2>3. exit = 255 /\ exit # 3
    BY <1>1, <2>2, RunsInPost
  <2>4. SweepType' /\ pc' \notin {"waiting", "reset"}
    BY <1>1, <1>3, <1>4, <1>5, <2>1, <2>2, OutcomeType, Zenon
  <2>5. /\ step' = step /\ rows' = rows
        /\ \/ pc' = "hold" /\ note' = v /\ exit' = exit /\ pc \notin {"resetting", "reset"}
           \/ pc' = "end" /\ exit' = 3 /\ v = "401"
           \/ pc' = "end" /\ exit' = 130
    BY <1>1, <1>3, <2>1, <2>2, OutcomeEffect, Zenon
  <2>6. WaitsForOne'
    <3>1. \A q \in sweepPosts' : ~q.awaited
      BY <1>2, <2>2, Zenon
    <3>2. QED
      BY <2>4, <3>1, Zenon DEF WaitsForOne
  <2>7. HeldIsApplied'
    <3> SUFFICES ASSUME pc' = "hold", note' = "" PROVE step' \in applied'
      BY Zenon DEF HeldIsApplied
    <3>1. v = "" /\ pc = "waiting"
      BY <2>2, <2>5, Zenon
    <3>2. QED
      BY <1>5, <2>2, <2>5, <3>1, Zenon
  <2>8. exit' = 3 => backend.locked
    BY <1>2, <2>3, <2>5, ExitCodes, Zenon
  <2>9. LockedIsIdle' /\ Sweep!RefusedLeavesNothing'
    BY <1>5, <1>6, <2>8, Zenon DEF LockedIsIdle, Sweep!RefusedLeavesNothing
  <2>10. Sweep!RowsFollowTheSteps'
    BY <1>1, <1>3, <2>1, <2>2, OutcomeRows, Zenon
  <2>11. Sweep!SilentRowWasApplied'
    BY <1>1, <1>5, <2>5, SilentKept, Zenon
  <2>12. QED
    BY <2>4, <2>6, <2>7, <2>9, <2>10, <2>11 DEF SweepInv
<1>8. CASE ~p.awaited
  <2>1. pc' = pc /\ step' = step /\ note' = note /\ rows' = rows /\ exit' = exit
    BY <1>2, <1>8, Zenon DEF Sweep!script
  <2>2. SweepType'
    BY <1>1, <1>4, <1>5, <2>1, Zenon DEF SweepType
  <2>3. WaitsForOne'
    BY <1>1, <1>2, <1>8, <2>1, Zenon DEF WaitsForOne
  <2>4. HeldIsApplied'
    BY <1>1, <1>5, <2>1, Zenon DEF HeldIsApplied
  <2>5. exit' = 3 => backend.locked
    BY <1>1, <2>1, Zenon DEF LockedIsIdle
  <2>6. LockedIsIdle' /\ Sweep!RefusedLeavesNothing'
    BY <1>5, <1>6, <2>5, Zenon DEF LockedIsIdle, Sweep!RefusedLeavesNothing
  <2>7. Sweep!RowsFollowTheSteps'
    BY <1>1, <2>1, Zenon DEF Sweep!RowsFollowTheSteps
  <2>8. Sweep!SilentRowWasApplied'
    BY <1>1, <1>5, <2>1, SilentKept, Zenon
  <2>9. QED
    BY <2>2, <2>3, <2>4, <2>6, <2>7, <2>8 DEF SweepInv
<1>9. QED
  BY <1>7, <1>8

LEMMA SweepStutter == SweepInv /\ UNCHANGED sweep => SweepInv'
<1> SUFFICES ASSUME SweepInv, UNCHANGED sweep PROVE SweepInv'
  OBVIOUS
<1>1. UNCHANGED <<pc, step, note, rows, exit, sweepPosts, backend, crashes, applied>>
  BY DEF sweep
<1>2. /\ SweepType /\ WaitsForOne /\ HeldIsApplied /\ LockedIsIdle
      /\ Sweep!RowsFollowTheSteps /\ Sweep!SilentRowWasApplied /\ Sweep!RefusedLeavesNothing
  BY DEF SweepInv
<1>3. SweepType' /\ WaitsForOne' /\ HeldIsApplied' /\ LockedIsIdle'
  <2>1. SweepType'
    BY <1>1, <1>2, Zenon DEF SweepType
  <2>2. WaitsForOne'
    BY <1>1, <1>2, Zenon DEF WaitsForOne
  <2>3. HeldIsApplied' /\ LockedIsIdle'
    BY <1>1, <1>2, Zenon DEF HeldIsApplied, LockedIsIdle
  <2>4. QED
    BY <2>1, <2>2, <2>3
<1>4. Sweep!RowsFollowTheSteps' /\ Sweep!SilentRowWasApplied' /\ Sweep!RefusedLeavesNothing'
  BY <1>1, <1>2, Zenon DEF Sweep!RowsFollowTheSteps, Sweep!SilentRowWasApplied,
     Sweep!RefusedLeavesNothing
<1>5. QED
  BY <1>3, <1>4 DEF SweepInv

\* Two fields make a post.
LEMMA WaitsForOneCounts ==
    ASSUME NEW E, NEW p \in E, p.awaited, \A q \in E : q.awaited => q = p
    PROVE  Cardinality({q \in E : q.awaited}) = 1
<1>1. {q \in E : q.awaited} = {p}
  OBVIOUS
<1>2. QED
  BY <1>1, FS_Singleton

LEMMA WaitsForNoneCounts ==
    ASSUME NEW E, \A q \in E : ~q.awaited
    PROVE  Cardinality({q \in E : q.awaited}) = 0
<1>1. {q \in E : q.awaited} = {}
  OBVIOUS
<1>2. QED
  BY <1>1, FS_EmptySet

LEMMA SweepCardinality == ASSUME NEW E PROVE Sweep!Cardinality(E) = Cardinality(E)
BY Zenon DEF Sweep!Cardinality, Cardinality

LEMMA SweepTypeOK == SweepInv => Sweep!TypeOK
<1> SUFFICES ASSUME SweepInv PROVE Sweep!TypeOK
  OBVIOUS
<1>1. SweepType /\ WaitsForOne
  BY DEF SweepInv
<1>2. Sweep!Cardinality({p \in sweepPosts : p.awaited})
         = (IF pc \in {"waiting", "reset"} THEN 1 ELSE 0)
  <2>1. CASE pc \in {"waiting", "reset"}
    <3>1. PICK one \in sweepPosts : one.awaited /\ \A q \in sweepPosts : q.awaited => q = one
      BY <1>1, <2>1, Zenon DEF WaitsForOne
    <3>2. Cardinality({p \in sweepPosts : p.awaited}) = 1
      BY <3>1, WaitsForOneCounts, Zenon
    <3>3. QED
      BY <2>1, <3>2, SweepCardinality, Zenon
  <2>2. CASE pc \notin {"waiting", "reset"}
    <3>1. \A q \in sweepPosts : ~q.awaited
      BY <1>1, <2>2, Zenon DEF WaitsForOne
    <3>2. Cardinality({p \in sweepPosts : p.awaited}) = 0
      BY <3>1, WaitsForNoneCounts, Zenon
    <3>3. QED
      BY <2>2, <3>2, SweepCardinality, Zenon
  <2>3. QED
    BY <2>1, <2>2
<1>3. \A i \in DOMAIN rows :
         rows[i] \in [step : 1 .. Steps, note : {"", "csv"} \cup Sweep!PostNotes]
  <2>1. rows \in Seq(Rows)
    BY <1>1 DEF SweepType
  <2>2. \A i \in DOMAIN rows : rows[i] \in Rows
    BY <2>1
  <2>3. {"", "csv"} \cup Sweep!PostNotes = Notes
    BY Zenon DEF Sweep!PostNotes, Notes, PostOutcomes
  <2>4. QED
    BY <2>2, <2>3, Zenon DEF Rows
<1>4. \A p \in sweepPosts : p.throttle \in 0 .. Steps /\ p.awaited \in BOOLEAN
  BY <1>1 DEF SweepType, Posts
<1>5. note \in {""} \cup Sweep!PostNotes
  BY <1>1, Zenon DEF SweepType, PostOutcomes, Sweep!PostNotes
<1>6. (exit = Sweep!Running) = (pc # "end")
  BY <1>1, Zenon DEF SweepType
<1>7. /\ pc \in {"post", "waiting", "hold", "resetting", "reset", "end"} /\ step \in 1 .. Steps
      /\ exit \in {Sweep!Running, 0, 1, 3, 130}
      /\ backend \in [up : BOOLEAN, locked : BOOLEAN, intent : 0 .. Sweep!NoIntent]
  BY <1>1, Zenon DEF SweepType, Backends
<1>8. QED
  <2>1. /\ pc \in {"post", "waiting", "hold", "resetting", "reset", "end"} /\ step \in 1 .. Steps
        /\ note \in {""} \cup Sweep!PostNotes /\ exit \in {Sweep!Running, 0, 1, 3, 130}
    BY <1>5, <1>7, Zenon
  <2>2. QED
    BY <1>2, <1>3, <1>4, <1>6, <1>7, <2>1, Zenon DEF Sweep!TypeOK

LEMMA SweepStep == SweepInv /\ Sweep!Next => SweepInv'
BY SweepPost, SweepTimeout, SweepRecord, SweepInterrupt, SweepHandle, SweepCrash, SweepRestart
   DEF Sweep!Next, Sweep!Script

LEMMA SweepAlways == BackendSpec => [](part = "sweep" => SweepInv)
<1>1. BackendInit => (part = "sweep" => SweepInv)
  BY SweepInit DEF BackendInit
<1>2. (part = "sweep" => SweepInv) /\ [BackendNext]_<<part, vars, gate, video, ingest, sweep>>
      => (part = "sweep" => SweepInv)'
  <2> SUFFICES ASSUME part = "sweep" => SweepInv,
                      [BackendNext]_<<part, vars, gate, video, ingest, sweep>>,
                      part' = "sweep"
               PROVE  SweepInv'
    OBVIOUS
  <2>1. part' = part
    BY Zenon DEF BackendNext
  <2>2. Sweep!Next \/ UNCHANGED sweep
    BY <2>1, Zenon DEF BackendNext
  <2>3. QED
    BY <2>1, <2>2, SweepStep, SweepStutter
<1>3. QED
  BY <1>1, <1>2, PTL DEF BackendSpec

\* The rows of the calibration are those of its steps, a row that notes no trouble is of a
\* throttle the backend took over, and a sweep given up for its token leaves nothing in effect,
\* whatever backend the script meets.
THEOREM RowsAreAlwaysTrue == BackendSpec => []RowsAreTrue
<1>1. (part = "sweep" => SweepInv) => RowsAreTrue
  BY SweepTypeOK, Zenon DEF SweepInv, RowsAreTrue
<1>2. QED
  BY <1>1, SweepAlways, PTL
-----------------------------------------------------------------------------
(* The live view.                                                          *)

Posted == [phase : {"gate", "body", "ok", "bad"}, kind : Kinds, num : Nat \ {0},
           arrived : BOOLEAN, gone : BOOLEAN]
Views == [phase : {"off", "opened", "part", "sending", "waiting"}, due : 0 .. Period + Lag,
          slow : BOOLEAN]

PostType ==
    /\ pusher \in {0} \cup Requests /\ request \in [Requests -> {Hub!Free} \cup Posted]
    /\ posts \in Nat /\ pushOk \in Nat /\ givenUp \in Nat
HubType ==
    /\ hub \in [num : Nat, rx : 0 .. Hub!Synthetic]
    /\ framesOk \in Nat /\ framesBad \in Nat /\ answers \in Nat /\ back \in Nat
ViewType ==
    clients \in Nat /\ viewer \in [Streams -> Views] /\ shown \in [Streams -> 0 .. Hub!Synthetic]

\* The pusher waits on the last post, whose connection is open.
WaitsForTheLast ==
    /\ \A r \in Requests : request[r] # Hub!Free => request[r].num <= posts
    /\ pusher # 0 =>
         request[pusher] # Hub!Free /\ ~request[pusher].gone /\ request[pusher].num = posts

Unanswered(q) == q.phase \in {"gate", "body"}
Pending == {r \in Requests : Unanswered(request[r])}

\* The posts given up whose frames may come yet: each may take the place of a newer one.
Abandoned == {r \in Requests : r # pusher /\ Unanswered(request[r])}

\* What the pusher is about to count as delivered.
Delivered == IF pusher # 0 /\ request[pusher].phase = "ok" THEN 1 ELSE 0

PostInv ==
    /\ framesOk + framesBad = answers /\ answers + Cardinality(Pending) <= posts
    /\ pushOk + Delivered <= framesOk
    /\ hub.num <= posts
    /\ back + Cardinality(Abandoned) <= givenUp

\* What the stream w has on the screen, a: while it sleeps there is time left for the frame to
\* be replaced.
Recent(w, a) ==
    /\ w.phase \in {"off", "opened", "part"} => a = Hub!Synthetic
    /\ ~w.slow /\ a # Hub!Synthetic =>
         /\ w.phase = "sending" => a <= Fresh
         /\ w.phase = "waiting" => a + w.due <= Fresh + Period + Lag

Streaming == {v \in Streams : viewer[v].phase \in {"part", "sending", "waiting"}}

StreamInv ==
    /\ \A v \in Streams : Recent(viewer[v], shown[v])
    /\ clients = Cardinality(Streaming)

PostsInv == PostType /\ HubType /\ WaitsForTheLast /\ PostInv
ViewsInv == ViewType /\ StreamInv
VideoInv == PostsInv /\ ViewsInv
-----------------------------------------------------------------------------
(* What the video hub's constants and operators are.                       *)

LEMMA VideoConstants ==
    /\ Fresh \in Nat /\ Period \in Nat \ {0} /\ Lag \in Nat /\ MaxPosts \in Nat
    /\ Hub!OldAge = Fresh + Period + Lag + 1 /\ Hub!Synthetic = Fresh + Period + Lag + 2
    /\ IsFiniteSet(Streams) /\ IsFiniteSet(Requests) /\ 0 \notin Requests
<1>1. Hub!VideoAssumption
  BY BackendAssumption DEF BackendAssumption
<1>2. \A A : Hub!IsFiniteSet(A) = IsFiniteSet(A)
  BY Zenon DEF Hub!IsFiniteSet, IsFiniteSet
<1>3. IsFiniteSet(Streams) /\ IsFiniteSet(Requests) /\ 0 \notin Requests
  BY <1>1, <1>2, Zenon DEF Hub!VideoAssumption
<1>4. Fresh \in Nat /\ Period \in Nat \ {0} /\ Lag \in Nat /\ MaxPosts \in Nat
  BY <1>1, Zenon DEF Hub!VideoAssumption
<1>5. Hub!OldAge = Fresh + Period + Lag + 1 /\ Hub!Synthetic = Fresh + Period + Lag + 2
  BY <1>4 DEF Hub!OldAge, Hub!Synthetic
<1>6. QED
  BY <1>3, <1>4, <1>5

LEMMA HubCardinality == ASSUME NEW A PROVE Hub!Cardinality(A) = Cardinality(A)
BY Zenon DEF Hub!Cardinality, Cardinality

\* An age grows by one, up to OldAge; no frame stays no frame.
LEMMA OlderGrows ==
    ASSUME NEW a \in 0 .. Hub!Synthetic
    PROVE  /\ Hub!Older(a) \in 0 .. Hub!Synthetic
           /\ a = Hub!Synthetic => Hub!Older(a) = Hub!Synthetic
           /\ a < Hub!OldAge => Hub!Older(a) = a + 1
           /\ a = Hub!OldAge => Hub!Older(a) = Hub!OldAge
<1>1. CASE a = Hub!Synthetic
  BY <1>1, VideoConstants DEF Hub!Older
<1>2. CASE a # Hub!Synthetic
  <2> DEFINE both == {a + 1, Hub!OldAge}
  <2>1. a + 1 \in Nat /\ Hub!OldAge \in Nat /\ a \in Nat /\ a <= Hub!OldAge
    BY <1>2, VideoConstants
  <2>2. Hub!Older(a) = Hub!Min(both)
    BY <1>2 DEF Hub!Older
  <2>3. \E x \in both : \A y \in both : x <= y
    BY <2>1
  <2>4. Hub!Min(both) \in both /\ \A y \in both : Hub!Min(both) <= y
    BY <2>3 DEF Hub!Min
  <2>5. QED
    BY <2>1, <2>2, <2>4, VideoConstants
<1>3. QED
  BY <1>1, <1>2

LEMMA Updated ==
    ASSUME NEW D, NEW T, NEW f \in [D -> T], NEW d \in D, NEW x \in T
    PROVE  /\ [f EXCEPT ![d] = x] \in [D -> T] /\ [f EXCEPT ![d] = x][d] = x
           /\ \A e \in D : e # d => [f EXCEPT ![d] = x][e] = f[e]
OBVIOUS

\* A request under way, and what changes in it.
LEMMA PostedFields ==
    ASSUME NEW P, NEW K, NEW N, NEW B,
           NEW q \in [phase : P, kind : K, num : N, arrived : B, gone : B]
    PROVE  /\ q.phase \in P /\ q.kind \in K /\ q.num \in N /\ q.arrived \in B /\ q.gone \in B
           /\ \A x \in P : LET n == [q EXCEPT !.phase = x] IN
                /\ n \in [phase : P, kind : K, num : N, arrived : B, gone : B]
                /\ n.phase = x /\ n.num = q.num /\ n.gone = q.gone
           /\ \A x \in B : LET n == [q EXCEPT !.arrived = x] IN
                /\ n \in [phase : P, kind : K, num : N, arrived : B, gone : B]
                /\ n.phase = q.phase /\ n.num = q.num /\ n.gone = q.gone
           /\ \A x \in B : LET n == [q EXCEPT !.gone = x] IN
                /\ n \in [phase : P, kind : K, num : N, arrived : B, gone : B]
                /\ n.phase = q.phase /\ n.num = q.num /\ n.gone = x
OBVIOUS

LEMMA FreeOrPosted ==
    ASSUME NEW q \in {Hub!Free} \cup Posted
    PROVE  (q = Hub!Free <=> q.phase = "free") /\ (q # Hub!Free => q \in Posted)
<1>1. Hub!Free.phase = "free"
  BY DEF Hub!Free
<1>2. q \in Posted => q.phase # "free"
  BY DEF Posted
<1>3. QED
  BY <1>1, <1>2

\* What became of one request leaves the others as they were.
LEMMA RequestUpdated ==
    ASSUME PostType, NEW r \in Requests, NEW q \in {Hub!Free} \cup Posted,
           request' = [request EXCEPT ![r] = q]
    PROVE  /\ request' \in [Requests -> {Hub!Free} \cup Posted] /\ request'[r] = q
           /\ \A s \in Requests : s # r => request'[s] = request[s]
BY Updated DEF PostType

LEMMA SubsetCounts ==
    ASSUME NEW A, A \subseteq Requests
    PROVE  IsFiniteSet(A) /\ Cardinality(A) \in Nat
BY VideoConstants, FS_Subset, FS_CardinalityType, Zenon

LEMMA SmallerCounts ==
    ASSUME NEW A, A \subseteq Requests, NEW E, E \subseteq A
    PROVE  Cardinality(E) <= Cardinality(A)
BY SubsetCounts, FS_Subset, Zenon

LEMMA OneFewer ==
    ASSUME NEW A, A \subseteq Requests, NEW r \in A, NEW E, E \subseteq A \ {r}
    PROVE  Cardinality(E) <= Cardinality(A) - 1
<1>1. IsFiniteSet(A) /\ IsFiniteSet(A \ {r}) /\ Cardinality(A \ {r}) = Cardinality(A) - 1
  BY SubsetCounts, FS_RemoveElement, Zenon
<1>2. Cardinality(E) <= Cardinality(A \ {r})
  BY <1>1, FS_Subset, Zenon
<1>3. QED
  BY <1>1, <1>2

LEMMA OneMore ==
    ASSUME NEW A, A \subseteq Requests, NEW r, NEW E, E \subseteq A \cup {r}, E \subseteq Requests
    PROVE  Cardinality(E) <= Cardinality(A) + 1
<1>1. CASE r \in E /\ r \notin A
  <2>1. E \ {r} \subseteq A
    OBVIOUS
  <2>2. Cardinality(E \ {r}) = Cardinality(E) - 1 /\ Cardinality(E \ {r}) <= Cardinality(A)
    BY <1>1, <2>1, SubsetCounts, SmallerCounts, FS_RemoveElement, Zenon
  <2>3. QED
    BY <2>2, SubsetCounts
<1>2. CASE r \notin E \/ r \in A
  <2>1. E \subseteq A
    BY <1>2
  <2>2. QED
    BY <2>1, SubsetCounts, SmallerCounts
<1>3. QED
  BY <1>1, <1>2

LEMMA PostCounts ==
    /\ Pending \subseteq Requests /\ Pending' \subseteq Requests
    /\ Abandoned \subseteq Requests /\ Abandoned' \subseteq Requests
    /\ Cardinality(Pending) \in Nat /\ Cardinality(Pending') \in Nat
    /\ Cardinality(Abandoned) \in Nat /\ Cardinality(Abandoned') \in Nat
<1>1. /\ Pending \subseteq Requests /\ Pending' \subseteq Requests
      /\ Abandoned \subseteq Requests /\ Abandoned' \subseteq Requests
  BY DEF Pending, Abandoned
<1>2. QED
  BY <1>1, SubsetCounts, Zenon
-----------------------------------------------------------------------------
(* The steps of the vision process and of a request.                       *)

LEMMA VideoInit == Hub!Init => VideoInv
<1> SUFFICES ASSUME Hub!Init PROVE VideoInv
  OBVIOUS
<1>1. /\ pusher = 0 /\ request = [r \in Requests |-> Hub!Free]
      /\ posts = 0 /\ pushOk = 0 /\ givenUp = 0
      /\ hub = [num |-> 0, rx |-> Hub!Synthetic]
      /\ framesOk = 0 /\ framesBad = 0 /\ answers = 0 /\ back = 0
      /\ clients = 0
      /\ viewer = [v \in Streams |-> [phase |-> "off", due |-> 0, slow |-> FALSE]]
      /\ shown = [v \in Streams |-> Hub!Synthetic]
  BY Zenon DEF Hub!Init
<1>2. \A r \in Requests : request[r] = Hub!Free /\ request[r].phase = "free"
  BY <1>1, FreeOrPosted DEF Hub!Free
<1>3. PostType /\ HubType /\ WaitsForTheLast
  <2>1. PostType
    BY <1>1 DEF PostType
  <2>2. HubType
    BY <1>1, VideoConstants DEF HubType
  <2>3. WaitsForTheLast
    BY <1>1, <1>2 DEF WaitsForTheLast
  <2>4. QED
    BY <2>1, <2>2, <2>3
<1>4. PostInv
  <2>1. Pending = {} /\ Abandoned = {}
    BY <1>2 DEF Pending, Abandoned, Unanswered
  <2>2. Cardinality(Pending) = 0 /\ Cardinality(Abandoned) = 0
    BY <2>1, FS_EmptySet, Zenon
  <2>3. Delivered = 0 /\ hub.num = 0
    BY <1>1 DEF Delivered
  <2>4. QED
    BY <1>1, <2>2, <2>3 DEF PostInv
<1>5. ViewsInv
  <2> DEFINE x == [phase |-> "off", due |-> 0, slow |-> FALSE]
  <2>1. x \in Views /\ x.phase = "off"
    BY VideoConstants DEF Views
  <2> HIDE DEF x
  <2>2. \A v \in Streams : viewer[v] = x /\ shown[v] = Hub!Synthetic
    BY <1>1 DEF x
  <2>3. ViewType
    <3>1. viewer = [v \in Streams |-> x]
      BY <1>1 DEF x
    <3>2. viewer \in [Streams -> Views]
      BY <2>1, <3>1, Zenon
    <3>3. QED
      BY <1>1, <3>2, VideoConstants DEF ViewType
  <2>4. Streaming = {}
    BY <2>1, <2>2 DEF Streaming
  <2>5. clients = Cardinality(Streaming)
    BY <1>1, <2>4, FS_EmptySet, Zenon
  <2>6. \A v \in Streams : Recent(viewer[v], shown[v])
    BY <2>1, <2>2 DEF Recent
  <2>7. QED
    BY <2>3, <2>5, <2>6 DEF ViewsInv, StreamInv
<1>6. QED
  BY <1>3, <1>4, <1>5 DEF VideoInv, PostsInv

LEMMA VideoParts ==
    VideoInv => PostType /\ HubType /\ WaitsForTheLast /\ PostInv /\ ViewType /\ StreamInv
BY DEF VideoInv, PostsInv, ViewsInv

\* A step of the posts or the hub leaves the streams as they are, and one of the streams the
\* posts and the hub.
LEMMA ViewsKept ==
    ASSUME ViewsInv, UNCHANGED <<clients, viewer, shown>>
    PROVE  ViewsInv'
BY Zenon DEF ViewsInv, ViewType, StreamInv, Streaming, Recent

LEMMA PostsKept ==
    ASSUME PostsInv, UNCHANGED <<pusher, request, posts, pushOk, givenUp>>,
           UNCHANGED <<hub, framesOk, framesBad, answers, back>>
    PROVE  PostsInv'
BY Zenon DEF PostsInv, PostType, HubType, WaitsForTheLast, PostInv, Pending, Abandoned, Delivered

\* The request a step of it is about.
LEMMA UnderWay ==
    ASSUME PostType, NEW r \in Requests, request[r] # Hub!Free \/ request[r].phase # "free"
    PROVE  request[r] \in Posted
BY FreeOrPosted DEF PostType

\* A step of one request, which answers nobody yet: what is pending or abandoned after it was
\* so before.
LEMMA RequestMoves ==
    ASSUME PostType, WaitsForTheLast, NEW r \in Requests, NEW q \in {Hub!Free} \cup Posted,
           request' = [request EXCEPT ![r] = q],
           q # Hub!Free => request[r] # Hub!Free /\ q.num = request[r].num,
           pusher = r => q # Hub!Free /\ ~q.gone,
           Unanswered(q) => Unanswered(request[r]),
           UNCHANGED <<pusher, posts, pushOk, givenUp>>
    PROVE  /\ PostType' /\ WaitsForTheLast'
           /\ Pending' \subseteq Pending /\ Abandoned' \subseteq Abandoned
           /\ ~Unanswered(q) => Pending' \subseteq Pending \ {r}
                                /\ Abandoned' \subseteq Abandoned \ {r}
           /\ Delivered' = IF pusher = r THEN IF q.phase = "ok" THEN 1 ELSE 0 ELSE Delivered
<1>1. /\ request' \in [Requests -> {Hub!Free} \cup Posted] /\ request'[r] = q
      /\ \A s \in Requests : s # r => request'[s] = request[s]
  BY RequestUpdated
<1>2. PostType'
  BY <1>1, Zenon DEF PostType
<1>3. pusher # 0 => pusher \in Requests
  BY DEF PostType
<1>4. WaitsForTheLast'
  BY <1>1, <1>3, Zenon DEF WaitsForTheLast
<1>5. /\ Pending' \subseteq Pending /\ Abandoned' \subseteq Abandoned
      /\ ~Unanswered(q) => Pending' \subseteq Pending \ {r}
                           /\ Abandoned' \subseteq Abandoned \ {r}
  BY <1>1 DEF Pending, Abandoned
<1>6. Delivered' = IF pusher = r THEN IF q.phase = "ok" THEN 1 ELSE 0 ELSE Delivered
  <2>1. CASE pusher = r
    BY <1>1, <2>1, VideoConstants, Zenon DEF Delivered
  <2>2. CASE pusher # r
    BY <1>1, <1>3, <2>2, Zenon DEF Delivered
  <2>3. QED
    BY <2>1, <2>2
<1>7. QED
  BY <1>2, <1>4, <1>5, <1>6

\* Such a step that the hub does not hear of.
LEMMA RequestStep ==
    ASSUME VideoInv, NEW r \in Requests, NEW q \in {Hub!Free} \cup Posted,
           request' = [request EXCEPT ![r] = q],
           q # Hub!Free => request[r] # Hub!Free /\ q.num = request[r].num,
           pusher = r => q # Hub!Free /\ ~q.gone,
           Unanswered(q) => Unanswered(request[r]),
           q.phase = "ok" => request[r].phase = "ok",
           UNCHANGED <<pusher, posts, pushOk, givenUp>>,
           UNCHANGED <<hub, framesOk, framesBad, answers, back>>,
           UNCHANGED <<clients, viewer, shown>>
    PROVE  VideoInv'
<1>1. PostType /\ HubType /\ WaitsForTheLast /\ PostInv /\ ViewsInv
  BY DEF VideoInv, PostsInv
<1>2. /\ PostType' /\ WaitsForTheLast'
      /\ Pending' \subseteq Pending /\ Abandoned' \subseteq Abandoned
      /\ Delivered' = IF pusher = r THEN IF q.phase = "ok" THEN 1 ELSE 0 ELSE Delivered
  BY <1>1, RequestMoves, Zenon
<1>3. Cardinality(Pending') <= Cardinality(Pending)
      /\ Cardinality(Abandoned') <= Cardinality(Abandoned)
  BY <1>2, PostCounts, SmallerCounts, Zenon
<1>4. Delivered' = 1 => Delivered = 1
  BY <1>2, VideoConstants, Zenon DEF Delivered
<1>5. Delivered \in {0, 1} /\ Delivered' \in {0, 1}
  BY Zenon DEF Delivered
<1>6. HubType'
  BY <1>1, Zenon DEF HubType
<1>7. PostInv'
  <2>1. /\ framesOk + framesBad = answers /\ answers + Cardinality(Pending) <= posts
        /\ pushOk + Delivered <= framesOk /\ hub.num <= posts
        /\ back + Cardinality(Abandoned) <= givenUp
    BY <1>1 DEF PostInv
  <2>2. /\ posts \in Nat /\ pushOk \in Nat /\ givenUp \in Nat
        /\ framesOk \in Nat /\ answers \in Nat /\ back \in Nat
    BY <1>1 DEF PostType, HubType
  <2>3. answers + Cardinality(Pending') <= posts
    BY <1>3, <2>1, <2>2, PostCounts
  <2>4. pushOk + Delivered' <= framesOk
    <3>1. Delivered' = 0 \/ Delivered' = Delivered
      BY <1>4, <1>5
    <3>2. pushOk + 0 <= framesOk
      BY <1>5, <2>1, <2>2
    <3>3. QED
      BY <2>1, <3>1, <3>2, Zenon
  <2>5. back + Cardinality(Abandoned') <= givenUp
    BY <1>3, <2>1, <2>2, PostCounts
  <2>6. QED
    BY <2>1, <2>3, <2>4, <2>5, Zenon DEF PostInv
<1>8. ViewsInv'
  BY <1>1, ViewsKept
<1>9. QED
  BY <1>2, <1>6, <1>7, <1>8 DEF VideoInv, PostsInv

LEMMA VideoArrives ==
    ASSUME VideoInv, NEW r \in Requests, Hub!Arrives(r)
    PROVE  VideoInv'
<1> DEFINE q == [request[r] EXCEPT !.arrived = TRUE]
<1>1. request[r] # Hub!Free /\ request[r] \in Posted /\ WaitsForTheLast
  BY VideoParts, UnderWay DEF Hub!Arrives
<1>2. /\ q \in Posted /\ q.phase = request[r].phase
      /\ q.num = request[r].num /\ q.gone = request[r].gone
  BY <1>1, PostedFields DEF Posted
<1>3. request' = [request EXCEPT ![r] = q]
  BY DEF Hub!Arrives
<1>4. /\ UNCHANGED <<pusher, posts, pushOk, givenUp>>
      /\ UNCHANGED <<hub, framesOk, framesBad, answers, back>>
      /\ UNCHANGED <<clients, viewer, shown>>
  BY Zenon DEF Hub!Arrives, Hub!hubVars, Hub!viewVars
<1> HIDE DEF q
<1>5. /\ pusher = r => q # Hub!Free /\ ~q.gone
      /\ Unanswered(q) => Unanswered(request[r])
  <2>1. q # Hub!Free
    BY <1>2, FreeOrPosted, Zenon DEF Posted
  <2>2. pusher = r => ~request[r].gone
    BY <1>1, VideoConstants, Zenon DEF WaitsForTheLast
  <2>3. QED
    BY <1>2, <2>1, <2>2, Zenon DEF Unanswered
<1>6. QED
  BY <1>1, <1>2, <1>3, <1>4, <1>5, RequestStep, Zenon

LEMMA VideoClosed ==
    ASSUME VideoInv, NEW r \in Requests, Hub!Closed(r)
    PROVE  VideoInv'
<1> DEFINE q == [request[r] EXCEPT !.gone = TRUE]
<1>1. request[r] # Hub!Free /\ request[r] \in Posted /\ pusher # r
  BY VideoParts, UnderWay DEF Hub!Closed
<1>2. q \in Posted /\ q.phase = request[r].phase /\ q.num = request[r].num
  BY <1>1, PostedFields DEF Posted
<1>3. request' = [request EXCEPT ![r] = q]
  BY DEF Hub!Closed
<1>4. /\ UNCHANGED <<pusher, posts, pushOk, givenUp>>
      /\ UNCHANGED <<hub, framesOk, framesBad, answers, back>>
      /\ UNCHANGED <<clients, viewer, shown>>
  BY Zenon DEF Hub!Closed, Hub!hubVars, Hub!viewVars
<1> HIDE DEF q
<1>5. Unanswered(q) => Unanswered(request[r])
  BY <1>2, Zenon DEF Unanswered
<1>6. QED
  BY <1>1, <1>2, <1>3, <1>4, <1>5, RequestStep, Zenon

\* The connection of the request that is waited on is open.
LEMMA VideoEnds ==
    ASSUME VideoInv, NEW r \in Requests, Hub!Ends(r)
    PROVE  VideoInv'
<1>1. request' = [request EXCEPT ![r] = Hub!Free] /\ request[r].gone
  BY Zenon DEF Hub!Ends
<1>2. /\ UNCHANGED <<pusher, posts, pushOk, givenUp>>
      /\ UNCHANGED <<hub, framesOk, framesBad, answers, back>>
      /\ UNCHANGED <<clients, viewer, shown>>
  BY Zenon DEF Hub!Ends, Hub!hubVars, Hub!viewVars
<1>3. Hub!Free.phase = "free"
  BY DEF Hub!Free
<1>4. ~Unanswered(Hub!Free) /\ Hub!Free.phase # "ok"
  BY <1>3 DEF Unanswered
<1>5. pusher # r
  BY <1>1, VideoParts, VideoConstants, Zenon DEF WaitsForTheLast
<1>6. QED
  BY <1>1, <1>2, <1>4, <1>5, RequestStep, Zenon

\* An answer of the endpoint, which the hub counts, and by which a frame given up may have
\* taken the place of a newer one.
LEMMA EndpointAnswers ==
    ASSUME VideoInv, NEW r \in Requests, NEW q \in Posted,
           Unanswered(request[r]), ~Unanswered(q), q.num = request[r].num, ~q.gone \/ pusher # r,
           request' = [request EXCEPT ![r] = q], answers' = answers + 1,
           UNCHANGED <<pusher, posts, pushOk, givenUp>>, UNCHANGED <<clients, viewer, shown>>,
           HubType', hub'.num <= posts,
           \/ framesOk' = framesOk + 1 /\ framesBad' = framesBad
           \/ framesOk' = framesOk /\ framesBad' = framesBad + 1 /\ q.phase # "ok",
           back' = back \/ (back' = back + 1 /\ pusher # r)
    PROVE  VideoInv'
<1>1. PostType /\ HubType /\ WaitsForTheLast /\ PostInv /\ ViewsInv
  BY DEF VideoInv, PostsInv
<1>2. request[r] \in Posted /\ request[r] # Hub!Free /\ q # Hub!Free
  <2>1. request[r].phase # "free"
    BY DEF Unanswered
  <2>2. request[r] \in Posted
    BY <1>1, <2>1, UnderWay, Zenon
  <2>3. \A p \in Posted : p # Hub!Free
    BY DEF Posted, Hub!Free
  <2>4. QED
    BY <2>2, <2>3, Zenon
<1>3. /\ PostType' /\ WaitsForTheLast'
      /\ Pending' \subseteq Pending \ {r} /\ Abandoned' \subseteq Abandoned \ {r}
      /\ Delivered' = IF pusher = r THEN IF q.phase = "ok" THEN 1 ELSE 0 ELSE Delivered
  BY <1>1, <1>2, RequestMoves, Zenon
<1>4. /\ framesOk + framesBad = answers /\ answers + Cardinality(Pending) <= posts
      /\ pushOk + Delivered <= framesOk /\ back + Cardinality(Abandoned) <= givenUp
  BY <1>1 DEF PostInv
<1>5. /\ posts \in Nat /\ pushOk \in Nat /\ givenUp \in Nat
      /\ framesOk \in Nat /\ framesBad \in Nat /\ answers \in Nat /\ back \in Nat
  BY <1>1 DEF PostType, HubType
<1>6. framesOk' + framesBad' = answers'
  BY <1>4, <1>5
<1>7. answers' + Cardinality(Pending') <= posts
  <2>1. r \in Pending
    BY DEF Pending
  <2>2. Cardinality(Pending') <= Cardinality(Pending) - 1
    BY <1>3, <2>1, PostCounts, OneFewer, Zenon
  <2>3. QED
    BY <1>4, <1>5, <2>2, PostCounts
<1>8. pushOk + Delivered' <= framesOk'
  <2>1. Delivered \in {0, 1} /\ (pusher = r => Delivered = 0)
    BY DEF Delivered, Unanswered
  <2>2. Delivered' <= Delivered \/ (Delivered' = 1 /\ Delivered = 0 /\ q.phase = "ok")
    BY <1>3, <2>1
  <2>3. Delivered' \in {0, 1}
    BY <1>3, <2>1
  <2>4. QED
    BY <1>4, <1>5, <2>1, <2>2, <2>3
<1>9. back' + Cardinality(Abandoned') <= givenUp
  <2>1. CASE pusher # r
    <3>1. r \in Abandoned
      BY <2>1 DEF Abandoned
    <3>2. Cardinality(Abandoned') <= Cardinality(Abandoned) - 1
      BY <1>3, <3>1, PostCounts, OneFewer, Zenon
    <3>3. QED
      BY <1>4, <1>5, <3>2, PostCounts
  <2>2. CASE pusher = r
    <3>1. Cardinality(Abandoned') <= Cardinality(Abandoned)
      <4>1. Abandoned' \subseteq Abandoned
        BY <1>3
      <4>2. QED
        BY <4>1, PostCounts, SmallerCounts, Zenon
    <3>2. QED
      BY <1>4, <1>5, <2>2, <3>1, PostCounts
  <2>3. QED
    BY <2>1, <2>2
<1>10. PostInv'
  BY <1>6, <1>7, <1>8, <1>9, Zenon DEF PostInv
<1>11. ViewsInv'
  BY <1>1, ViewsKept
<1>12. QED
  BY <1>3, <1>10, <1>11, Zenon DEF VideoInv, PostsInv

LEMMA VideoGate ==
    ASSUME VideoInv, NEW r \in Requests, Hub!Gate(r)
    PROVE  VideoInv'
<1> DEFINE q(x) == [request[r] EXCEPT !.phase = x]
<1>1. PostType /\ HubType /\ WaitsForTheLast /\ PostInv
  BY VideoParts
<1>2. request[r].phase = "gate" /\ request[r] \in Posted /\ request[r] # Hub!Free
  BY <1>1, UnderWay, FreeOrPosted DEF Hub!Gate, PostType
<1>3. /\ UNCHANGED <<pusher, posts, pushOk, givenUp>> /\ UNCHANGED <<hub, framesOk, back>>
      /\ UNCHANGED <<clients, viewer, shown>>
  BY Zenon DEF Hub!Gate, Hub!viewVars
<1>4. \A x \in {"body", "bad"} :
         /\ q(x) \in Posted /\ q(x).phase = x
         /\ q(x).num = request[r].num /\ q(x).gone = request[r].gone
  BY <1>2, PostedFields DEF Posted
<1>5. \/ request' = [request EXCEPT ![r] = q("bad")] /\ UNCHANGED <<framesBad, answers>>
      \/ request' = [request EXCEPT ![r] = q("body")] /\ UNCHANGED <<framesBad, answers>>
      \/ /\ request' = [request EXCEPT ![r] = q("bad")]
         /\ framesBad' = framesBad + 1 /\ answers' = answers + 1
  BY DEF Hub!Gate
<1> HIDE DEF q
<1>6. pusher = r => ~request[r].gone
  BY <1>1, VideoConstants, Zenon DEF WaitsForTheLast
<1>7. \A x \in {"body", "bad"} :
         q(x) # Hub!Free /\ q(x).phase # "ok" /\ (pusher = r => ~q(x).gone)
  BY <1>4, <1>6, FreeOrPosted DEF Posted
<1>8. Unanswered(request[r]) /\ ~Unanswered(q("bad"))
  BY <1>2, <1>4 DEF Unanswered
<1>9. CASE UNCHANGED <<framesBad, answers>>
  <2>1. PICK x \in {"body", "bad"} : request' = [request EXCEPT ![r] = q(x)]
    BY <1>5, Zenon
  <2> DEFINE n == q(x)
  <2>2. /\ n \in {Hub!Free} \cup Posted /\ request' = [request EXCEPT ![r] = n]
        /\ n.num = request[r].num /\ n # Hub!Free /\ n.phase # "ok"
        /\ pusher = r => ~n.gone
    BY <1>4, <1>7, <2>1, Zenon
  <2> HIDE DEF n
  <2>3. UNCHANGED <<hub, framesOk, framesBad, answers, back>>
    BY <1>3, <1>9, Zenon
  <2>4. QED
    BY <1>2, <1>3, <1>8, <2>2, <2>3, RequestStep, Zenon
<1>10. CASE /\ request' = [request EXCEPT ![r] = q("bad")]
            /\ framesBad' = framesBad + 1 /\ answers' = answers + 1
  <2>1. HubType'
    BY <1>1, <1>3, <1>10 DEF HubType
  <2>2. hub'.num <= posts
    BY <1>1, <1>3, Zenon DEF PostInv
  <2>3. /\ q("bad") \in Posted /\ q("bad").num = request[r].num /\ q("bad").phase # "ok"
        /\ ~q("bad").gone \/ pusher # r
    BY <1>4, <1>7
  <2>4. QED
    BY <1>3, <1>8, <1>10, <2>1, <2>2, <2>3, EndpointAnswers, Zenon
<1>11. QED
  BY <1>5, <1>9, <1>10

LEMMA VideoBody ==
    ASSUME VideoInv, NEW r \in Requests, Hub!Body(r)
    PROVE  VideoInv'
<1> DEFINE q == [request[r] EXCEPT !.phase = IF request[r].kind = "good" THEN "ok" ELSE "bad"]
<1>1. PostType /\ HubType /\ WaitsForTheLast /\ PostInv
  BY VideoParts
<1>2. /\ request[r].phase = "body" /\ ~request[r].gone
      /\ request[r] \in Posted /\ request[r] # Hub!Free
  BY <1>1, UnderWay, FreeOrPosted DEF Hub!Body, PostType
<1>3. /\ UNCHANGED <<pusher, posts, pushOk, givenUp>> /\ UNCHANGED <<clients, viewer, shown>>
      /\ answers' = answers + 1
  BY Zenon DEF Hub!Body, Hub!viewVars
<1>4. /\ q \in Posted /\ q.num = request[r].num /\ ~q.gone
      /\ q.phase = IF request[r].kind = "good" THEN "ok" ELSE "bad"
  BY <1>2, PostedFields DEF Posted
<1>5. request' = [request EXCEPT ![r] = q] /\ Hub!Stores(r)
  BY DEF Hub!Body
<1> HIDE DEF q
<1>6. Unanswered(request[r]) /\ ~Unanswered(q)
  BY <1>2, <1>4 DEF Unanswered
<1>7. /\ request[r].num \in Nat /\ request[r].num <= posts /\ hub.num \in Nat
      /\ hub.num <= posts /\ posts \in Nat
      /\ framesOk \in Nat /\ framesBad \in Nat /\ answers \in Nat /\ back \in Nat
  BY <1>1, <1>2 DEF Posted, PostType, HubType, WaitsForTheLast, PostInv
<1>8. pusher = r => request[r].num = posts
  BY <1>1, VideoConstants, Zenon DEF WaitsForTheLast
<1>9. CASE request[r].kind = "good"
  <2>1. /\ hub' = [num |-> request[r].num, rx |-> 0]
        /\ framesOk' = framesOk + 1 /\ framesBad' = framesBad
        /\ back' = IF request[r].num < hub.num THEN back + 1 ELSE back
    BY <1>5, <1>9 DEF Hub!Stores
  <2>2. HubType' /\ hub'.num <= posts
    BY <1>3, <1>7, <2>1, VideoConstants DEF HubType
  <2>3. back' = back \/ (back' = back + 1 /\ pusher # r)
    BY <1>7, <1>8, <2>1
  <2>4. QED
    BY <1>3, <1>4, <1>5, <1>6, <2>1, <2>2, <2>3, EndpointAnswers, Zenon
<1>10. CASE request[r].kind # "good"
  <2>1. /\ framesBad' = framesBad + 1 /\ UNCHANGED <<hub, framesOk, back>> /\ q.phase # "ok"
    BY <1>4, <1>5, <1>10 DEF Hub!Stores
  <2>2. HubType' /\ hub'.num <= posts
    BY <1>1, <1>3, <1>7, <2>1 DEF HubType
  <2>3. QED
    BY <1>3, <1>4, <1>5, <1>6, <2>1, <2>2, EndpointAnswers, Zenon
<1>11. QED
  BY <1>9, <1>10

LEMMA VideoPost == VideoInv /\ Hub!Post => VideoInv'
<1> SUFFICES ASSUME VideoInv, Hub!Post PROVE VideoInv'
  OBVIOUS
<1>1. PostType /\ HubType /\ WaitsForTheLast /\ PostInv /\ ViewsInv
  BY DEF VideoInv, PostsInv
<1>2. /\ pusher = 0 /\ UNCHANGED <<pushOk, givenUp>>
      /\ UNCHANGED <<hub, framesOk, framesBad, answers, back>>
      /\ UNCHANGED <<clients, viewer, shown>>
  BY Zenon DEF Hub!Post, Hub!hubVars, Hub!viewVars
<1>3. PICK r \in Requests, k \in Kinds : Hub!Posted(r, k)
  BY Zenon DEF Hub!Post
<1> DEFINE q == [phase |-> "gate", kind |-> k, num |-> posts + 1,
                 arrived |-> FALSE, gone |-> FALSE]
<1>4. /\ request[r] = Hub!Free /\ request' = [request EXCEPT ![r] = q]
      /\ pusher' = r /\ posts' = posts + 1
  BY <1>3, Zenon DEF Hub!Posted
<1>5. /\ posts \in Nat /\ pushOk \in Nat /\ givenUp \in Nat
      /\ framesOk \in Nat /\ answers \in Nat /\ back \in Nat /\ hub.num \in Nat
  BY <1>1 DEF PostType, HubType
<1>6. /\ q \in Posted /\ q.num = posts + 1 /\ ~q.gone /\ q.phase = "gate"
      /\ q # Hub!Free
  BY <1>5 DEF Posted, Hub!Free
<1> HIDE DEF q
<1>7. /\ request' \in [Requests -> {Hub!Free} \cup Posted] /\ request'[r] = q
      /\ \A s \in Requests : s # r => request'[s] = request[s]
  BY <1>1, <1>4, <1>6, RequestUpdated
<1>8. PostType'
  BY <1>2, <1>4, <1>5, <1>7 DEF PostType
<1>9. WaitsForTheLast'
  <2>1. \A s \in Requests : s # r /\ request'[s] # Hub!Free => request'[s].num <= posts'
    <3> SUFFICES ASSUME NEW s \in Requests, s # r, request'[s] # Hub!Free
                 PROVE  request'[s].num <= posts'
      OBVIOUS
    <3>1. request[s] \in Posted /\ request[s].num <= posts /\ request'[s] = request[s]
      BY <1>1, <1>7, UnderWay, Zenon DEF WaitsForTheLast
    <3>2. request[s].num \in Nat
      BY <3>1 DEF Posted
    <3>3. QED
      BY <1>4, <1>5, <3>1, <3>2
  <2>2. request'[r].num <= posts'
    BY <1>4, <1>5, <1>6, <1>7
  <2>3. request'[pusher'] # Hub!Free /\ ~request'[pusher'].gone
        /\ request'[pusher'].num = posts'
    BY <1>4, <1>6, <1>7, Zenon
  <2>4. QED
    BY <2>1, <2>2, <2>3, Zenon DEF WaitsForTheLast
<1>10. PostInv'
  <2>1. /\ framesOk + framesBad = answers /\ answers + Cardinality(Pending) <= posts
        /\ pushOk + Delivered <= framesOk /\ hub.num <= posts
        /\ back + Cardinality(Abandoned) <= givenUp
    BY <1>1 DEF PostInv
  <2>2. answers' + Cardinality(Pending') <= posts'
    <3>1. Pending' \subseteq Pending \cup {r}
      BY <1>7 DEF Pending
    <3>2. Cardinality(Pending') <= Cardinality(Pending) + 1
      BY <3>1, PostCounts, OneMore, Zenon
    <3>3. QED
      BY <1>2, <1>4, <1>5, <2>1, <3>2, PostCounts
  <2>3. pushOk' + Delivered' <= framesOk'
    <3>1. Delivered = 0
      BY <1>2 DEF Delivered
    <3>2. Delivered' = 0
      <4>1. request'[pusher'].phase # "ok"
        BY <1>4, <1>6, <1>7
      <4>2. QED
        BY <4>1 DEF Delivered
    <3>3. QED
      BY <1>2, <2>1, <3>1, <3>2
  <2>4. back' + Cardinality(Abandoned') <= givenUp'
    <3>1. Abandoned' \subseteq Abandoned
      BY <1>2, <1>4, <1>7, VideoConstants DEF Abandoned
    <3>2. Cardinality(Abandoned') <= Cardinality(Abandoned)
      BY <3>1, PostCounts, SmallerCounts, Zenon
    <3>3. QED
      BY <1>2, <1>5, <2>1, <3>2, PostCounts
  <2>5. hub'.num <= posts'
    BY <1>2, <1>4, <1>5, <2>1
  <2>6. framesOk' + framesBad' = answers'
    BY <1>2, <2>1
  <2>7. QED
    BY <2>2, <2>3, <2>4, <2>5, <2>6, Zenon DEF PostInv
<1>11. HubType' /\ ViewsInv'
  BY <1>1, <1>2, ViewsKept, Zenon DEF HubType
<1>12. QED
  BY <1>8, <1>9, <1>10, <1>11, Zenon DEF VideoInv, PostsInv

\* The frame of a post that is given up may come yet.
LEMMA VideoGiveUp == VideoInv /\ Hub!GiveUp => VideoInv'
<1> SUFFICES ASSUME VideoInv, Hub!GiveUp PROVE VideoInv'
  OBVIOUS
<1>1. PostType /\ HubType /\ WaitsForTheLast /\ PostInv /\ ViewsInv
  BY DEF VideoInv, PostsInv
<1>2. /\ pusher' = 0 /\ givenUp' = givenUp + 1 /\ UNCHANGED <<request, posts, pushOk>>
      /\ UNCHANGED <<hub, framesOk, framesBad, answers, back>>
      /\ UNCHANGED <<clients, viewer, shown>>
  BY Zenon DEF Hub!GiveUp, Hub!hubVars, Hub!viewVars
<1>3. /\ posts \in Nat /\ pushOk \in Nat /\ givenUp \in Nat
      /\ framesOk \in Nat /\ answers \in Nat /\ back \in Nat
  BY <1>1 DEF PostType, HubType
<1>4. PostType' /\ WaitsForTheLast' /\ HubType'
  <2>1. givenUp' \in Nat
    BY <1>2, <1>3
  <2>2. QED
    BY <1>1, <1>2, <2>1 DEF PostType, HubType, WaitsForTheLast
<1>5. PostInv'
  <2>1. /\ framesOk + framesBad = answers /\ answers + Cardinality(Pending) <= posts
        /\ pushOk + Delivered <= framesOk /\ hub.num <= posts
        /\ back + Cardinality(Abandoned) <= givenUp
    BY <1>1 DEF PostInv
  <2>2. Pending' = Pending
    BY <1>2, Zenon DEF Pending
  <2>3. pushOk' + Delivered' <= framesOk'
    <3>1. Delivered \in {0, 1} /\ Delivered' = 0
      BY <1>2 DEF Delivered
    <3>2. QED
      BY <1>2, <1>3, <2>1, <3>1
  <2>4. back' + Cardinality(Abandoned') <= givenUp'
    <3>1. Abandoned' \subseteq Abandoned \cup {pusher}
      BY <1>2 DEF Abandoned
    <3>2. Cardinality(Abandoned') <= Cardinality(Abandoned) + 1
      BY <3>1, PostCounts, OneMore, Zenon
    <3>3. QED
      BY <1>2, <1>3, <2>1, <3>2, PostCounts
  <2>5. QED
    BY <1>2, <2>1, <2>2, <2>3, <2>4, Zenon DEF PostInv
<1>6. ViewsInv'
  BY <1>1, <1>2, ViewsKept
<1>7. QED
  BY <1>4, <1>5, <1>6, Zenon DEF VideoInv, PostsInv

LEMMA VideoAnswered == VideoInv /\ Hub!Answered => VideoInv'
<1> SUFFICES ASSUME VideoInv, Hub!Answered PROVE VideoInv'
  OBVIOUS
<1>1. PostType /\ HubType /\ WaitsForTheLast /\ PostInv /\ ViewsInv
  BY DEF VideoInv, PostsInv
<1>2. /\ pusher # 0 /\ pusher' = 0 /\ UNCHANGED <<posts, givenUp>>
      /\ request' = [request EXCEPT ![pusher] = Hub!Free]
      /\ UNCHANGED <<hub, framesOk, framesBad, answers, back>>
      /\ UNCHANGED <<clients, viewer, shown>>
  BY Zenon DEF Hub!Answered, Hub!hubVars, Hub!viewVars
<1>3. pushOk' = IF request[pusher].phase = "ok" THEN pushOk + 1 ELSE pushOk
  BY Zenon DEF Hub!Answered
<1>4. /\ pusher \in Requests /\ posts \in Nat /\ pushOk \in Nat /\ givenUp \in Nat
      /\ framesOk \in Nat /\ answers \in Nat /\ back \in Nat
  BY <1>1, <1>2 DEF PostType, HubType
<1>5. /\ request' \in [Requests -> {Hub!Free} \cup Posted] /\ request'[pusher] = Hub!Free
      /\ \A s \in Requests : s # pusher => request'[s] = request[s]
  BY <1>1, <1>2, <1>4, RequestUpdated
<1>6. PostType' /\ WaitsForTheLast' /\ HubType'
  <2>1. pushOk' \in Nat
    BY <1>3, <1>4
  <2>2. PostType'
    BY <1>2, <1>4, <1>5, <2>1 DEF PostType
  <2>3. WaitsForTheLast'
    BY <1>1, <1>2, <1>5, Zenon DEF WaitsForTheLast
  <2>4. HubType'
    BY <1>1, <1>2, Zenon DEF HubType
  <2>5. QED
    BY <2>2, <2>3, <2>4
<1>7. PostInv'
  <2>1. /\ framesOk + framesBad = answers /\ answers + Cardinality(Pending) <= posts
        /\ pushOk + Delivered <= framesOk /\ hub.num <= posts
        /\ back + Cardinality(Abandoned) <= givenUp
    BY <1>1 DEF PostInv
  <2>2. \A s \in Requests : Unanswered(request'[s]) => Unanswered(request[s]) /\ s # pusher
    <3>1. ~Unanswered(Hub!Free)
      BY DEF Unanswered, Hub!Free
    <3>2. QED
      BY <1>5, <3>1, Zenon
  <2>3. Pending' \subseteq Pending /\ Abandoned' \subseteq Abandoned
    BY <1>2, <2>2 DEF Pending, Abandoned
  <2>4. Cardinality(Pending') <= Cardinality(Pending)
        /\ Cardinality(Abandoned') <= Cardinality(Abandoned)
    BY <2>3, PostCounts, SmallerCounts, Zenon
  <2>5. pushOk' + Delivered' <= framesOk
    <3>1. Delivered' = 0 /\ Delivered = IF request[pusher].phase = "ok" THEN 1 ELSE 0
      BY <1>2, Zenon DEF Delivered
    <3>2. QED
      BY <1>3, <1>4, <2>1, <3>1
  <2>6. answers + Cardinality(Pending') <= posts
    BY <1>4, <2>1, <2>4, PostCounts
  <2>7. back + Cardinality(Abandoned') <= givenUp
    BY <1>4, <2>1, <2>4, PostCounts
  <2>8. QED
    BY <1>2, <2>1, <2>5, <2>6, <2>7, Zenon DEF PostInv
<1>8. ViewsInv'
  BY <1>1, <1>2, ViewsKept
<1>9. QED
  BY <1>6, <1>7, <1>8, Zenon DEF VideoInv, PostsInv
-----------------------------------------------------------------------------
(* The streams, and time.                                                  *)

LEMMA StreamingIsFinite ==
    /\ IsFiniteSet(Streaming) /\ Cardinality(Streaming) \in 0 .. Cardinality(Streams)
    /\ Cardinality(Streaming) \in Nat
<1>1. Streaming \subseteq Streams
  BY DEF Streaming
<1>2. /\ IsFiniteSet(Streaming) /\ Cardinality(Streaming) \in Nat
      /\ Cardinality(Streams) \in Nat /\ Cardinality(Streaming) <= Cardinality(Streams)
  BY <1>1, VideoConstants, FS_Subset, FS_CardinalityType, Zenon
<1>3. QED
  BY <1>2

LEMMA StreamingChanges ==
    ASSUME ViewType, NEW v \in Streams, NEW x \in Views, viewer' = [viewer EXCEPT ![v] = x]
    PROVE  /\ Streaming' = IF x.phase \in {"part", "sending", "waiting"} THEN Streaming \cup {v}
                           ELSE Streaming \ {v}
           /\ v \in Streaming <=> viewer[v].phase \in {"part", "sending", "waiting"}
<1>1. /\ viewer' \in [Streams -> Views] /\ viewer'[v] = x
      /\ \A w \in Streams : w # v => viewer'[w] = viewer[w]
  BY Updated DEF ViewType
<1>2. QED
  BY <1>1 DEF Streaming

\* A step of viewer v: its stream, its part and the count of the streams.
LEMMA ViewerStep ==
    ASSUME VideoInv, NEW v \in Streams, NEW x \in Views, NEW a \in 0 .. Hub!Synthetic,
           Recent(x, a), viewer' = [viewer EXCEPT ![v] = x], shown' = [shown EXCEPT ![v] = a],
           clients' = Cardinality(Streaming'),
           UNCHANGED <<pusher, request, posts, pushOk, givenUp>>,
           UNCHANGED <<hub, framesOk, framesBad, answers, back>>
    PROVE  VideoInv'
<1>1. PostsInv /\ ViewType /\ StreamInv
  BY DEF VideoInv, ViewsInv
<1>2. /\ viewer' \in [Streams -> Views] /\ viewer'[v] = x
      /\ \A w \in Streams : w # v => viewer'[w] = viewer[w]
  BY <1>1, Updated DEF ViewType
<1>3. /\ shown' \in [Streams -> 0 .. Hub!Synthetic] /\ shown'[v] = a
      /\ \A w \in Streams : w # v => shown'[w] = shown[w]
  BY <1>1, Updated DEF ViewType
<1>4. clients' \in Nat
  <2>1. Streaming' \subseteq Streams
    BY DEF Streaming
  <2>2. QED
    BY <2>1, VideoConstants, FS_Subset, FS_CardinalityType, Zenon
<1>5. ViewType'
  BY <1>2, <1>3, <1>4, Zenon DEF ViewType
<1>6. \A w \in Streams : Recent(viewer'[w], shown'[w])
  BY <1>1, <1>2, <1>3, Zenon DEF StreamInv
<1>7. StreamInv'
  BY <1>6, Zenon DEF StreamInv, Recent
<1>8. QED
  BY <1>1, <1>5, <1>7, PostsKept, Zenon DEF VideoInv, ViewsInv

\* The stream q in another phase, with its next part due in d, or held up by its viewer.
LEMMA ViewPhase ==
    ASSUME NEW q \in Views, NEW x \in {"off", "opened", "part", "sending", "waiting"}
    PROVE  [q EXCEPT !.phase = x] \in Views /\ [q EXCEPT !.phase = x].phase = x
BY DEF Views

LEMMA ViewDue ==
    ASSUME NEW q \in Views, NEW d \in 0 .. Period + Lag
    PROVE  LET n == [q EXCEPT !.phase = "waiting", !.due = d] IN
           n \in Views /\ n.phase = "waiting" /\ n.due = d /\ n.slow = q.slow
BY DEF Views

LEMMA ViewLater ==
    ASSUME NEW w \in Views
    PROVE  LET n == [w EXCEPT !.due = IF w.due = 0 THEN 0 ELSE w.due - 1,
                              !.slow = w.slow \/ w.phase = "sending"]
           IN  /\ n \in Views /\ n.phase = w.phase
               /\ n.due = (IF w.due = 0 THEN 0 ELSE w.due - 1)
               /\ n.slow <=> (w.slow \/ w.phase = "sending")
<1> DEFINE d == IF w.due = 0 THEN 0 ELSE w.due - 1
           s == w.slow \/ w.phase = "sending"
<1>1. d \in 0 .. Period + Lag
  BY VideoConstants DEF Views
<1>2. s \in BOOLEAN
  OBVIOUS
<1> HIDE DEF d, s
<1>3. PICK z \in BOOLEAN : z = s
  BY <1>2
<1>4. /\ [w EXCEPT !.due = d, !.slow = z] \in Views
      /\ [w EXCEPT !.due = d, !.slow = z].phase = w.phase
      /\ [w EXCEPT !.due = d, !.slow = z].due = d
      /\ [w EXCEPT !.due = d, !.slow = z].slow = z
  BY <1>1 DEF Views
<1>5. QED
  BY <1>3, <1>4 DEF d, s

LEMMA OneLess == ASSUME NEW n \in Nat \ {0} PROVE Hub!Max({0, n - 1}) = n - 1
<1> DEFINE both == {0, n - 1}
<1>1. \E x \in both : \A y \in both : x >= y
  OBVIOUS
<1>2. Hub!Max(both) \in both /\ \A y \in both : Hub!Max(both) >= y
  BY <1>1 DEF Hub!Max
<1>3. QED
  BY <1>2

\* What is known of the streams before a step of v.
LEMMA ViewerBefore ==
    ASSUME VideoInv, NEW v \in Streams
    PROVE  /\ ViewType /\ viewer[v] \in Views /\ Recent(viewer[v], shown[v])
           /\ shown[v] \in 0 .. Hub!Synthetic /\ shown = [shown EXCEPT ![v] = shown[v]]
           /\ Hub!Synthetic \in 0 .. Hub!Synthetic
           /\ clients = Cardinality(Streaming) /\ clients \in Nat /\ IsFiniteSet(Streaming)
<1>1. ViewType /\ StreamInv
  BY VideoParts
<1>2. viewer[v] \in Views /\ shown[v] \in 0 .. Hub!Synthetic /\ clients \in Nat
      /\ shown = [shown EXCEPT ![v] = shown[v]]
  BY <1>1 DEF ViewType
<1>3. Recent(viewer[v], shown[v]) /\ clients = Cardinality(Streaming)
  BY <1>1 DEF StreamInv
<1>4. QED
  BY <1>1, <1>2, <1>3, StreamingIsFinite, VideoConstants

LEMMA VideoOpen ==
    ASSUME VideoInv, NEW v \in Streams, Hub!Open(v)
    PROVE  VideoInv'
<1> DEFINE x == [viewer[v] EXCEPT !.phase = "opened"]
<1>1. /\ viewer[v].phase = "off" /\ UNCHANGED <<clients, shown>>
      /\ UNCHANGED <<pusher, request, posts, pushOk, givenUp>>
      /\ UNCHANGED <<hub, framesOk, framesBad, answers, back>>
  BY Zenon DEF Hub!Open, Hub!requestVars, Hub!hubVars
<1>2. viewer' = [viewer EXCEPT ![v] = x]
  BY DEF Hub!Open
<1>3. x \in Views /\ x.phase = "opened"
  BY ViewerBefore, ViewPhase
<1> HIDE DEF x
<1>4. Streaming' = Streaming
  <2>1. Streaming' = Streaming \ {v} /\ v \notin Streaming
    BY <1>1, <1>2, <1>3, ViewerBefore, StreamingChanges
  <2>2. QED
    BY <2>1
<1>5. Recent(x, shown[v])
  BY <1>1, <1>3, ViewerBefore DEF Recent
<1>6. shown' = [shown EXCEPT ![v] = shown[v]] /\ clients' = Cardinality(Streaming')
  BY <1>1, <1>4, ViewerBefore, Zenon
<1>7. QED
  BY <1>1, <1>2, <1>3, <1>5, <1>6, ViewerBefore, ViewerStep, Zenon

LEMMA VideoBegin ==
    ASSUME VideoInv, NEW v \in Streams, Hub!Begin(v)
    PROVE  VideoInv'
<1> DEFINE x == [viewer[v] EXCEPT !.phase = "part"]
<1>1. /\ viewer[v].phase = "opened" /\ clients' = clients + 1 /\ shown' = shown
      /\ UNCHANGED <<pusher, request, posts, pushOk, givenUp>>
      /\ UNCHANGED <<hub, framesOk, framesBad, answers, back>>
  BY Zenon DEF Hub!Begin, Hub!requestVars, Hub!hubVars
<1>2. viewer' = [viewer EXCEPT ![v] = x]
  BY DEF Hub!Begin
<1>3. x \in Views /\ x.phase = "part"
  BY ViewerBefore, ViewPhase
<1> HIDE DEF x
<1>4. Streaming' = Streaming \cup {v} /\ v \notin Streaming
  BY <1>1, <1>2, <1>3, ViewerBefore, StreamingChanges
<1>5. Cardinality(Streaming') = Cardinality(Streaming) + 1
  BY <1>4, ViewerBefore, FS_AddElement, Zenon
<1>6. Recent(x, shown[v])
  BY <1>1, <1>3, ViewerBefore DEF Recent
<1>7. shown' = [shown EXCEPT ![v] = shown[v]] /\ clients' = Cardinality(Streaming')
  BY <1>1, <1>5, ViewerBefore, Zenon
<1>8. QED
  BY <1>1, <1>2, <1>3, <1>6, <1>7, ViewerBefore, ViewerStep, Zenon

\* What a stream sends was received within frame_fresh_s.
LEMMA VideoPart ==
    ASSUME VideoInv, NEW v \in Streams, Hub!Part(v)
    PROVE  VideoInv'
<1> DEFINE x == [phase |-> "sending", due |-> 0, slow |-> FALSE]
<1>1. /\ viewer[v].phase \in {"part", "waiting"} /\ clients' = clients
      /\ UNCHANGED <<pusher, request, posts, pushOk, givenUp>>
      /\ UNCHANGED <<hub, framesOk, framesBad, answers, back>>
      /\ shown' = [shown EXCEPT ![v] = Hub!Latest] /\ viewer' = [viewer EXCEPT ![v] = x]
  BY Zenon DEF Hub!Part, Hub!requestVars, Hub!hubVars
<1>2. x \in Views /\ x.phase = "sending"
  BY VideoConstants DEF Views
<1> HIDE DEF x
<1>3. /\ Hub!Latest \in 0 .. Hub!Synthetic
      /\ Hub!Latest # Hub!Synthetic => Hub!Latest <= Fresh
  BY VideoParts, VideoConstants DEF HubType, Hub!Latest
<1>4. Streaming' = Streaming
  <2>1. Streaming' = Streaming \cup {v} /\ v \in Streaming
    BY <1>1, <1>2, ViewerBefore, StreamingChanges
  <2>2. QED
    BY <2>1
<1>5. Recent(x, Hub!Latest)
  BY <1>2, <1>3 DEF Recent
<1>6. clients' = Cardinality(Streaming')
  BY <1>1, <1>4, ViewerBefore, Zenon
<1>7. QED
  BY <1>1, <1>2, <1>3, <1>5, <1>6, ViewerStep, Zenon

LEMMA VideoSent ==
    ASSUME VideoInv, NEW v \in Streams, Hub!Sent(v)
    PROVE  VideoInv'
<1> DEFINE x == [viewer[v] EXCEPT !.phase = "waiting", !.due = Period + Lag]
<1>1. /\ viewer[v].phase = "sending" /\ UNCHANGED <<clients, shown>>
      /\ UNCHANGED <<pusher, request, posts, pushOk, givenUp>>
      /\ UNCHANGED <<hub, framesOk, framesBad, answers, back>>
  BY Zenon DEF Hub!Sent, Hub!requestVars, Hub!hubVars
<1>2. viewer' = [viewer EXCEPT ![v] = x]
  BY DEF Hub!Sent
<1>3. /\ x \in Views /\ x.phase = "waiting" /\ x.due = Period + Lag
      /\ x.slow = viewer[v].slow
  <2>1. Period + Lag \in 0 .. Period + Lag
    BY VideoConstants
  <2>2. viewer[v] \in Views
    BY ViewerBefore, Zenon
  <2>3. QED
    BY <2>1, <2>2, ViewDue, Zenon
<1> HIDE DEF x
<1>4. Streaming' = Streaming
  <2>1. Streaming' = Streaming \cup {v} /\ v \in Streaming
    BY <1>1, <1>2, <1>3, ViewerBefore, StreamingChanges
  <2>2. QED
    BY <2>1
<1>5. Recent(x, shown[v])
  <2>1. /\ ~viewer[v].slow /\ shown[v] # Hub!Synthetic => shown[v] <= Fresh
        /\ shown[v] \in Nat
    BY <1>1, ViewerBefore, VideoConstants DEF Recent
  <2>2. QED
    BY <1>3, <2>1, VideoConstants DEF Recent
<1>6. shown' = [shown EXCEPT ![v] = shown[v]] /\ clients' = Cardinality(Streaming')
  BY <1>1, <1>4, ViewerBefore, Zenon
<1>7. QED
  BY <1>1, <1>2, <1>3, <1>5, <1>6, ViewerBefore, ViewerStep, Zenon

LEMMA VideoLeave ==
    ASSUME VideoInv, NEW v \in Streams, Hub!Leave(v)
    PROVE  VideoInv'
<1> DEFINE x == [phase |-> "off", due |-> 0, slow |-> FALSE]
<1>1. /\ viewer[v].phase # "off"
      /\ UNCHANGED <<pusher, request, posts, pushOk, givenUp>>
      /\ UNCHANGED <<hub, framesOk, framesBad, answers, back>>
      /\ shown' = [shown EXCEPT ![v] = Hub!Synthetic] /\ viewer' = [viewer EXCEPT ![v] = x]
      /\ clients' = IF viewer[v].phase = "opened" THEN clients ELSE Hub!Max({0, clients - 1})
  BY Zenon DEF Hub!Leave, Hub!requestVars, Hub!hubVars
<1>2. x \in Views /\ x.phase = "off"
  BY VideoConstants DEF Views
<1> HIDE DEF x
<1>3. /\ Streaming' = Streaming \ {v}
      /\ v \in Streaming <=> viewer[v].phase \in {"part", "sending", "waiting"}
  BY <1>1, <1>2, ViewerBefore, StreamingChanges
<1>4. clients' = Cardinality(Streaming')
  <2>1. CASE viewer[v].phase = "opened"
    <3>1. clients' = clients /\ Streaming' = Streaming
      BY <1>1, <1>3, <2>1
    <3>2. QED
      BY <3>1, ViewerBefore, Zenon
  <2>2. CASE viewer[v].phase # "opened"
    <3>1. v \in Streaming
      <4>1. viewer[v].phase \in {"off", "opened", "part", "sending", "waiting"}
        BY ViewerBefore DEF Views
      <4>2. QED
        BY <1>1, <1>3, <2>2, <4>1
    <3>2. Cardinality(Streaming') = Cardinality(Streaming) - 1
      BY <1>3, <3>1, ViewerBefore, FS_RemoveElement, Zenon
    <3>3. clients \in Nat \ {0}
      <4>1. Streaming # {} /\ IsFiniteSet(Streaming)
        BY <3>1, ViewerBefore
      <4>2. Cardinality(Streaming) # 0
        BY <4>1, FS_EmptySet, Zenon
      <4>3. QED
        BY <4>2, ViewerBefore
    <3>4. clients' = clients - 1
      BY <1>1, <2>2, <3>3, OneLess
    <3>5. QED
      BY <3>2, <3>4, ViewerBefore, Zenon
  <2>3. QED
    BY <2>1, <2>2
<1>5. Recent(x, Hub!Synthetic)
  BY <1>2 DEF Recent
<1>6. QED
  BY <1>1, <1>2, <1>4, <1>5, ViewerBefore, ViewerStep, Zenon

\* What is left of the sleep of the stream w goes down as the age a goes up.
LEMMA RecentLater ==
    ASSUME NEW w \in Views, NEW a \in 0 .. Hub!Synthetic, Recent(w, a),
           w.phase = "waiting" => w.due > 0, NEW x \in Views, x.phase = w.phase,
           x.due = (IF w.due = 0 THEN 0 ELSE w.due - 1),
           x.slow <=> (w.slow \/ w.phase = "sending")
    PROVE  Recent(x, Hub!Older(a))
<1>1. w.due \in Nat
  BY VideoConstants DEF Views
<1>2. CASE a = Hub!Synthetic
  BY <1>2, OlderGrows DEF Recent
<1>3. CASE a # Hub!Synthetic
  <2>1. x.phase \notin {"off", "opened", "part"}
    BY <1>3 DEF Recent
  <2>2. SUFFICES ASSUME ~x.slow, x.phase = "waiting"
                 PROVE  Hub!Older(a) + x.due <= Fresh + Period + Lag
    BY <2>1 DEF Recent
  <2>3. a + w.due <= Fresh + Period + Lag /\ x.due = w.due - 1 /\ w.due > 0
    <3>1. ~w.slow /\ w.phase = "waiting"
      BY <2>2, Zenon
    <3>2. a + w.due <= Fresh + Period + Lag
      BY <1>3, <3>1, Zenon DEF Recent
    <3>3. QED
      BY <1>1, <3>1, <3>2
  <2>4. a < Hub!OldAge /\ a \in Nat
    BY <1>1, <2>3, VideoConstants
  <2>5. QED
    BY <1>1, <2>3, <2>4, OlderGrows, VideoConstants
<1>4. QED
  BY <1>2, <1>3

LEMMA VideoTick == VideoInv /\ Hub!Tick => VideoInv'
<1> SUFFICES ASSUME VideoInv, Hub!Tick PROVE VideoInv'
  OBVIOUS
<1>1. PostType /\ HubType /\ WaitsForTheLast /\ PostInv /\ ViewType /\ StreamInv
  BY VideoParts
<1>2. /\ \A v \in Streams : viewer[v].phase = "waiting" => viewer[v].due > 0
      /\ UNCHANGED <<pusher, request, posts, pushOk, givenUp>>
      /\ UNCHANGED <<framesOk, framesBad, answers, back, clients>>
      /\ shown' = [v \in Streams |-> Hub!Older(shown[v])]
  BY Zenon DEF Hub!Tick, Hub!requestVars
<1>3. hub' = [hub EXCEPT !.rx = Hub!Older(hub.rx)]
  BY Zenon DEF Hub!Tick
<1> DEFINE aged(v) == [viewer[v] EXCEPT !.due = IF viewer[v].due = 0 THEN 0
                                                ELSE viewer[v].due - 1,
                                        !.slow = viewer[v].slow \/ viewer[v].phase = "sending"]
<1>4. viewer' = [v \in Streams |-> aged(v)]
  BY Zenon DEF Hub!Tick
<1> HIDE DEF aged
<1>5. HubType' /\ hub'.num = hub.num
  <2>1. Hub!Older(hub.rx) \in 0 .. Hub!Synthetic
    <3>1. hub.rx \in 0 .. Hub!Synthetic
      BY <1>1 DEF HubType
    <3>2. QED
      BY <3>1, OlderGrows
  <2> DEFINE o == Hub!Older(hub.rx)
  <2>2. o \in 0 .. Hub!Synthetic /\ hub' = [hub EXCEPT !.rx = o]
    BY <1>3, <2>1
  <2> HIDE DEF o
  <2>3. hub' \in [num : Nat, rx : 0 .. Hub!Synthetic] /\ hub'.num = hub.num
    BY <1>1, <2>2 DEF HubType
  <2>4. QED
    BY <1>1, <1>2, <2>3, Zenon DEF HubType
<1>6. PostsInv'
  BY <1>1, <1>2, <1>5, Zenon
     DEF PostsInv, PostType, WaitsForTheLast, PostInv, Pending, Abandoned, Delivered
<1>7. \A v \in Streams :
        /\ aged(v) \in Views /\ aged(v).phase = viewer[v].phase
        /\ Recent(aged(v), Hub!Older(shown[v]))
  <2> SUFFICES ASSUME NEW v \in Streams
               PROVE  /\ aged(v) \in Views /\ aged(v).phase = viewer[v].phase
                      /\ Recent(aged(v), Hub!Older(shown[v]))
    BY Zenon
  <2>1. /\ aged(v) \in Views /\ aged(v).phase = viewer[v].phase
        /\ aged(v).due = (IF viewer[v].due = 0 THEN 0 ELSE viewer[v].due - 1)
        /\ aged(v).slow <=> (viewer[v].slow \/ viewer[v].phase = "sending")
    BY ViewerBefore, ViewLater, Zenon DEF aged
  <2>2. Recent(aged(v), Hub!Older(shown[v]))
    BY <1>2, <2>1, ViewerBefore, RecentLater, Zenon
  <2>3. QED
    BY <2>1, <2>2
<1>8. \A v \in Streams : viewer'[v] = aged(v) /\ shown'[v] = Hub!Older(shown[v])
  BY <1>2, <1>4
<1>9. ViewType'
  <2>1. viewer' \in [Streams -> Views]
    BY <1>4, <1>7
  <2>2. \A v \in Streams : Hub!Older(shown[v]) \in 0 .. Hub!Synthetic
    BY ViewerBefore, OlderGrows
  <2>3. shown' \in [Streams -> 0 .. Hub!Synthetic]
    BY <1>2, <2>2
  <2>4. QED
    BY <1>1, <1>2, <2>1, <2>3, Zenon DEF ViewType
<1>10. \A v \in Streams : Recent(viewer'[v], shown'[v])
  BY <1>7, <1>8, Zenon
<1>11. Streaming' = Streaming
  BY <1>7, <1>8 DEF Streaming
<1>12. StreamInv'
  BY <1>1, <1>2, <1>10, <1>11, Zenon DEF StreamInv, Recent
<1>13. QED
  BY <1>6, <1>9, <1>12 DEF VideoInv, ViewsInv
-----------------------------------------------------------------------------
LEMMA VideoStutter ==
    ASSUME VideoInv, UNCHANGED video
    PROVE  VideoInv'
<1>1. /\ UNCHANGED <<pusher, request, posts, pushOk, givenUp>>
      /\ UNCHANGED <<hub, framesOk, framesBad, answers, back>>
      /\ UNCHANGED <<clients, viewer, shown>>
  BY Zenon DEF video
<1>2. QED
  BY <1>1, ViewsKept, PostsKept, Zenon DEF VideoInv

LEMMA VideoStep == VideoInv /\ Hub!Next => VideoInv'
BY VideoPost, VideoGiveUp, VideoAnswered, VideoTick, VideoArrives, VideoClosed, VideoGate,
   VideoBody, VideoEnds, VideoOpen, VideoBegin, VideoPart, VideoSent, VideoLeave
   DEF Hub!Next, Hub!Handler

LEMMA VideoAlways == BackendSpec => []VideoInv
<1>1. BackendInit => VideoInv
  BY VideoInit DEF BackendInit
<1>2. VideoInv /\ [BackendNext]_<<part, vars, gate, video, ingest, sweep>> => VideoInv'
  <2> SUFFICES ASSUME VideoInv, [BackendNext]_<<part, vars, gate, video, ingest, sweep>>
               PROVE  VideoInv'
    OBVIOUS
  <2>1. Hub!Next \/ UNCHANGED video
    BY Zenon DEF BackendNext
  <2>2. QED
    BY <2>1, VideoStep, VideoStutter
<1>3. QED
  BY <1>1, <1>2, PTL DEF BackendSpec

LEMMA VideoTypeOK == VideoInv => Hub!TypeOK
<1> SUFFICES ASSUME VideoInv PROVE Hub!TypeOK
  OBVIOUS
<1>1. PostType /\ HubType /\ WaitsForTheLast /\ PostInv /\ ViewType /\ StreamInv
  BY VideoParts
<1>2. clients \in 0 .. Hub!Cardinality(Streams)
  <2>1. clients \in 0 .. Cardinality(Streams)
    BY <1>1, StreamingIsFinite, Zenon DEF StreamInv
  <2>2. QED
    BY <2>1, HubCardinality, Zenon
<1>3. hub \in [num : 0 .. posts, rx : 0 .. Hub!Synthetic]
  <2>1. hub.num \in 0 .. posts
    BY <1>1 DEF PostType, HubType, PostInv
  <2>2. QED
    BY <1>1, <2>1 DEF HubType
<1>4. \A r \in Requests : request[r] = Hub!Free \/
         request[r] \in [phase : {"gate", "body", "ok", "bad"}, kind : Kinds, num : 1 .. posts,
                         arrived : BOOLEAN, gone : BOOLEAN]
  <2> SUFFICES ASSUME NEW r \in Requests, request[r] # Hub!Free
               PROVE  request[r] \in [phase : {"gate", "body", "ok", "bad"}, kind : Kinds,
                                      num : 1 .. posts, arrived : BOOLEAN, gone : BOOLEAN]
    OBVIOUS
  <2>1. request[r] \in Posted /\ request[r].num <= posts /\ posts \in Nat
    BY <1>1, UnderWay DEF WaitsForTheLast, PostType
  <2>2. request[r].num \in 1 .. posts
    BY <2>1 DEF Posted
  <2>3. QED
    BY <2>1, <2>2 DEF Posted
<1>5. /\ pusher \in {0} \cup Requests /\ shown \in [Streams -> 0 .. Hub!Synthetic]
      /\ viewer \in [Streams -> [phase : {"off", "opened", "part", "sending", "waiting"},
                                 due : 0 .. Period + Lag, slow : BOOLEAN]]
  BY <1>1, Zenon DEF PostType, ViewType, Views
<1>6. QED
  BY <1>2, <1>3, <1>4, <1>5, Zenon DEF Hub!TypeOK

LEMMA CountersAreTrue == VideoInv => Hub!PostsAreCounted /\ Hub!ClientsAreCounted
<1> SUFFICES ASSUME VideoInv PROVE Hub!PostsAreCounted /\ Hub!ClientsAreCounted
  OBVIOUS
<1>1. /\ framesOk + framesBad = answers /\ answers + Cardinality(Pending) <= posts
      /\ pushOk + Delivered <= framesOk /\ clients = Cardinality(Streaming)
  BY VideoParts DEF PostInv, StreamInv
<1>2. pushOk \in Nat /\ answers \in Nat /\ posts \in Nat /\ framesOk \in Nat
  BY VideoParts DEF PostType, HubType
<1>3. Delivered \in {0, 1}
  BY Zenon DEF Delivered
<1>4. Hub!PostsAreCounted
  BY <1>1, <1>2, <1>3, PostCounts DEF Hub!PostsAreCounted
<1>5. Hub!ClientsAreCounted
  BY <1>1, HubCardinality, Zenon DEF Hub!ClientsAreCounted, Streaming
<1>6. QED
  BY <1>4, <1>5

\* What is sent is recent, and what sleeps is replaced in time.
LEMMA RecentIsShown == VideoInv => Hub!LiveViewIsRecent
<1> SUFFICES ASSUME VideoInv, NEW v \in Streams, ~viewer[v].slow, shown[v] # Hub!Synthetic
             PROVE  shown[v] <= Fresh + Period + Lag
  BY Zenon DEF Hub!LiveViewIsRecent
<1>1. viewer[v].phase \in {"sending", "waiting"} /\ viewer[v].due \in Nat /\ shown[v] \in Nat
  BY ViewerBefore, VideoConstants DEF Views, Recent
<1>2. QED
  BY <1>1, ViewerBefore, VideoConstants DEF Recent

\* A viewer that takes its parts has no frame on the screen as the live view that was received
\* longer ago than frame_fresh_s, a period and a lag, and posts and streams are counted right,
\* however posts overlap, fail, are given up and come in late and viewers come and go.
THEOREM LiveViewIsAlwaysRecent == BackendSpec => []LiveViewIsRecent
<1>1. VideoInv => LiveViewIsRecent
  BY VideoTypeOK, CountersAreTrue, RecentIsShown, Zenon DEF LiveViewIsRecent
<1>2. QED
  BY <1>1, VideoAlways, PTL

\* A frame takes the place of a newer one at most once for each post that was given up, in
\* whatever order the requests of posts given up get past the gate and to the hub.
THEOREM ViewGoesBackOnlyByGivenUp == BackendSpec => []BackOnlyByGivenUp
<1>1. VideoInv => BackOnlyByGivenUp
  <2> SUFFICES ASSUME VideoInv PROVE back <= givenUp
    BY DEF BackOnlyByGivenUp, Hub!BackOnlyByGivenUp
  <2>1. back + Cardinality(Abandoned) <= givenUp /\ back \in Nat /\ givenUp \in Nat
    BY VideoParts DEF PostInv, PostType, HubType
  <2>2. QED
    BY <2>1, PostCounts
<1>2. QED
  BY <1>1, VideoAlways, PTL
-----------------------------------------------------------------------------
(* The gate.                                                               *)

Buckets == [tokens : Nat, last : 0 .. MaxTime + 1]

GateType ==
    /\ rate \in Rates /\ token \in {"down", "refused", "none", "k"} /\ now \in 0 .. MaxTime
    /\ bucket \in [Addresses -> Buckets] /\ grants \in [Addresses -> Seq(0 .. MaxTime)]
    /\ tried \in [Addresses -> 0 .. MaxTime + 1] /\ paced \subseteq Addresses
    /\ answer.code \in {0, 200, 401, 429}

\* What was granted from each call on, and what is left, is no more than a full bucket and what
\* time has refilled since: u is a request's worth, c the capacity and n a tick's refill.
Paid(u, c, n, g, t, l) ==
    \A i \in 1 .. Len(g) : /\ g[i] <= l
                           /\ (Len(g) - i + 1) * u + t <= c + (l - g[i]) * n

Bounded(u, c, n, g) ==
    \A i, j \in DOMAIN g : i <= j => (j - i + 1) * u <= c + (g[j] - g[i]) * n

\* A bucket is as its address's calls left it, or was never asked for.
Untouched(a) == bucket[a] = Gate!None /\ grants[a] = <<>> /\ tried[a] = MaxTime + 1

Used(a) ==
    /\ bucket[a].last <= now /\ tried[a] = bucket[a].last /\ bucket[a].tokens <= Gate!Capacity
    /\ Paid(Gate!Unit, Gate!Capacity, rate.num, grants[a], bucket[a].tokens, bucket[a].last)

Account(a) ==
    /\ Untouched(a) \/ Used(a)
    /\ Bounded(Gate!Unit, Gate!Capacity, rate.num, grants[a])

GateInv == GateType /\ (\A a \in Addresses : Account(a)) /\ Gate!PacedIsServed

LEMMA GateConstants ==
    /\ Rates \subseteq [num : Nat \ {0}, den : Nat \ {0}, ticks : Nat \ {0}]
    /\ RawTokens \subseteq {"unset", "blank", "plain", "padded", "unsafe"} /\ MaxTime \in Nat
BY BackendAssumption DEF BackendAssumption, Gate!GateAssumption

LEMMA GateMax ==
    ASSUME NEW a \in Int, NEW b \in Int
    PROVE  Gate!Max({a, b}) = IF a >= b THEN a ELSE b
<1> DEFINE m == IF a >= b THEN a ELSE b
<1>1. m \in {a, b} /\ \A y \in {a, b} : m >= y
  OBVIOUS
<1>2. \A x \in {a, b} : (\A y \in {a, b} : x >= y) => x = m
  OBVIOUS
<1> HIDE DEF m
<1>3. (CHOOSE x \in {a, b} : \A y \in {a, b} : x >= y) = m
  BY <1>1, <1>2, Zenon
<1>4. QED
  BY <1>3 DEF Gate!Max, m

LEMMA GateMin ==
    ASSUME NEW a \in Int, NEW b \in Int
    PROVE  Gate!Min({a, b}) = IF a <= b THEN a ELSE b
<1> DEFINE m == IF a <= b THEN a ELSE b
<1>1. m \in {a, b} /\ \A y \in {a, b} : m <= y
  OBVIOUS
<1>2. \A x \in {a, b} : (\A y \in {a, b} : x <= y) => x = m
  OBVIOUS
<1> HIDE DEF m
<1>3. (CHOOSE x \in {a, b} : \A y \in {a, b} : x <= y) = m
  BY <1>1, <1>2, Zenon
<1>4. QED
  BY <1>3 DEF Gate!Min, m

\* A request's worth, the capacity and an interval of a rate: an interval refills a request.
LEMMA RateNumbers ==
    ASSUME rate \in Rates
    PROVE  /\ rate.num \in Nat \ {0} /\ Gate!Unit \in Nat \ {0} /\ Gate!Capacity \in Nat
           /\ Gate!Unit <= Gate!Capacity
           /\ Gate!Interval \in Int /\ Gate!Unit <= Gate!Interval * rate.num
<1>1. PICK n \in Nat \ {0}, d \in Nat \ {0}, t \in Nat \ {0} :
         rate.num = n /\ rate.den = d /\ rate.ticks = t
  BY GateConstants
<1>2. Gate!Unit \in Nat \ {0} /\ n * t \in Nat
  BY <1>1 DEF Gate!Unit
<1>3. PICK u \in Nat \ {0} : u = Gate!Unit
  BY <1>2
<1>4. Gate!Capacity = IF u >= n * t THEN u ELSE n * t
  BY <1>1, <1>2, <1>3, GateMax DEF Gate!Capacity
<1>5. PICK q \in Int : q = (u + n - 1) \div n
  BY <1>1
<1>6. u + n - 1 < q * n + n
  BY <1>5
<1>7. Gate!Interval = q
  BY <1>1, <1>3, <1>5 DEF Gate!Interval
<1>8. u <= q * n
  BY <1>6
<1>9. QED
  BY <1>1, <1>2, <1>3, <1>4, <1>7, <1>8

LEMMA SameRate ==
    ASSUME rate' = rate
    PROVE  /\ Gate!Unit' = Gate!Unit /\ Gate!Capacity' = Gate!Capacity
           /\ Gate!Interval' = Gate!Interval
BY Zenon DEF Gate!Unit, Gate!Capacity, Gate!Interval

LEMMA SeqMono == ASSUME NEW E, NEW F, E \subseteq F, NEW s \in Seq(E) PROVE s \in Seq(F)
OBVIOUS

LEMMA Apart ==
    ASSUME NEW a \in Int, NEW b \in Int, NEW c \in Int, NEW n \in Int
    PROVE  (c - a) * n = (b - a) * n + (c - b) * n
OBVIOUS

LEMMA PaidLater ==
    ASSUME NEW u \in Nat, NEW c \in Nat, NEW n \in Nat, NEW g \in Seq(Nat),
           NEW t \in Nat, NEW l \in Nat, NEW t2 \in Nat, NEW l2 \in Nat,
           Paid(u, c, n, g, t, l), l <= l2, t2 <= t + (l2 - l) * n
    PROVE  Paid(u, c, n, g, t2, l2)
<1> SUFFICES ASSUME NEW i \in 1 .. Len(g)
             PROVE  g[i] <= l2 /\ (Len(g) - i + 1) * u + t2 <= c + (l2 - g[i]) * n
  BY DEF Paid
<1>1. g[i] <= l /\ (Len(g) - i + 1) * u + t <= c + (l - g[i]) * n
  BY DEF Paid
<1>2. PICK gi \in Nat, p \in Int : gi = g[i] /\ p = (Len(g) - i + 1) * u
  BY LenProperties
<1>3. (l2 - gi) * n = (l - gi) * n + (l2 - l) * n
  BY Apart
<1>4. PICK x \in Int, y \in Int, z \in Int :
         x = (l2 - gi) * n /\ y = (l - gi) * n /\ z = (l2 - l) * n
  OBVIOUS
<1>5. p + t <= c + y /\ x = y + z /\ t2 <= t + z
  BY <1>1, <1>2, <1>3, <1>4
<1>6. p + t2 <= c + x
  BY <1>5
<1>7. gi <= l2
  <2>1. gi <= l
    BY <1>1, <1>2
  <2>2. QED
    BY <2>1
<1>8. QED
  BY <1>2, <1>4, <1>6, <1>7

LEMMA PaidMore ==
    ASSUME NEW u \in Nat, NEW c \in Nat, NEW n \in Nat, NEW g \in Seq(Nat),
           NEW t \in Nat, NEW l \in Nat, Paid(u, c, n, g, t, l), u <= t, t <= c
    PROVE  Paid(u, c, n, Append(g, l), t - u, l)
<1>1. /\ Len(Append(g, l)) = Len(g) + 1 /\ Len(g) \in Nat
      /\ Append(g, l)[Len(g) + 1] = l /\ \A i \in 1 .. Len(g) : Append(g, l)[i] = g[i]
  BY Appended
<1> DEFINE h == Append(g, l)
<1> HIDE DEF h
<1> SUFFICES ASSUME NEW i \in 1 .. Len(h)
             PROVE  h[i] <= l /\ (Len(h) - i + 1) * u + (t - u) <= c + (l - h[i]) * n
  BY DEF Paid, h
<1>2. CASE i = Len(g) + 1
  BY <1>1, <1>2 DEF h
<1>3. CASE i \in 1 .. Len(g)
  <2>1. h[i] = g[i] /\ g[i] \in Nat /\ Len(h) = Len(g) + 1
    BY <1>1, <1>3 DEF h
  <2>2. g[i] <= l /\ (Len(g) - i + 1) * u + t <= c + (l - g[i]) * n
    BY <1>3 DEF Paid
  <2>3. PICK k \in Int : k = Len(g) - i + 1
    BY <1>1
  <2>4. (k + 1) * u = k * u + u
    BY <2>3
  <2>5. (Len(h) - i + 1) * u + (t - u) = (Len(g) - i + 1) * u + t
    BY <1>1, <2>1, <2>3, <2>4
  <2>6. QED
    BY <2>1, <2>2, <2>5
<1>4. QED
  BY <1>1, <1>2, <1>3 DEF h

LEMMA BoundedMore ==
    ASSUME NEW u \in Nat, NEW c \in Nat, NEW n \in Nat, NEW g \in Seq(Nat),
           NEW t \in Nat, NEW l \in Nat,
           Bounded(u, c, n, g), Paid(u, c, n, Append(g, l), t, l)
    PROVE  Bounded(u, c, n, Append(g, l))
<1> DEFINE h == Append(g, l)
<1>1. /\ Len(h) = Len(g) + 1 /\ Len(g) \in Nat /\ h \in Seq(Nat)
      /\ DOMAIN g = 1 .. Len(g) /\ DOMAIN h = 1 .. (Len(g) + 1)
      /\ h[Len(g) + 1] = l /\ \A i \in 1 .. Len(g) : h[i] = g[i]
  BY Appended
<1> HIDE DEF h
<1> SUFFICES ASSUME NEW i \in 1 .. (Len(g) + 1), NEW j \in 1 .. (Len(g) + 1), i <= j
             PROVE  (j - i + 1) * u <= c + (h[j] - h[i]) * n
  BY <1>1 DEF Bounded, h
<1>2. CASE j = Len(g) + 1
  <2>1. (Len(h) - i + 1) * u + t <= c + (l - h[i]) * n
    BY <1>1 DEF Paid, h
  <2>2. (j - i + 1) * u + t <= c + (h[j] - h[i]) * n
    BY <1>1, <1>2, <2>1
  <2>3. PICK p \in Int, q \in Int : p = (j - i + 1) * u /\ q = (h[j] - h[i]) * n
    BY <1>1
  <2>4. QED
    BY <2>2, <2>3
<1>3. CASE j \in 1 .. Len(g)
  <2>1. i \in 1 .. Len(g) /\ i \in DOMAIN g /\ j \in DOMAIN g
    BY <1>1, <1>3
  <2>2. (j - i + 1) * u <= c + (g[j] - g[i]) * n
    BY <2>1 DEF Bounded
  <2>3. QED
    BY <1>1, <1>3, <2>1, <2>2
<1>4. QED
  BY <1>1, <1>2, <1>3

\* What a call finds in the bucket of its address, once it is refilled: no more than time
\* has brought, and a request's worth if the address keeps to the rate.
LEMMA RefillEffect ==
    ASSUME GateType, NEW a \in Addresses, Account(a)
    PROVE  LET r == Gate!Refilled(Gate!BucketOf(a)) IN
           /\ r = [tokens |-> r.tokens, last |-> now]
           /\ r.tokens \in Nat /\ r.tokens <= Gate!Capacity
           /\ Paid(Gate!Unit, Gate!Capacity, rate.num, grants[a], r.tokens, now)
           /\ Gate!KeepsPace(a) => Gate!Allows(r)
<1> DEFINE b == Gate!BucketOf(a)
           r == Gate!Refilled(b)
<1>1. PICK u \in Nat \ {0}, c \in Nat, n \in Nat \ {0}, v \in Int :
         /\ u = Gate!Unit /\ c = Gate!Capacity /\ n = rate.num /\ v = Gate!Interval
         /\ u <= c /\ u <= v * n
  BY RateNumbers DEF GateType
<1>2. now \in Nat /\ now <= MaxTime /\ MaxTime \in Nat /\ grants[a] \in Seq(Nat) /\ bucket[a] \in Buckets
  <2>1. now \in Nat /\ now <= MaxTime /\ MaxTime \in Nat
    BY GateConstants DEF GateType
  <2>2. grants[a] \in Seq(0 .. MaxTime) /\ bucket[a] \in Buckets
    BY DEF GateType
  <2>3. 0 .. MaxTime \subseteq Nat
    BY <2>1
  <2>4. QED
    BY <2>1, <2>2, <2>3, SeqMono
<1>3. PICK t \in Nat, l \in Nat :
         /\ b = [tokens |-> t, last |-> l]
         /\ l <= now /\ Paid(u, c, n, grants[a], t, l)
         /\ Gate!KeepsPace(a) => u <= t + (now - l) * n
  <2>1. CASE Untouched(a)
    <3>1. b = [tokens |-> c, last |-> now]
      BY <1>1, <2>1 DEF Untouched, Gate!BucketOf
    <3>2. Paid(u, c, n, grants[a], c, now)
      BY <2>1 DEF Untouched, Paid
    <3>3. u <= c + (now - now) * n
      BY <1>1, <1>2
    <3>4. QED
      BY <1>2, <3>1, <3>2, <3>3
  <2>2. CASE Used(a)
    <3>1. PICK t \in Nat, l \in Nat : bucket[a] = [tokens |-> t, last |-> l]
      BY <1>2 DEF Buckets
    <3>2. l <= now /\ tried[a] = l /\ Paid(u, c, n, grants[a], t, l)
      BY <1>1, <2>2, <3>1 DEF Used
    <3>3. l # MaxTime + 1
      BY <1>2, <3>2
    <3>4. b = bucket[a]
      BY <3>1, <3>3 DEF Gate!BucketOf, Gate!None
    <3>5. ASSUME Gate!KeepsPace(a) PROVE u <= t + (now - l) * n
      <4>1. now - l >= v
        BY <1>1, <3>2, <3>3, <3>5 DEF Gate!KeepsPace, Gate!None
      <4>2. PICK w \in Int : w = now - l
        BY <1>2
      <4>3. w * n >= v * n
        BY <4>1, <4>2
      <4>4. u <= w * n
        BY <1>1, <4>3
      <4>5. QED
        BY <4>2, <4>4
    <3>6. QED
      BY <3>1, <3>2, <3>4, <3>5
  <2>3. QED
    BY <2>1, <2>2 DEF Account
<1>4. PICK f \in Int : f = t + (now - l) * n
  BY <1>2
<1>5. f >= 0
  <2>1. PICK w \in Nat : w = now - l
    BY <1>2, <1>3
  <2>2. w * n >= 0
    BY <2>1
  <2>3. QED
    BY <1>4, <2>1, <2>2
<1>6. r = [tokens |-> Gate!Min({c, f}), last |-> now]
  BY <1>1, <1>3, <1>4 DEF Gate!Refilled
<1>7. Gate!Min({c, f}) = IF c <= f THEN c ELSE f
  BY GateMin
<1>8. PICK m \in Nat : m = Gate!Min({c, f}) /\ m <= c /\ m <= f /\ (u <= f => u <= m)
  BY <1>1, <1>5, <1>7
<1>9. Paid(u, c, n, grants[a], m, now)
  BY <1>2, <1>3, <1>4, <1>8, PaidLater
<1>10. Gate!KeepsPace(a) => u <= m
  BY <1>3, <1>4, <1>8
<1>11. QED
  BY <1>1, <1>6, <1>8, <1>9, <1>10 DEF Gate!Allows

\* The account of an address depends on its entries and the rate, and time only helps.
LEMMA AccountKept ==
    ASSUME GateType, NEW a \in Addresses, Account(a),
           rate' = rate, now' \in Nat, now <= now',
           bucket'[a] = bucket[a], grants'[a] = grants[a], tried'[a] = tried[a]
    PROVE  Account(a)'
<1>1. Gate!Unit' = Gate!Unit /\ Gate!Capacity' = Gate!Capacity
  BY SameRate
<1>2. Bounded(Gate!Unit, Gate!Capacity, rate.num, grants[a])'
  <2>1. Bounded(Gate!Unit, Gate!Capacity, rate.num, grants[a])
    BY DEF Account
  <2>2. QED
    BY <1>1, <2>1 DEF Bounded
<1>3. Untouched(a) => Untouched(a)'
  BY DEF Untouched, Gate!None
<1>4. ASSUME Used(a) PROVE Used(a)'
  <2>1. bucket'[a].last <= now' /\ tried'[a] = bucket'[a].last
        /\ bucket'[a].tokens <= Gate!Capacity'
    <3>1. bucket[a].last \in Nat /\ now \in Nat
      BY GateConstants DEF GateType, Buckets
    <3>2. QED
      BY <1>1, <1>4, <3>1 DEF Used
  <2>2. Paid(Gate!Unit, Gate!Capacity, rate.num, grants[a], bucket[a].tokens, bucket[a].last)
    BY <1>4 DEF Used
  <2>3. Paid(Gate!Unit, Gate!Capacity, rate.num, grants[a], bucket[a].tokens, bucket[a].last)'
    BY <1>1, <2>2 DEF Paid
  <2>4. QED
    BY <2>1, <2>3 DEF Used
<1>5. QED
  BY <1>2, <1>3, <1>4 DEF Account

\* An authorized call of a: its bucket is refilled and pays for it if it can.
LEMMA Charged ==
    ASSUME GateInv, NEW a \in Addresses, Gate!Spend(a), Gate!Tries(a), rate' = rate, now' = now,
           Gate!Answer(a, IF Gate!Allows(Gate!Refilled(Gate!BucketOf(a))) THEN 200 ELSE 429)
    PROVE  /\ bucket' \in [Addresses -> Buckets] /\ grants' \in [Addresses -> Seq(0 .. MaxTime)]
           /\ tried' \in [Addresses -> 0 .. MaxTime + 1] /\ paced' \subseteq Addresses
           /\ answer'.code \in {200, 429}
           /\ \A x \in Addresses : Account(x)'
           /\ Gate!PacedIsServed'
<1> DEFINE r == Gate!Refilled(Gate!BucketOf(a))
<1>1. GateType /\ Account(a)
  BY DEF GateInv
<1>2. PICK t \in Nat :
         /\ r = [tokens |-> t, last |-> now] /\ t <= Gate!Capacity
         /\ Paid(Gate!Unit, Gate!Capacity, rate.num, grants[a], t, now)
         /\ Gate!KeepsPace(a) => Gate!Allows(r)
  BY <1>1, RefillEffect
<1>3. /\ rate.num \in Nat /\ Gate!Unit \in Nat /\ Gate!Capacity \in Nat
      /\ Gate!Unit' = Gate!Unit /\ Gate!Capacity' = Gate!Capacity
  BY <1>1, RateNumbers, SameRate DEF GateType
<1>4. now \in 0 .. MaxTime /\ now \in Nat /\ now \in 0 .. MaxTime + 1
  BY <1>1, GateConstants DEF GateType
<1>5. grants[a] \in Seq(0 .. MaxTime) /\ grants[a] \in Seq(Nat)
  <2>1. 0 .. MaxTime \subseteq Nat
    BY GateConstants
  <2>2. grants[a] \in Seq(0 .. MaxTime)
    BY <1>1 DEF GateType
  <2>3. QED
    BY <2>1, <2>2, SeqMono
<1> HIDE DEF r
<1>6. /\ bucket' = [bucket EXCEPT ![a] = IF Gate!Allows(r) THEN [r EXCEPT !.tokens = @ - Gate!Unit] ELSE r]
      /\ grants' = IF Gate!Allows(r) THEN [grants EXCEPT ![a] = Append(@, now)] ELSE grants
      /\ answer' = [to |-> a, code |-> IF Gate!Allows(r) THEN 200 ELSE 429]
  BY DEF Gate!Spend, Gate!Answer, r
<1>7. tried' = [tried EXCEPT ![a] = now] /\ paced' = IF Gate!KeepsPace(a) THEN paced ELSE paced \ {a}
  BY DEF Gate!Tries
<1>8. PICK s \in Nat, g \in Seq(0 .. MaxTime) :
         /\ bucket' = [bucket EXCEPT ![a] = [tokens |-> s, last |-> now]] /\ s <= Gate!Capacity
         /\ grants' = [grants EXCEPT ![a] = g]
         /\ Paid(Gate!Unit, Gate!Capacity, rate.num, g, s, now)
         /\ Bounded(Gate!Unit, Gate!Capacity, rate.num, g)
  <2>1. Bounded(Gate!Unit, Gate!Capacity, rate.num, grants[a])
    BY <1>1 DEF Account
  <2>2. CASE Gate!Allows(r)
    <3>1. Gate!Unit <= t
      BY <1>2, <2>2 DEF Gate!Allows
    <3>2. PICK s \in Nat : s = t - Gate!Unit /\ s <= Gate!Capacity
      BY <1>2, <1>3, <3>1
    <3>3. Paid(Gate!Unit, Gate!Capacity, rate.num, Append(grants[a], now), s, now)
      BY <1>2, <1>3, <1>4, <1>5, <3>1, <3>2, PaidMore
    <3>4. Bounded(Gate!Unit, Gate!Capacity, rate.num, Append(grants[a], now))
      BY <1>3, <1>4, <1>5, <2>1, <3>3, BoundedMore
    <3>5. bucket' = [bucket EXCEPT ![a] = [tokens |-> s, last |-> now]]
      <4>1. [r EXCEPT !.tokens = @ - Gate!Unit] = [tokens |-> s, last |-> now]
        BY <1>2, <3>2
      <4>2. QED
        BY <1>6, <2>2, <4>1, Zenon
    <3>6. Append(grants[a], now) \in Seq(0 .. MaxTime)
      BY <1>4, <1>5, Appended
    <3>7. grants' = [grants EXCEPT ![a] = Append(grants[a], now)]
      BY <1>6, <2>2
    <3>8. QED
      BY <3>2, <3>3, <3>4, <3>5, <3>6, <3>7
  <2>3. CASE ~Gate!Allows(r)
    <3>1. bucket' = [bucket EXCEPT ![a] = [tokens |-> t, last |-> now]]
      BY <1>2, <1>6, <2>3
    <3>2. grants' = [grants EXCEPT ![a] = grants[a]]
      BY <1>1, <1>6, <2>3 DEF GateType
    <3>3. QED
      BY <1>2, <1>5, <2>1, <3>1, <3>2
  <2>4. QED
    BY <2>2, <2>3
<1>9. [tokens |-> s, last |-> now] \in Buckets
  BY <1>4 DEF Buckets
<1>10. /\ bucket' \in [Addresses -> Buckets] /\ grants' \in [Addresses -> Seq(0 .. MaxTime)]
       /\ tried' \in [Addresses -> 0 .. MaxTime + 1] /\ paced' \subseteq Addresses
  BY <1>1, <1>4, <1>7, <1>8, <1>9 DEF GateType
<1>11. ASSUME NEW x \in Addresses PROVE Account(x)'
  <2>1. CASE x = a
    <3>1. bucket'[a] = [tokens |-> s, last |-> now] /\ grants'[a] = g /\ tried'[a] = now
      BY <1>1, <1>7, <1>8 DEF GateType
    <3>2. Paid(Gate!Unit, Gate!Capacity, rate.num, grants[a], bucket[a].tokens, bucket[a].last)'
      BY <1>3, <1>8, <3>1
    <3>3. Bounded(Gate!Unit, Gate!Capacity, rate.num, grants[a])'
      BY <1>3, <1>8, <3>1
    <3>4. /\ bucket'[a].last <= now' /\ tried'[a] = bucket'[a].last
          /\ bucket'[a].tokens <= Gate!Capacity'
      BY <1>3, <1>4, <1>8, <3>1
    <3>5. QED
      BY <2>1, <3>2, <3>3, <3>4 DEF Account, Used
  <2>2. CASE x # a
    <3>1. bucket'[x] = bucket[x] /\ grants'[x] = grants[x] /\ tried'[x] = tried[x]
      BY <1>1, <1>7, <1>8, <2>2 DEF GateType
    <3>2. Account(x) /\ now <= now' /\ now' \in Nat
      BY <1>4 DEF GateInv
    <3>3. QED
      BY <1>1, <3>1, <3>2, AccountKept
  <2>3. QED
    BY <2>1, <2>2
<1>12. Gate!PacedIsServed' /\ answer'.code \in {200, 429}
  <2>1. CASE Gate!Allows(r)
    BY <1>6, <2>1 DEF Gate!PacedIsServed
  <2>2. CASE ~Gate!Allows(r)
    <3>1. a \notin paced' /\ answer'.to = a
      BY <1>2, <1>6, <1>7, <2>2
    <3>2. QED
      BY <1>6, <2>2, <3>1 DEF Gate!PacedIsServed
  <2>3. QED
    BY <2>1, <2>2
<1>13. QED
  BY <1>10, <1>11, <1>12

LEMMA GateCall == GateInv /\ Gate!Call => GateInv'
<1> SUFFICES ASSUME GateInv, Gate!Call PROVE GateInv'
  OBVIOUS
<1>1. PICK a \in Addresses : \E presented : Gate!Request(a, presented)
  BY Zenon DEF Gate!Call
<1> PICK presented : Gate!Request(a, presented)
  BY <1>1
<1>2. rate' = rate /\ token' = token /\ now' = now
  BY DEF Gate!Call
<1>3. GateType
  BY DEF GateInv
<1>4. CASE Gate!Authorized(presented)
  <2>1. Gate!Spend(a) /\ Gate!Tries(a)
        /\ Gate!Answer(a, IF Gate!Allows(Gate!Refilled(Gate!BucketOf(a))) THEN 200 ELSE 429)
    BY <1>4, Zenon DEF Gate!Request
  <2>2. /\ bucket' \in [Addresses -> Buckets] /\ grants' \in [Addresses -> Seq(0 .. MaxTime)]
        /\ tried' \in [Addresses -> 0 .. MaxTime + 1] /\ paced' \subseteq Addresses
        /\ answer'.code \in {200, 429}
        /\ \A x \in Addresses : Account(x)'
        /\ Gate!PacedIsServed'
    BY <1>2, <2>1, Charged, Zenon
  <2>3. answer'.code \in {0, 200, 401, 429}
    BY <2>2
  <2>4. GateType'
    BY <1>2, <1>3, <2>2, <2>3 DEF GateType
  <2>5. QED
    BY <2>2, <2>4, Zenon DEF GateInv
<1>5. CASE ~Gate!Authorized(presented)
  <2>1. Gate!Answer(a, 401) /\ UNCHANGED <<bucket, tried, paced>>
    BY <1>5, Zenon DEF Gate!Request
  <2>2. answer' = [to |-> a, code |-> 401] /\ grants' = grants
    BY <2>1 DEF Gate!Answer
  <2>3. GateType' /\ Gate!PacedIsServed'
    BY <1>2, <1>3, <2>1, <2>2 DEF GateType, Gate!PacedIsServed
  <2>4. now \in Nat
    BY <1>3, GateConstants DEF GateType
  <2>5. ASSUME NEW x \in Addresses PROVE Account(x)'
    BY <1>2, <1>3, <2>1, <2>2, <2>4, AccountKept DEF GateInv
  <2>6. QED
    BY <2>3, <2>5 DEF GateInv
<1>6. QED
  BY <1>4, <1>5

LEMMA GateStep == GateInv /\ Gate!Next => GateInv'
<1> SUFFICES ASSUME GateInv, Gate!Startup \/ Gate!Tick PROVE GateInv'
  BY GateCall DEF Gate!Next
<1>1. GateType /\ Gate!PacedIsServed
  BY DEF GateInv
<1>2. rate' = rate /\ UNCHANGED <<bucket, answer, grants, tried, paced>>
  BY DEF Gate!Startup, Gate!Tick
<1>3. token' \in {"down", "refused", "none", "k"}
  BY <1>1 DEF Gate!Startup, Gate!Tick, Gate!ReadToken, GateType
<1>4. now' \in 0 .. MaxTime /\ now' \in Nat /\ now <= now'
  BY <1>1, GateConstants DEF Gate!Startup, Gate!Tick, GateType
<1>5. GateType' /\ Gate!PacedIsServed'
  BY <1>1, <1>2, <1>3, <1>4 DEF GateType, Gate!PacedIsServed
<1>6. ASSUME NEW x \in Addresses PROVE Account(x)'
  BY <1>1, <1>2, <1>4, AccountKept DEF GateInv
<1>7. QED
  BY <1>5, <1>6 DEF GateInv

LEMMA GateBegins == Gate!Init => GateInv
<1> SUFFICES ASSUME Gate!Init PROVE GateInv
  OBVIOUS
<1>1. MaxTime \in Nat
  BY GateConstants
<1>2. Gate!None \in Buckets /\ Gate!None.last = MaxTime + 1 /\ MaxTime + 1 \in 0 .. MaxTime + 1
      /\ 0 \in 0 .. MaxTime
  BY <1>1 DEF Gate!None, Buckets
<1> PICK code : answer.code = code /\ code = 0
  BY Zenon DEF Gate!Init
<1>7. /\ rate \in Rates /\ token = "down" /\ now = 0 /\ bucket = [a \in Addresses |-> Gate!None]
      /\ grants = [a \in Addresses |-> <<>>] /\ tried = [a \in Addresses |-> Gate!None.last]
      /\ paced = Addresses
  BY Zenon DEF Gate!Init
<1>3. GateType
  BY <1>2, <1>7 DEF GateType
<1>4. ASSUME NEW a \in Addresses PROVE Account(a)
  <2>1. Untouched(a)
    BY <1>2, <1>7 DEF Untouched
  <2>2. Bounded(Gate!Unit, Gate!Capacity, rate.num, <<>>)
    BY DEF Bounded
  <2>3. QED
    BY <2>1, <2>2 DEF Account, Untouched
<1>5. Gate!PacedIsServed
  BY DEF Gate!PacedIsServed
<1>6. QED
  BY <1>3, <1>4, <1>5 DEF GateInv

LEMMA GateStutter == GateInv /\ UNCHANGED gate => GateInv'
<1> SUFFICES ASSUME GateInv, UNCHANGED gate PROVE GateInv'
  OBVIOUS
<1>1. UNCHANGED <<rate, token, now, bucket, answer, grants, tried, paced>>
  BY DEF gate
<1>2. GateType /\ Gate!PacedIsServed /\ now \in Nat
  BY GateConstants DEF GateInv, GateType
<1>3. GateType' /\ Gate!PacedIsServed'
  BY <1>1, <1>2 DEF GateType, Gate!PacedIsServed
<1>4. ASSUME NEW x \in Addresses PROVE Account(x)'
  BY <1>1, <1>2, AccountKept DEF GateInv
<1>5. QED
  BY <1>3, <1>4 DEF GateInv

LEMMA GateAlways == BackendSpec => []GateInv
<1>1. BackendInit => GateInv
  BY GateBegins DEF BackendInit
<1>2. GateInv /\ [BackendNext]_<<part, vars, gate, video, ingest, sweep>> => GateInv'
  <2> SUFFICES ASSUME GateInv, [BackendNext]_<<part, vars, gate, video, ingest, sweep>>
               PROVE  GateInv'
    OBVIOUS
  <2>1. Gate!Next \/ UNCHANGED gate
    BY Zenon DEF BackendNext
  <2>2. QED
    BY <2>1, GateStep, GateStutter
<1>3. QED
  BY <1>1, <1>2, PTL DEF BackendSpec

\* No address is let through more often than its burst and the rate allow, one that keeps to the
\* rate is never refused, and the token REST takes is the one the WebSocket takes: for any rate,
\* addresses and run of calls and refusals.
THEOREM GateStaysSound == BackendSpec => []GateIsSound
<1>1. GateInv => GateIsSound
  <2> SUFFICES ASSUME GateInv
               PROVE  /\ Gate!TypeOK /\ Gate!BurstIsBounded
                      /\ Gate!PacedIsServed /\ Gate!OneTokenServesBoth
    BY DEF GateIsSound
  <2>1. GateType /\ Gate!PacedIsServed
    BY DEF GateInv
  <2>2. Gate!TypeOK
    <3>1. ASSUME NEW a \in Addresses PROVE bucket[a].tokens \in 0 .. Gate!Capacity
      <4>1. Account(a) /\ bucket[a].tokens \in Nat /\ Gate!Capacity \in Nat
        BY <2>1, RateNumbers DEF GateInv, GateType, Buckets
      <4>2. bucket[a].tokens <= Gate!Capacity
        BY <4>1 DEF Account, Untouched, Used, Gate!None
      <4>3. QED
        BY <4>1, <4>2
    <3>2. QED
      BY <2>1, <3>1 DEF Gate!TypeOK, GateType
  <2>3. Gate!BurstIsBounded
    BY DEF GateInv, Account, Bounded, Gate!BurstIsBounded
  <2>4. Gate!OneTokenServesBoth
    BY <2>1 DEF GateType, Gate!OneTokenServesBoth, Gate!Select
  <2>5. QED
    BY <2>1, <2>2, <2>3, <2>4
<1>2. QED
  BY <1>1, GateAlways, PTL
-----------------------------------------------------------------------------
(* The ingest.                                                             *)

Sent == Udp!Messages(1 .. MaxSent)
ThreadStates == {"none", "starting", "bound", "loop", "got", "finally", "ended", "failed"}

UdpType ==
    /\ stream \in {"vis", "tel"} /\ app \in {"down", "up", "closing", "joining"}
    /\ cycle \in 0 .. MaxCycles /\ stop \in BOOLEAN
    /\ th \in [Udp!Cycles -> ThreadStates]
    /\ sock \in [Udp!Cycles -> {"none", "open", "closed"}] /\ held \in [Udp!Cycles -> BOOLEAN]
    /\ datagram \in [Udp!Cycles -> {Udp!Nothing} \cup Sent]
    /\ net \in Seq(Sent) /\ Len(net) <= MaxFlight /\ sent \in 0 .. MaxSent
    /\ total \in Nat /\ ok \in Nat /\ bad \in [Udp!Reasons -> Nat]
    /\ latest.seq \in 0 .. MaxSent

\* Threads of earlier start-ups have ended and closed their sockets; that of the current one has
\* a socket from its bind until it or close() closes the one the ingestor knows.
ThreadAt(k) ==
    /\ k > cycle => th[k] = "none" /\ sock[k] = "none" /\ held[k] = FALSE
    /\ k < cycle => th[k] = "ended" /\ sock[k] = "closed" /\ held[k] = FALSE
    /\ k = cycle =>
          \/ th[k] = "starting" /\ sock[k] = "none" /\ held[k] = FALSE
          \/ th[k] = "bound" /\ sock[k] = "open" /\ held[k] = FALSE
          \/ th[k] \in {"loop", "got", "finally"} /\ sock[k] = "open" /\ held[k] = TRUE
          \/ th[k] \in {"loop", "got", "finally", "ended"} /\ sock[k] = "closed" /\ held[k] = FALSE

Lifecycle ==
    /\ \A k \in Udp!Cycles : ThreadAt(k)
    /\ app = "down" => cycle = 0 \/ th[cycle] = "ended"
    /\ app # "down" => cycle # 0

\* The reading of k's last datagram ends the thread.
Unread(k) == datagram[k] # Udp!Nothing /\ Udp!Verdict(datagram[k]) = "overflow"

\* A thread has no datagram before it reads, it judges one, and what it got past did not end it.
JudgingAt(k) ==
    /\ th[k] \in {"none", "starting", "bound"} => datagram[k] = Udp!Nothing
    /\ th[k] = "got" => datagram[k] \in Sent
    /\ th[k] = "loop" => ~Unread(k)

Judging == \A k \in Udp!Cycles : JudgingAt(k)

Drops == bad["oversize"] + bad["json"] + bad["schema"] + bad["range"]
         + (IF stream = "vis" THEN bad["semantics"] ELSE 0)

\* The datagram that is counted and not yet judged, or never will be.
InHand == IF cycle # 0 /\ (th[cycle] = "got" \/ Udp!Escaped(cycle)) THEN 1 ELSE 0

Counted == total = ok + Drops + InHand

UdpInv ==
    /\ UdpType /\ Lifecycle /\ Judging /\ Counted
    /\ Udp!ForwardedIsParsed /\ Udp!NoTargetNoNumbers

LEMMA UdpConstants ==
    /\ Datagrams \in [{"vis", "tel"} -> SUBSET Udp!Messages({0})]
    /\ MaxCycles \in Nat \ {0} /\ MaxSent \in Nat /\ MaxFlight \in Nat \ {0}
BY Zenon, BackendAssumption DEF BackendAssumption, Udp!IngestAssumption, Udp!Protocols
-----------------------------------------------------------------------------
(* What is kept of a datagram.                                             *)

Accepted(d) == Udp!Verdict(d) = ""

\* Every number of an accepted VIS datagram is one.
LEMMA AcceptedNumbers ==
    ASSUME NEW d \in Sent, stream = "vis", Accepted(d)
    PROVE  /\ Udp!Finite(d.loc) /\ Udp!Finite(d.bound) /\ Udp!Finite(d.conf)
           /\ d.state \in Udp!TrackingStates
<1>1. Udp!VisReason(d) = ""
  BY Zenon DEF Accepted, Udp!Verdict, Udp!VisVerdict
<1>2. Udp!Common(d, d.state \in Udp!TrackingStates) = ""
  BY <1>1, Zenon DEF Udp!VisReason
<1>3. /\ d.state \in Udp!TrackingStates
      /\ Udp!InRange(d.loc, -Udp!One, Udp!One) /\ Udp!InRange(d.bound, 0, Udp!One)
      /\ Udp!InRange(d.conf, 0, Udp!One)
  <2>1. d.early \in Udp!Readings /\ d.late \in Udp!Readings
    BY DEF Sent, Udp!Messages
  <2>2. d.early # "" /\ d.late # ""
    BY <2>1, Zenon DEF Udp!Readings
  <2>3. QED
    BY <1>2, <2>2, Zenon DEF Udp!Common
<1>4. QED
  BY <1>3, Zenon DEF Udp!InRange

LEMMA ZeroIsFinite == Udp!Finite(0)
BY DEF Udp!Finite, Udp!NaN, Udp!Infinity

LEMMA KeptSample ==
    ASSUME NEW d \in Sent, stream = "vis", Accepted(d)
    PROVE  LET m == Udp!Normalized(d) IN
           /\ m.seq = d.seq
           /\ Udp!FcParses(Udp!TrackingObject(m)) <=> ~m.wide /\ Udp!Finite(m.ts) /\ ~m.tiny
           /\ m.state # Udp!Tracking => m.loc = 0 /\ m.bound = 0 /\ m.conf = 0
<1>1. /\ Udp!Finite(d.loc) /\ Udp!Finite(d.bound) /\ Udp!Finite(d.conf)
      /\ d.state \in Udp!TrackingStates
  BY AcceptedNumbers, Zenon
<1> DEFINE m == Udp!Normalized(d)
<1>2. /\ m.seq = d.seq /\ m.state = d.state
      /\ IF d.state = Udp!Tracking THEN m.loc = d.loc /\ m.bound = d.bound /\ m.conf = d.conf
         ELSE m.loc = 0 /\ m.bound = 0 /\ m.conf = 0
  BY DEF Sent, Udp!Messages, Udp!Normalized
<1> HIDE DEF m
<1>3. /\ Udp!Finite(m.loc) /\ Udp!Finite(m.bound) /\ Udp!Finite(m.conf)
      /\ m.state \in Udp!TrackingStates
  BY <1>1, <1>2, ZeroIsFinite
<1>4. Udp!FcParses(Udp!TrackingObject(m)) <=> ~m.wide /\ Udp!Finite(m.ts) /\ ~m.tiny
  BY <1>3, Zenon DEF Udp!FcParses, Udp!TrackingObject
<1>5. QED
  BY <1>2, <1>4 DEF m
-----------------------------------------------------------------------------
(* The threads.                                                            *)

\* Only the thread of the current start-up moves.
LEMMA OneMoves ==
    ASSUME UdpInv, NEW k \in Udp!Cycles, th[k] \notin {"none", "ended"}
    PROVE  k = cycle
<1>1. ThreadAt(k) /\ k \in Int /\ cycle \in Int
  BY UdpConstants DEF UdpInv, Lifecycle, UdpType, Udp!Cycles
<1>2. ~(k > cycle) /\ ~(k < cycle)
  BY <1>1 DEF ThreadAt
<1>3. QED
  BY <1>1, <1>2

LEMMA InCycles ==
    ASSUME UdpInv, app # "down"
    PROVE  cycle \in Udp!Cycles /\ ThreadAt(cycle)
BY UdpConstants DEF UdpInv, Lifecycle, UdpType, Udp!Cycles

\* Where a thread is depends on its entries and the start-ups.
LEMMA ThreadKept ==
    ASSUME NEW k, ThreadAt(k), cycle' = cycle,
           th'[k] = th[k], sock'[k] = sock[k], held'[k] = held[k]
    PROVE  ThreadAt(k)'
BY DEF ThreadAt

LEMMA JudgingKept ==
    ASSUME NEW k, JudgingAt(k), th'[k] = th[k], datagram'[k] = datagram[k], stream' = stream
    PROVE  JudgingAt(k)' /\ Unread(k)' = Unread(k)
BY Zenon DEF JudgingAt, Unread, Udp!Verdict, Udp!Nothing, Sent, Udp!Messages, Udp!Protocols,
   Udp!Readings

\* What was sent is not what a thread has before it reads.
LEMMA SentIsSomething == ASSUME NEW d \in Sent PROVE d # Udp!Nothing
BY DEF Sent, Udp!Messages, Udp!Nothing

\* What is in hand depends on where the current thread is and what it read last.
InHandRule ==
    /\ cycle # 0 /\ th[cycle] = "got" => InHand = 1
    /\ cycle # 0 /\ th[cycle] = "finally" /\ Unread(cycle) => InHand = 1
    /\ cycle = 0 \/ th[cycle] \notin {"got", "finally", "ended"} => InHand = 0
    /\ InHand \in {0, 1}

LEMMA InHandAt == InHandRule /\ InHandRule'
BY DEF InHandRule, InHand, Udp!Escaped, Unread

\* Steps that leave threads, sockets and counters alone.
LEMMA UdpKept ==
    ASSUME UdpInv, stream' = stream, app' \in {"down", "up", "closing", "joining"}, cycle' = cycle,
           stop' \in BOOLEAN, th' = th, sock' = sock, held' = held, datagram' = datagram,
           net' \in Seq(Sent), Len(net') <= MaxFlight, sent' \in 0 .. MaxSent,
           UNCHANGED <<total, ok, bad, latest>>,
           app' = "down" => cycle = 0 \/ th[cycle] = "ended", app' # "down" => cycle # 0
    PROVE  UdpInv'
<1>1. Udp!Reasons' = Udp!Reasons
  BY Zenon DEF Udp!Reasons
<1>2. UdpType'
  BY <1>1 DEF UdpInv, UdpType
<1>3. Lifecycle'
  <2>1. ASSUME NEW k \in Udp!Cycles PROVE ThreadAt(k)'
    BY ThreadKept DEF UdpInv, Lifecycle
  <2>2. QED
    BY <2>1 DEF Lifecycle
<1>4. Judging' /\ Counted'
  <2>1. Drops' = Drops /\ InHand' = InHand
    BY Zenon DEF Drops, InHand, Udp!Escaped, Udp!Verdict
  <2>2. \A k \in Udp!Cycles : JudgingAt(k)'
    BY JudgingKept, Zenon DEF UdpInv, Judging
  <2>3. QED
    BY <2>1, <2>2 DEF UdpInv, Judging, Counted
<1>5. Udp!ForwardedIsParsed' /\ Udp!NoTargetNoNumbers'
  BY Zenon DEF UdpInv, Udp!ForwardedIsParsed, Udp!NoTargetNoNumbers
<1>6. QED
  BY <1>2, <1>3, <1>4, <1>5 DEF UdpInv

LEMMA Removed ==
    ASSUME NEW E, NEW s \in Seq(E), NEW i \in DOMAIN s
    PROVE  Udp!RemoveAt(s, i) \in Seq(E) /\ Len(Udp!RemoveAt(s, i)) = Len(s) - 1
<1>1. i \in 1 .. Len(s) /\ Len(s) \in Nat
  BY LenProperties
<1>2. /\ SubSeq(s, 1, i - 1) \in Seq(E) /\ Len(SubSeq(s, 1, i - 1)) = i - 1
      /\ SubSeq(s, i + 1, Len(s)) \in Seq(E) /\ Len(SubSeq(s, i + 1, Len(s))) = Len(s) - i
  BY <1>1
<1>3. PICK p \in Seq(E), q \in Seq(E) :
         /\ p = SubSeq(s, 1, i - 1) /\ q = SubSeq(s, i + 1, Len(s))
         /\ Len(p) = i - 1 /\ Len(q) = Len(s) - i
  BY <1>2
<1>4. p \o q \in Seq(E) /\ Len(p \o q) = Len(p) + Len(q)
  BY ConcatProperties
<1>5. Udp!RemoveAt(s, i) = p \o q
  BY <1>3, Zenon DEF Udp!RemoveAt
<1>6. Len(p \o q) = Len(s) - 1
  <2>1. ASSUME NEW n \in Int, NEW m \in Int PROVE (m - 1) + (n - m) = n - 1
    OBVIOUS
  <2>2. Len(s) \in Int /\ i \in Int
    BY <1>1
  <2>3. QED
    BY <1>3, <1>4, <2>1, <2>2, Zenon
<1>7. QED
  BY <1>4, <1>5, <1>6, Zenon

LEMMA UdpStartup == UdpInv /\ Udp!Startup => UdpInv'
<1> SUFFICES ASSUME UdpInv, Udp!Startup PROVE UdpInv'
  OBVIOUS
<1>1. UdpType /\ Lifecycle /\ Judging
  BY DEF UdpInv
<1>2. /\ app = "down" /\ cycle < MaxCycles /\ app' = "up" /\ cycle' = cycle + 1 /\ stop' = FALSE
      /\ th' = [th EXCEPT ![cycle + 1] = "starting"]
      /\ UNCHANGED <<stream, sock, held, datagram, net, sent>>
      /\ total' = 0 /\ ok' = 0 /\ bad' = [r \in Udp!Reasons |-> 0] /\ latest' = Udp!Nothing
  BY Zenon DEF Udp!Startup, Udp!ResetCounts, Udp!sockets, Udp!network
<1>3. Udp!Reasons' = Udp!Reasons
  BY <1>2, Zenon DEF Udp!Reasons
<1>4. cycle \in Nat /\ cycle + 1 \in Udp!Cycles /\ MaxCycles \in Nat
  BY <1>1, <1>2, UdpConstants DEF UdpType, Udp!Cycles
<1>5. latest'.seq = 0 /\ 0 \in 0 .. MaxSent
  BY <1>2, UdpConstants DEF Udp!Nothing
<1>6. UdpType'
  <2>1. cycle' \in 0 .. MaxCycles
    BY <1>2, <1>4
  <2>2. th' \in [Udp!Cycles -> ThreadStates]
    BY <1>1, <1>2 DEF UdpType, ThreadStates
  <2>3. bad' \in [Udp!Reasons' -> Nat]
    BY <1>2, <1>3
  <2>4. QED
    BY <1>1, <1>2, <1>5, <2>1, <2>2, <2>3 DEF UdpType
<1>7. ASSUME NEW k \in Udp!Cycles PROVE ThreadAt(k)' /\ JudgingAt(k)'
  <2>1. ThreadAt(k) /\ k \in Int /\ JudgingAt(k)
    BY <1>1, UdpConstants DEF Lifecycle, Judging, Udp!Cycles
  <2>2. CASE k = cycle + 1
    <3>1. th'[k] = "starting" /\ th[k] = "none" /\ sock[k] = "none" /\ held[k] = FALSE
      BY <1>1, <1>2, <1>4, <2>1, <2>2 DEF ThreadAt, UdpType
    <3>2. ThreadAt(k)'
      BY <1>2, <1>4, <2>2, <3>1 DEF ThreadAt
    <3>3. datagram'[k] = Udp!Nothing
      BY <1>2, <2>1, <3>1 DEF JudgingAt
    <3>4. JudgingAt(k)'
      <4>1. (datagram[k] = Udp!Nothing)'
        BY <3>3, Zenon DEF Udp!Nothing
      <4>2. QED
        BY <3>1, <4>1 DEF JudgingAt
    <3>5. QED
      BY <3>2, <3>4
  <2>3. CASE k # cycle + 1
    <3>1. th'[k] = th[k]
      BY <1>1, <1>2, <2>3 DEF UdpType
    <3>4. JudgingAt(k)'
      BY <1>2, <2>1, <3>1, JudgingKept
    <3>2. CASE k = cycle
      <4>1. th[k] = "ended" /\ cycle # 0
        BY <1>1, <1>2, <3>2, UdpConstants DEF Lifecycle, Udp!Cycles
      <4>2. sock[k] = "closed" /\ held[k] = FALSE
        BY <2>1, <3>2, <4>1 DEF ThreadAt
      <4>3. QED
        BY <1>2, <1>4, <3>1, <3>2, <4>1, <4>2, <3>4 DEF ThreadAt
    <3>3. CASE k # cycle
      BY <1>2, <1>4, <2>1, <2>3, <3>1, <3>3, <3>4 DEF ThreadAt
    <3>5. QED
      BY <3>2, <3>3
  <2>4. QED
    BY <2>2, <2>3
<1>8. Lifecycle' /\ Judging'
  <2>1. cycle' # 0
    BY <1>2, <1>4
  <2>2. QED
    BY <1>2, <1>7, <2>1 DEF Lifecycle, Judging
<1>9. Counted'
  <2>1. th'[cycle'] = "starting"
    BY <1>1, <1>2, <1>4 DEF UdpType
  <2>2. InHand' = 0
    BY <2>1 DEF InHand, Udp!Escaped
  <2>3. Drops' = 0
    BY <1>2 DEF Drops, Udp!Reasons
  <2>4. QED
    BY <1>2, <2>2, <2>3 DEF Counted
<1>10. Udp!ForwardedIsParsed' /\ Udp!NoTargetNoNumbers'
  BY <1>2, Zenon DEF Udp!ForwardedIsParsed, Udp!NoTargetNoNumbers, Udp!Nothing
<1>11. QED
  BY <1>6, <1>8, <1>9, <1>10 DEF UdpInv

LEMMA UdpShutdown == UdpInv /\ Udp!Shutdown => UdpInv'
<1> SUFFICES ASSUME UdpInv, Udp!Shutdown PROVE UdpInv'
  OBVIOUS
<1>1. /\ app = "up" /\ app' = "closing" /\ stop' = TRUE
      /\ UNCHANGED <<stream, cycle, th, sock, held, datagram, net, sent, total, ok, bad, latest>>
  BY Zenon DEF Udp!Shutdown, Udp!sockets, Udp!network, Udp!counts
<1>2. cycle # 0 /\ net \in Seq(Sent) /\ Len(net) <= MaxFlight /\ sent \in 0 .. MaxSent
  BY <1>1 DEF UdpInv, UdpType, Lifecycle
<1>3. QED
  BY <1>1, <1>2, UdpKept

LEMMA UdpJoin == UdpInv /\ Udp!Join => UdpInv'
<1> SUFFICES ASSUME UdpInv, Udp!Join PROVE UdpInv'
  OBVIOUS
<1>1. /\ app = "joining" /\ th[cycle] \in {"ended", "failed"} /\ app' = "down"
      /\ UNCHANGED <<stream, cycle, stop, th, sock, held, datagram, net, sent, total, ok, bad, latest>>
  BY Zenon DEF Udp!Join, Udp!sockets, Udp!network, Udp!counts
<1>2. net \in Seq(Sent) /\ Len(net) <= MaxFlight /\ sent \in 0 .. MaxSent /\ stop \in BOOLEAN
  BY DEF UdpInv, UdpType
<1>3. th[cycle] = "ended"
  BY <1>1, InCycles DEF ThreadAt
<1>4. QED
  BY <1>1, <1>2, <1>3, UdpKept

LEMMA UdpNetwork == UdpInv /\ (Udp!Send \/ Udp!Lose \/ Udp!Repeat) => UdpInv'
<1> SUFFICES ASSUME UdpInv, Udp!Send \/ Udp!Lose \/ Udp!Repeat PROVE UdpInv'
  OBVIOUS
<1>1. UNCHANGED <<stream, app, cycle, stop, th, sock, held, datagram, total, ok, bad, latest>>
  BY Zenon DEF Udp!Send, Udp!Lose, Udp!Repeat, Udp!life, Udp!sockets, Udp!counts
<1>2. /\ net \in Seq(Sent) /\ Len(net) \in Nat /\ Len(net) <= MaxFlight /\ sent \in 0 .. MaxSent
      /\ MaxFlight \in Nat /\ MaxSent \in Nat
  BY UdpConstants DEF UdpInv, UdpType
<1>3. net' \in Seq(Sent) /\ Len(net') <= MaxFlight /\ sent' \in 0 .. MaxSent
  <2>1. CASE Udp!Send
    <3>1. PICK d \in Datagrams[stream] : net' = Append(net, [d EXCEPT !.seq = sent + 1])
      BY <2>1, Zenon DEF Udp!Send
    <3>2. sent < MaxSent /\ Len(net) < MaxFlight /\ sent' = sent + 1
      BY <2>1, Zenon DEF Udp!Send
    <3>3. d \in Udp!Messages({0})
      BY UdpConstants DEF UdpInv, UdpType
    <3>4. sent + 1 \in 1 .. MaxSent /\ sent' \in 0 .. MaxSent
      BY <1>2, <3>2
    <3>5. [d EXCEPT !.seq = sent + 1] \in Sent
      BY <3>3, <3>4 DEF Sent, Udp!Messages
    <3>6. net' \in Seq(Sent) /\ Len(net') = Len(net) + 1
      BY <1>2, <3>1, <3>5, Appended
    <3>7. QED
      BY <1>2, <3>2, <3>4, <3>6
  <2>2. CASE Udp!Lose
    <3>1. PICK i \in DOMAIN net : net' = Udp!RemoveAt(net, i)
      BY <2>2, Zenon DEF Udp!Lose
    <3>2. net' \in Seq(Sent) /\ Len(net') = Len(net) - 1
      BY <1>2, <3>1, Removed
    <3>3. sent' = sent
      BY <2>2, Zenon DEF Udp!Lose
    <3>4. QED
      BY <1>2, <3>2, <3>3
  <2>3. CASE Udp!Repeat
    <3>1. PICK i \in DOMAIN net : net' = Append(net, net[i])
      BY <2>3, Zenon DEF Udp!Repeat
    <3>2. Len(net) < MaxFlight /\ sent' = sent
      BY <2>3, Zenon DEF Udp!Repeat
    <3>3. net[i] \in Sent
      BY <1>2
    <3>4. net' \in Seq(Sent) /\ Len(net') = Len(net) + 1
      BY <1>2, <3>1, <3>3, Appended
    <3>5. QED
      BY <1>2, <3>2, <3>4
  <2>4. QED
    BY <2>1, <2>2, <2>3
<1>4. /\ stop \in BOOLEAN /\ app \in {"down", "up", "closing", "joining"}
      /\ app = "down" => cycle = 0 \/ th[cycle] = "ended"
      /\ app # "down" => cycle # 0
  BY DEF UdpInv, UdpType, Lifecycle
<1>5. QED
  BY <1>1, <1>3, <1>4, UdpKept

\* A step of the current thread, or of close(), that keeps the counters.
LEMMA UdpMoved ==
    ASSUME UdpInv, cycle \in Udp!Cycles, stream' = stream, cycle' = cycle, stop' = stop,
           app' = app \/ (app # "down" /\ app' = "joining"),
           UNCHANGED <<datagram, net, sent, total, ok, bad, latest>>,
           NEW t \in ThreadStates, NEW s \in {"none", "open", "closed"}, NEW h \in BOOLEAN,
           th' = [th EXCEPT ![cycle] = t], sock' = [sock EXCEPT ![cycle] = s],
           held' = [held EXCEPT ![cycle] = h],
           \/ t = th[cycle]
           \/ <<th[cycle], t>> \in {<<"starting", "bound">>, <<"bound", "loop">>,
                                   <<"loop", "finally">>, <<"finally", "ended">>},
           app = "down" => t = "ended",
           \/ t = "starting" /\ s = "none" /\ h = FALSE
           \/ t = "bound" /\ s = "open" /\ h = FALSE
           \/ t \in {"loop", "got", "finally"} /\ s = "open" /\ h = TRUE
           \/ t \in {"loop", "got", "finally", "ended"} /\ s = "closed" /\ h = FALSE
    PROVE  UdpInv'
<1>1. UdpType /\ Lifecycle /\ Judging /\ Counted
  BY DEF UdpInv
<1>2. Udp!Reasons' = Udp!Reasons
  BY Zenon DEF Udp!Reasons
<1>3. /\ th' \in [Udp!Cycles -> ThreadStates] /\ held' \in [Udp!Cycles -> BOOLEAN]
      /\ sock' \in [Udp!Cycles -> {"none", "open", "closed"}]
      /\ th'[cycle] = t /\ sock'[cycle] = s /\ held'[cycle] = h
      /\ \A k \in Udp!Cycles : k # cycle => th'[k] = th[k] /\ sock'[k] = sock[k] /\ held'[k] = held[k]
  BY <1>1 DEF UdpType
<1>4. UdpType'
  BY <1>1, <1>2, <1>3 DEF UdpType
<1>5. ASSUME NEW k \in Udp!Cycles PROVE ThreadAt(k)'
  <2>1. CASE k = cycle
    <3>1. cycle \in Int
      BY UdpConstants DEF Udp!Cycles
    <3>2. QED
      BY <1>3, <2>1, <3>1 DEF ThreadAt
  <2>2. CASE k # cycle
    BY <1>1, <1>3, <2>2, ThreadKept DEF Lifecycle
  <2>3. QED
    BY <2>1, <2>2
<1>6. Lifecycle'
  <2>1. cycle # 0
    BY UdpConstants DEF Udp!Cycles
  <2>2. QED
    BY <1>3, <1>5, <2>1 DEF Lifecycle
<1>7. JudgingAt(cycle)' /\ Unread(cycle)' = Unread(cycle)
  <2>1. Unread(cycle)' = Unread(cycle)
    BY Zenon DEF Unread, Udp!Verdict, Udp!Nothing
  <2>2. datagram'[cycle] = datagram[cycle] /\ JudgingAt(cycle) /\ Sent' = Sent
        /\ Udp!Nothing' = Udp!Nothing
    BY <1>1, Zenon DEF Judging, Sent, Udp!Nothing, Udp!Messages
  <2>3. ~Unread(cycle) \/ datagram[cycle] # Udp!Nothing
    BY Zenon DEF Unread
  <2>4. QED
    BY <1>3, <2>1, <2>2, <2>3 DEF JudgingAt
<1>8. Judging' /\ Counted'
  <2>1. ASSUME NEW k \in Udp!Cycles, k # cycle PROVE JudgingAt(k)'
    BY <1>1, <1>3, <2>1, JudgingKept DEF Judging
  <2>2. Judging'
    BY <1>7, <2>1 DEF Judging
  <2>3. Drops' = Drops
    BY Zenon DEF Drops
  <2>4. InHand' = InHand
    <3>1. /\ Udp!Escaped(cycle) <=> th[cycle] \in {"finally", "ended"} /\ Unread(cycle)
          /\ Udp!Escaped(cycle)' <=> t \in {"finally", "ended"} /\ Unread(cycle)
      BY <1>3, <1>7, Zenon DEF Udp!Escaped, Unread
    <3>2. /\ th[cycle] \in {"starting", "bound", "loop"} => ~Unread(cycle)
      BY <1>1, Zenon DEF Judging, JudgingAt, Unread
    <3>3. (th[cycle] = "got" \/ Udp!Escaped(cycle)) <=> (t = "got" \/ Udp!Escaped(cycle)')
      BY <3>1, <3>2
    <3>4. QED
      BY <1>3, <3>3, Zenon DEF InHand
  <2>5. QED
    BY <1>1, <2>2, <2>3, <2>4 DEF Counted
<1>9. Udp!ForwardedIsParsed' /\ Udp!NoTargetNoNumbers'
  BY Zenon DEF UdpInv, Udp!ForwardedIsParsed, Udp!NoTargetNoNumbers
<1>10. QED
  BY <1>4, <1>6, <1>7, <1>8, <1>9 DEF UdpInv

LEMMA UdpClose == UdpInv /\ Udp!Close => UdpInv'
<1> SUFFICES ASSUME UdpInv, Udp!Close PROVE UdpInv'
  OBVIOUS
<1>1. /\ app = "closing" /\ app' = "joining" /\ Udp!CloseSocket(cycle)
      /\ UNCHANGED <<stream, cycle, stop, th, datagram, net, sent, total, ok, bad, latest>>
  BY Zenon DEF Udp!Close, Udp!network, Udp!counts
<1>2. cycle \in Udp!Cycles /\ ThreadAt(cycle)
  BY <1>1, InCycles
<1>3. UdpType
  BY DEF UdpInv
<1>4. PICK t \in ThreadStates, s \in {"none", "open", "closed"}, h \in BOOLEAN :
         t = th[cycle] /\ s = sock[cycle] /\ h = held[cycle]
  BY <1>2, <1>3 DEF UdpType
<1>5. th' = [th EXCEPT ![cycle] = t]
  BY <1>1, <1>3, <1>4 DEF UdpType
<1>6. held' = [held EXCEPT ![cycle] = FALSE]
  BY <1>1 DEF Udp!CloseSocket
<1>7. CASE h = TRUE
  <2>1. sock' = [sock EXCEPT ![cycle] = "closed"]
    BY <1>1, <1>4, <1>7 DEF Udp!CloseSocket
  <2>2. t \in {"loop", "got", "finally"}
    BY <1>2, <1>4, <1>7 DEF ThreadAt
  <2>3. QED
    BY <1>1, <1>2, <1>4, <1>5, <1>6, <2>1, <2>2, UdpMoved
<1>8. CASE h = FALSE
  <2>1. sock' = [sock EXCEPT ![cycle] = s]
    BY <1>1, <1>3, <1>4, <1>8 DEF Udp!CloseSocket, UdpType
  <2>2. \/ t = "starting" /\ s = "none"
        \/ t = "bound" /\ s = "open"
        \/ t \in {"loop", "got", "finally", "ended"} /\ s = "closed"
    BY <1>2, <1>4, <1>8 DEF ThreadAt
  <2>3. QED
    BY <1>1, <1>2, <1>4, <1>5, <1>6, <2>1, <2>2, UdpMoved
<1>9. QED
  BY <1>7, <1>8

\* Bind, Hold, Leave and Finally: the port is free, since only the current thread has a socket.
LEMMA UdpThreadMoves ==
    ASSUME UdpInv, NEW k \in Udp!Cycles,
           Udp!Bind(k) \/ Udp!Hold(k) \/ Udp!Leave(k) \/ Udp!Finally(k)
    PROVE  UdpInv'
<1>1. th[k] \in {"starting", "bound", "loop", "finally"}
  BY Zenon DEF Udp!Bind, Udp!Hold, Udp!Leave, Udp!Finally
<1>2. k = cycle
  BY <1>1, OneMoves
<1>3. UdpType /\ Lifecycle /\ ThreadAt(cycle) /\ cycle \in Udp!Cycles
  BY <1>2 DEF UdpInv, Lifecycle
<1>4. app # "down"
  BY <1>1, <1>2, <1>3, UdpConstants DEF Lifecycle, Udp!Cycles
<1>5. UNCHANGED <<stream, app, cycle, stop, datagram, net, sent, total, ok, bad, latest>>
  BY Zenon DEF Udp!Bind, Udp!Hold, Udp!Leave, Udp!Finally, Udp!life, Udp!network, Udp!counts
<1>6. PICK s \in {"none", "open", "closed"}, h \in BOOLEAN : s = sock[cycle] /\ h = held[cycle]
  BY <1>3 DEF UdpType
<1>7. sock = [sock EXCEPT ![cycle] = s] /\ held = [held EXCEPT ![cycle] = h]
  BY <1>3, <1>6 DEF UdpType
<1>8. CASE Udp!Bind(k)
  <2>1. th[cycle] = "starting"
    BY <1>2, <1>8, Zenon DEF Udp!Bind
  <2>2. Udp!PortFree
    <3> SUFFICES ASSUME NEW j \in Udp!Cycles PROVE sock[j] # "open"
      BY Zenon DEF Udp!PortFree
    <3>1. ThreadAt(j) /\ j \in Int /\ cycle \in Int
      BY <1>3, UdpConstants DEF Lifecycle, Udp!Cycles
    <3>2. QED
      BY <2>1, <3>1 DEF ThreadAt
  <2>3. th' = [th EXCEPT ![cycle] = "bound"] /\ sock' = [sock EXCEPT ![cycle] = "open"]
    BY <1>2, <1>8, <2>2, Zenon DEF Udp!Bind
  <2>4. held[cycle] = FALSE /\ held' = held
    BY <1>3, <1>8, <2>1, Zenon DEF ThreadAt, Udp!Bind
  <2>5. QED
    BY <1>3, <1>4, <1>5, <1>6, <1>7, <2>1, <2>3, <2>4, UdpMoved DEF ThreadStates
<1>9. CASE Udp!Hold(k)
  <2>1. /\ th[cycle] = "bound" /\ th' = [th EXCEPT ![cycle] = "loop"]
        /\ held' = [held EXCEPT ![cycle] = TRUE] /\ sock' = sock
    BY <1>2, <1>9, Zenon DEF Udp!Hold
  <2>2. sock[cycle] = "open"
    BY <1>3, <2>1 DEF ThreadAt
  <2>3. QED
    BY <1>3, <1>4, <1>5, <1>6, <1>7, <2>1, <2>2, UdpMoved DEF ThreadStates
<1>10. CASE Udp!Leave(k)
  <2>1. /\ th[cycle] = "loop" /\ th' = [th EXCEPT ![cycle] = "finally"]
        /\ held' = held /\ sock' = sock
    BY <1>2, <1>10, Zenon DEF Udp!Leave, Udp!sockets
  <2>2. (s = "open" /\ h = TRUE) \/ (s = "closed" /\ h = FALSE)
    BY <1>3, <1>6, <2>1 DEF ThreadAt
  <2>3. QED
    BY <1>3, <1>4, <1>5, <1>7, <2>1, <2>2, UdpMoved DEF ThreadStates
<1>11. CASE Udp!Finally(k)
  <2>1. /\ th[cycle] = "finally" /\ th' = [th EXCEPT ![cycle] = "ended"]
        /\ held' = [held EXCEPT ![cycle] = FALSE]
        /\ sock' = IF held[cycle] THEN [sock EXCEPT ![cycle] = "closed"] ELSE sock
    BY <1>2, <1>11, Zenon DEF Udp!Finally, Udp!CloseSocket
  <2>2. (s = "open" /\ h = TRUE) \/ (s = "closed" /\ h = FALSE)
    BY <1>3, <1>6, <2>1 DEF ThreadAt
  <2>3. sock' = [sock EXCEPT ![cycle] = "closed"]
    BY <1>6, <1>7, <2>1, <2>2
  <2>4. QED
    BY <1>3, <1>4, <1>5, <2>1, <2>3, UdpMoved DEF ThreadStates
<1>12. QED
  BY <1>8, <1>9, <1>10, <1>11

\* What a step of the reader leaves alone, and what is left of it to show.
LEMMA UdpRead ==
    ASSUME UdpInv, cycle \in Udp!Cycles, NEW t \in {"loop", "got", "finally"},
           th[cycle] \in {"loop", "got"}, th' = [th EXCEPT ![cycle] = t],
           \A k \in Udp!Cycles : k # cycle => datagram'[k] = datagram[k],
           UNCHANGED <<stream, app, cycle, stop, sock, held, sent>>
    PROVE  /\ th' \in [Udp!Cycles -> ThreadStates] /\ th'[cycle] = t
           /\ \A k \in Udp!Cycles : k # cycle => JudgingAt(k)'
           /\ Lifecycle' /\ Udp!Reasons' = Udp!Reasons
<1>1. UdpType /\ Lifecycle
  BY DEF UdpInv
<1>2. /\ th' \in [Udp!Cycles -> ThreadStates] /\ th'[cycle] = t
      /\ \A k \in Udp!Cycles : k # cycle => th'[k] = th[k]
  BY <1>1 DEF UdpType, ThreadStates
<1>3. ASSUME NEW k \in Udp!Cycles, k # cycle PROVE JudgingAt(k)'
  BY <1>2, <1>3, JudgingKept DEF UdpInv, Judging
<1>4. ASSUME NEW k \in Udp!Cycles PROVE ThreadAt(k)'
  <2>1. CASE k = cycle
    <3>1. cycle \in Int /\ ThreadAt(cycle)
      BY <1>1, UdpConstants DEF Udp!Cycles, Lifecycle
    <3>2. QED
      BY <1>2, <2>1, <3>1 DEF ThreadAt
  <2>2. CASE k # cycle
    BY <1>1, <1>2, <2>2, ThreadKept DEF Lifecycle
  <2>3. QED
    BY <2>1, <2>2
<1>5. Lifecycle'
  <2>1. cycle # 0
    BY UdpConstants DEF Udp!Cycles
  <2>2. app # "down"
    BY <1>1, <2>1 DEF Lifecycle
  <2>3. QED
    BY <1>4, <2>1, <2>2 DEF Lifecycle
<1>6. Udp!Reasons' = Udp!Reasons
  BY Zenon DEF Udp!Reasons
<1>7. QED
  BY <1>2, <1>3, <1>5, <1>6

LEMMA UdpReceive ==
    ASSUME UdpInv, NEW k \in Udp!Cycles, Udp!Receive(k)
    PROVE  UdpInv'
<1>1. th[k] = "loop"
  BY Zenon DEF Udp!Receive
<1>2. k = cycle /\ cycle \in Udp!Cycles
  BY <1>1, OneMoves
<1>3. UdpType /\ Counted
  BY DEF UdpInv
<1>4. PICK i \in DOMAIN net : /\ datagram' = [datagram EXCEPT ![cycle] = net[i]]
                              /\ net' = Udp!RemoveAt(net, i)
  BY <1>2, Zenon DEF Udp!Receive
<1>5. /\ th' = [th EXCEPT ![cycle] = "got"] /\ total' = total + 1
      /\ UNCHANGED <<stream, app, cycle, stop, sock, held, sent, ok, bad, latest>>
  BY <1>2, Zenon DEF Udp!Receive, Udp!life, Udp!sockets
<1>6. /\ th' \in [Udp!Cycles -> ThreadStates] /\ th'[cycle] = "got"
      /\ \A j \in Udp!Cycles : j # cycle => JudgingAt(j)'
      /\ Lifecycle' /\ Udp!Reasons' = Udp!Reasons
  <2>1. \A j \in Udp!Cycles : j # cycle => datagram'[j] = datagram[j]
    BY <1>3, <1>4 DEF UdpType
  <2>2. QED
    BY <1>1, <1>2, <1>5, <2>1, UdpRead
<1>7. net \in Seq(Sent) /\ Len(net) \in Nat /\ Len(net) <= MaxFlight /\ MaxFlight \in Nat
  BY <1>3, UdpConstants DEF UdpType
<1>8. net' \in Seq(Sent) /\ Len(net') <= MaxFlight
  <2>1. net' \in Seq(Sent) /\ Len(net') = Len(net) - 1
    BY <1>4, <1>7, Removed
  <2>2. QED
    BY <1>7, <2>1
<1>9. net[i] \in Sent
  BY <1>7
<1>10. datagram' \in [Udp!Cycles -> {Udp!Nothing} \cup Sent] /\ datagram'[cycle] \in Sent
  BY <1>2, <1>3, <1>4, <1>9 DEF UdpType
<1>11. UdpType'
  <2>1. total' \in Nat
    BY <1>3, <1>5 DEF UdpType
  <2>2. QED
    BY <1>3, <1>5, <1>6, <1>8, <1>10, <2>1 DEF UdpType
<1>12. Judging'
  <2>1. JudgingAt(cycle)'
    <3>1. Sent' = Sent
      BY Zenon DEF Sent, Udp!Messages
    <3>2. QED
      BY <1>5, <1>6, <1>10, <3>1 DEF JudgingAt
  <2>2. QED
    BY <1>2, <1>5, <1>6, <2>1 DEF Judging
<1>13. Counted'
  <2>1. Drops' = Drops
    BY <1>5, Zenon DEF Drops
  <2>2. cycle # 0
    BY <1>2, UdpConstants DEF Udp!Cycles
  <2>3. InHand = 0 /\ InHand' = 1
    BY <1>1, <1>2, <1>5, <1>6, <2>2, InHandAt DEF InHandRule
  <2>4. Drops \in Int
    BY <1>3 DEF UdpType, Drops, Udp!Reasons
  <2>5. QED
    BY <1>3, <1>5, <2>1, <2>3, <2>4 DEF Counted, UdpType
<1>14. Udp!ForwardedIsParsed' /\ Udp!NoTargetNoNumbers'
  BY <1>5, Zenon DEF UdpInv, Udp!ForwardedIsParsed, Udp!NoTargetNoNumbers
<1>15. QED
  BY <1>6, <1>11, <1>12, <1>13, <1>14 DEF UdpInv

LEMMA DropsAreANumber == UdpType => Drops \in Int
BY DEF UdpType, Drops, Udp!Reasons

\* One more drop of some reason is one more drop.
LEMMA OneMoreDrop ==
    ASSUME UdpType, NEW r \in Udp!Reasons, bad' = [bad EXCEPT ![r] = @ + 1], stream' = stream
    PROVE  bad' \in [Udp!Reasons -> Nat] /\ Drops' = Drops + 1 /\ Drops \in Int
<1>1. bad' \in [Udp!Reasons -> Nat]
  BY DEF UdpType
<1>2. CASE stream = "vis"
  <2>1. /\ bad \in [{"oversize", "json", "schema", "range", "semantics"} -> Nat]
        /\ r \in {"oversize", "json", "schema", "range", "semantics"}
    BY <1>2 DEF UdpType, Udp!Reasons
  <2>2. Drops' = Drops + 1 /\ Drops \in Int
    BY <1>2, <2>1 DEF Drops
  <2>3. QED
    BY <1>1, <2>2
<1>3. CASE stream # "vis"
  <2>1. /\ bad \in [{"oversize", "json", "schema", "range"} -> Nat]
        /\ r \in {"oversize", "json", "schema", "range"}
    BY <1>3 DEF UdpType, Udp!Reasons
  <2>2. Drops' = Drops + 1 /\ Drops \in Int
    BY <1>3, <2>1 DEF Drops
  <2>3. QED
    BY <1>1, <2>2
<1>4. QED
  BY <1>2, <1>3

LEMMA VerdictStays ==
    ASSUME NEW d, stream' = stream
    PROVE  (Udp!Verdict(d) = "overflow")' <=> Udp!Verdict(d) = "overflow"
BY Zenon DEF Udp!Verdict

\* What a step to t that judges d leaves to show.
LEMMA UdpJudged ==
    ASSUME UdpInv, NEW k \in Udp!Cycles, Udp!Judge(k), NEW t \in {"loop", "finally"},
           NEW d \in Sent, d = datagram[k], th' = [th EXCEPT ![k] = t],
           t = "loop" => Udp!Verdict(d) # "overflow",
           t = "finally" => Udp!Verdict(d) = "overflow",
           ok' \in Nat, bad' \in [Udp!Reasons -> Nat], latest'.seq \in 0 .. MaxSent,
           total = ok' + Drops' + (IF t = "loop" THEN 0 ELSE 1),
           Udp!ForwardedIsParsed', Udp!NoTargetNoNumbers'
    PROVE  UdpInv'
<1>1. th[k] = "got" /\ k = cycle /\ cycle \in Udp!Cycles /\ cycle # 0
  <2>1. th[k] = "got"
    BY Zenon DEF Udp!Judge
  <2>2. QED
    BY <2>1, OneMoves, UdpConstants DEF Udp!Cycles
<1>2. UNCHANGED <<stream, app, cycle, stop, sock, held, datagram, net, sent, total>>
  BY Zenon DEF Udp!Judge, Udp!life, Udp!sockets, Udp!network
<1>3. UdpType
  BY DEF UdpInv
<1>4. /\ th' \in [Udp!Cycles -> ThreadStates] /\ th'[cycle] = t
      /\ \A j \in Udp!Cycles : j # cycle => JudgingAt(j)'
      /\ Lifecycle' /\ Udp!Reasons' = Udp!Reasons
  BY <1>1, <1>2, UdpRead
<1>5. UdpType'
  BY <1>2, <1>3, <1>4 DEF UdpType
<1>6. Unread(cycle)' <=> t = "finally"
  <2>1. d # Udp!Nothing
    BY SentIsSomething
  <2>2. datagram'[cycle] = d /\ cycle' = cycle
    BY <1>1, <1>2
  <2>3. Unread(cycle)' <=> (Udp!Verdict(d) = "overflow")'
    BY <2>1, <2>2, Zenon DEF Unread, Udp!Nothing, Udp!Verdict
  <2>4. t = "finally" <=> Udp!Verdict(d) = "overflow"
    OBVIOUS
  <2>5. QED
    BY <1>2, <2>3, <2>4, VerdictStays
<1>7. Judging'
  <2>1. JudgingAt(cycle)'
    BY <1>2, <1>4, <1>6 DEF JudgingAt
  <2>2. QED
    BY <1>2, <1>4, <2>1 DEF Judging
<1>8. Counted'
  <2>1. cycle' # 0 /\ cycle' = cycle
    BY <1>1, <1>2
  <2>2. InHand' = IF t = "loop" THEN 0 ELSE 1
    BY <1>1, <1>4, <1>6, <2>1, InHandAt DEF InHandRule
  <2>3. QED
    BY <1>2, <2>2, Zenon DEF Counted
<1>9. QED
  BY <1>4, <1>5, <1>7, <1>8 DEF UdpInv

LEMMA UdpJudge ==
    ASSUME UdpInv, NEW k \in Udp!Cycles, Udp!Judge(k)
    PROVE  UdpInv'
<1>1. UdpType /\ Udp!ForwardedIsParsed /\ Udp!NoTargetNoNumbers
  BY DEF UdpInv
<1>2. th[k] = "got" /\ (Udp!Accept(k) \/ Udp!Drop(k) \/ Udp!Escape(k)) /\ stream' = stream
  BY Zenon DEF Udp!Judge, Udp!life
<1>3. PICK d \in Sent : d = datagram[k]
  BY <1>2 DEF UdpInv, Judging, JudgingAt
<1>4. Drops \in Int /\ ok \in Nat /\ bad \in [Udp!Reasons -> Nat] /\ latest.seq \in 0 .. MaxSent
  BY <1>1, DropsAreANumber DEF UdpType
<1>9. total = ok + Drops + 1
  <2>1. k = cycle /\ cycle # 0
    BY <1>2, OneMoves, UdpConstants DEF Udp!Cycles
  <2>2. InHand = 1
    BY <1>2, <2>1, InHandAt DEF InHandRule
  <2>3. QED
    BY <2>2, Zenon DEF UdpInv, Counted
<1>5. CASE Udp!Accept(k)
  <2>1. /\ Accepted(d) /\ ok' = ok + 1 /\ bad' = bad /\ th' = [th EXCEPT ![k] = "loop"]
        /\ latest' = IF stream = "vis" THEN Udp!Normalized(d) ELSE d
    BY <1>3, <1>5, Zenon DEF Udp!Accept, Accepted
  <2>2. Drops' = Drops
    BY <1>2, <2>1, Zenon DEF Drops
  <2>3. d.seq \in 0 .. MaxSent
    BY UdpConstants DEF Sent, Udp!Messages
  <2>4. latest'.seq = d.seq
    BY <2>1, KeptSample
  <2>5. Udp!ForwardedIsParsed' /\ Udp!NoTargetNoNumbers'
    <3>1. CASE stream = "vis"
      <4>1. PICK m : m = Udp!Normalized(d)
        OBVIOUS
      <4>2. latest' = m
        BY <2>1, <3>1, <4>1
      <4>3. /\ Udp!FcParses(Udp!TrackingObject(m)) <=> ~m.wide /\ Udp!Finite(m.ts) /\ ~m.tiny
            /\ m.state # Udp!Tracking => m.loc = 0 /\ m.bound = 0 /\ m.conf = 0
        BY <2>1, <3>1, <4>1, KeptSample
      <4>4. QED
        BY <4>2, <4>3, Zenon DEF Udp!ForwardedIsParsed, Udp!NoTargetNoNumbers
    <3>2. CASE stream # "vis"
      BY <1>2, <3>2, Zenon DEF Udp!ForwardedIsParsed, Udp!NoTargetNoNumbers
    <3>3. QED
      BY <3>1, <3>2
  <2>6. Udp!Verdict(d) # "overflow"
    BY <2>1, Zenon DEF Accepted
  <2>7. total = ok' + Drops' + 0 /\ ok' \in Nat
    BY <1>4, <1>9, <2>1, <2>2
  <2>8. bad' \in [Udp!Reasons -> Nat] /\ latest'.seq \in 0 .. MaxSent
    BY <1>4, <2>1, <2>3, <2>4
  <2>9. QED
    BY <1>3, <2>1, <2>5, <2>6, <2>7, <2>8, UdpJudged
<1>6. CASE Udp!Drop(k)
  <2>1. PICK r \in Udp!Reasons : r = Udp!Verdict(d)
    BY <1>3, <1>6, Zenon DEF Udp!Drop
  <2>2. /\ bad' = [bad EXCEPT ![r] = @ + 1] /\ ok' = ok /\ latest' = latest
        /\ th' = [th EXCEPT ![k] = "loop"]
    BY <1>3, <1>6, <2>1, Zenon DEF Udp!Drop
  <2>3. bad' \in [Udp!Reasons -> Nat] /\ Drops' = Drops + 1 /\ Drops \in Int
    BY <1>1, <1>2, <2>2, OneMoreDrop
  <2>4. Udp!ForwardedIsParsed' /\ Udp!NoTargetNoNumbers'
    BY <1>1, <1>2, <2>2, Zenon DEF Udp!ForwardedIsParsed, Udp!NoTargetNoNumbers
  <2>5. Udp!Verdict(d) # "overflow"
    BY <2>1 DEF Udp!Reasons
  <2>6. total = ok' + Drops' + 0 /\ ok' \in Nat
    BY <1>4, <1>9, <2>2, <2>3
  <2>7. QED
    BY <1>3, <1>4, <2>2, <2>3, <2>4, <2>5, <2>6, UdpJudged
<1>7. CASE Udp!Escape(k)
  <2>1. /\ Udp!Verdict(d) = "overflow" /\ th' = [th EXCEPT ![k] = "finally"]
        /\ UNCHANGED <<ok, latest, bad>>
    BY <1>3, <1>7, Zenon DEF Udp!Escape
  <2>2. Drops' = Drops
    BY <1>2, <2>1, Zenon DEF Drops
  <2>3. Udp!ForwardedIsParsed' /\ Udp!NoTargetNoNumbers'
    BY <1>1, <1>2, <2>1, Zenon DEF Udp!ForwardedIsParsed, Udp!NoTargetNoNumbers
  <2>4. total = ok' + Drops' + 1 /\ ok' \in Nat
    BY <1>4, <1>9, <2>1, <2>2
  <2>5. QED
    BY <1>3, <1>4, <2>1, <2>3, <2>4, UdpJudged
<1>8. QED
  BY <1>2, <1>5, <1>6, <1>7

LEMMA UdpBegins == Udp!Init => UdpInv
<1> SUFFICES ASSUME Udp!Init PROVE UdpInv
  OBVIOUS
<1>1. /\ stream \in {"vis", "tel"} /\ app = "down" /\ cycle = 0 /\ stop = FALSE
      /\ th = [k \in Udp!Cycles |-> "none"] /\ sock = [k \in Udp!Cycles |-> "none"]
      /\ held = [k \in Udp!Cycles |-> FALSE] /\ datagram = [k \in Udp!Cycles |-> Udp!Nothing]
      /\ net = <<>> /\ sent = 0 /\ total = 0 /\ ok = 0 /\ bad = [r \in Udp!Reasons |-> 0]
      /\ latest = Udp!Nothing
  BY Zenon DEF Udp!Init, Udp!Protocols
<1>2. net \in Seq(Sent) /\ Len(net) <= MaxFlight
  BY <1>1, UdpConstants
<1>3. latest.seq = 0
  BY <1>1 DEF Udp!Nothing
<1>4. UdpType
  <2>1. /\ cycle \in 0 .. MaxCycles /\ sent \in 0 .. MaxSent /\ latest.seq \in 0 .. MaxSent
        /\ total \in Nat /\ ok \in Nat
    BY <1>1, <1>3, UdpConstants
  <2>2. /\ th \in [Udp!Cycles -> ThreadStates] /\ held \in [Udp!Cycles -> BOOLEAN]
        /\ sock \in [Udp!Cycles -> {"none", "open", "closed"}]
    BY <1>1 DEF ThreadStates
  <2>3. datagram \in [Udp!Cycles -> {Udp!Nothing} \cup Sent]
    BY <1>1, Zenon
  <2>4. bad \in [Udp!Reasons -> Nat]
    BY <1>1
  <2>5. QED
    BY <1>1, <1>2, <2>1, <2>2, <2>3, <2>4, Zenon DEF UdpType
<1>5. Lifecycle
  BY <1>1, UdpConstants DEF Lifecycle, ThreadAt, Udp!Cycles
<1>6. Judging
  BY <1>1, Zenon DEF Judging, JudgingAt
<1>9. Counted
  <2>1. InHand = 0
    BY <1>1 DEF InHand
  <2>2. QED
    BY <1>1, <2>1 DEF Counted, Drops, Udp!Reasons
<1>7. Udp!ForwardedIsParsed /\ Udp!NoTargetNoNumbers
  BY <1>1, Zenon DEF Udp!ForwardedIsParsed, Udp!NoTargetNoNumbers
<1>8. QED
  BY <1>4, <1>5, <1>6, <1>7, <1>9 DEF UdpInv

LEMMA UdpStutter == UdpInv /\ UNCHANGED ingest => UdpInv'
<1> SUFFICES ASSUME UdpInv, UNCHANGED ingest PROVE UdpInv'
  OBVIOUS
<1>1. UNCHANGED <<stream, app, cycle, stop, th, datagram, sock, held, net, sent, total, ok, bad, latest>>
  BY Zenon DEF ingest
<1>2. UdpType /\ Lifecycle
  BY DEF UdpInv
<1>3. QED
  BY <1>1, <1>2, UdpKept DEF UdpType, Lifecycle

LEMMA UdpStep == UdpInv /\ Udp!Next => UdpInv'
<1> SUFFICES ASSUME UdpInv, Udp!Next PROVE UdpInv'
  OBVIOUS
<1>1. ASSUME NEW k \in Udp!Cycles, Udp!Thread(k) PROVE UdpInv'
  <2>1. \/ Udp!Bind(k) \/ Udp!Hold(k) \/ Udp!Leave(k) \/ Udp!Finally(k)
        \/ Udp!Receive(k) \/ Udp!Judge(k)
    BY <1>1, Zenon DEF Udp!Thread
  <2>2. QED
    BY <2>1, UdpThreadMoves, UdpReceive, UdpJudge, Zenon
<1>2. QED
  BY <1>1, UdpStartup, UdpShutdown, UdpClose, UdpJoin, UdpNetwork, Zenon DEF Udp!Next

LEMMA UdpAlways == BackendSpec => []UdpInv
<1>1. BackendInit => UdpInv
  BY UdpBegins DEF BackendInit
<1>2. UdpInv /\ [BackendNext]_<<part, vars, gate, video, ingest, sweep>> => UdpInv'
  <2> SUFFICES ASSUME UdpInv, [BackendNext]_<<part, vars, gate, video, ingest, sweep>>
               PROVE  UdpInv'
    OBVIOUS
  <2>1. Udp!Next \/ UNCHANGED ingest
    BY Zenon DEF BackendNext
  <2>2. QED
    BY <2>1, UdpStep, UdpStutter
<1>3. QED
  BY <1>1, <1>2, PTL DEF BackendSpec

\* The threads that judge are the current one, or none.
LEMMA JudgesCounted ==
    ASSUME UdpInv
    PROVE  /\ Udp!Cardinality({k \in Udp!Cycles : th[k] = "got"}) \in Int
           /\ Udp!Cardinality({k \in Udp!Cycles : th[k] = "got"})
                 + (IF cycle # 0 /\ Udp!Escaped(cycle) THEN 1 ELSE 0) = InHand
<1> DEFINE judges == {k \in Udp!Cycles : th[k] = "got"}
<1>1. Udp!Cardinality(judges) = Cardinality(judges)
  BY Zenon DEF Udp!Cardinality, Cardinality
<1>2. \A k \in judges : k = cycle
  BY OneMoves
<1>3. CASE cycle # 0 /\ th[cycle] = "got"
  <2>1. cycle \in Udp!Cycles
    BY <1>3, UdpConstants DEF UdpInv, UdpType, Udp!Cycles
  <2>2. judges = {cycle}
    BY <1>2, <1>3, <2>1
  <2>3. Udp!Cardinality(judges) = 1
    BY <1>1, <2>2, FS_Singleton, Zenon
  <2>4. ~Udp!Escaped(cycle) /\ InHand = 1
    BY <1>3 DEF Udp!Escaped, InHand
  <2>5. QED
    BY <2>3, <2>4
<1>4. CASE ~(cycle # 0 /\ th[cycle] = "got")
  <2>1. 0 \notin Udp!Cycles
    BY UdpConstants DEF Udp!Cycles
  <2>2. judges = {}
    BY <1>2, <1>4, <2>1
  <2>3. Udp!Cardinality(judges) = 0
    BY <1>1, <2>2, FS_EmptySet, Zenon
  <2>4. InHand = IF cycle # 0 /\ Udp!Escaped(cycle) THEN 1 ELSE 0
    BY <1>4, Zenon DEF InHand
  <2>5. QED
    BY <2>3, <2>4
<1>5. QED
  BY <1>3, <1>4

\* In either stream every datagram received is counted once as accepted or dropped, but one whose
\* reading ended the thread.  A sample kept of the vision is one the flight controller's parser
\* takes unless its seq, its timestamp or a number too small for it, which the schema never asks,
\* makes it refuse; it has no numbers when it has no target.  A shutdown leaves neither thread nor
\* socket.  This is so whatever is sent, and however the network loses, repeats and reorders it
\* while the backend starts and stops.
THEOREM IngestStaysSound == BackendSpec => []IngestIsSound
<1>1. UdpInv => IngestIsSound
  <2> SUFFICES ASSUME UdpInv
               PROVE  /\ Udp!TypeOK /\ Udp!CountersAddUp /\ Udp!ShutdownIsClean
                      /\ Udp!ForwardedIsParsed /\ Udp!NoTargetNoNumbers
    BY DEF IngestIsSound
  <2>1. UdpType /\ Lifecycle /\ Counted /\ Udp!ForwardedIsParsed /\ Udp!NoTargetNoNumbers
    BY DEF UdpInv
  <2>2. ASSUME NEW k \in Udp!Cycles
        PROVE  /\ held[k] => sock[k] = "open"
               /\ app = "down" => th[k] \in {"none", "ended"} /\ sock[k] # "open"
    <3>1. ThreadAt(k) /\ k \in Int /\ cycle \in Int /\ k # 0
      BY <2>1, UdpConstants DEF Lifecycle, UdpType, Udp!Cycles
    <3>2. app = "down" /\ k = cycle => th[k] = "ended"
      BY <2>1, <3>1 DEF Lifecycle
    <3>3. QED
      BY <3>1, <3>2 DEF ThreadAt
  <2>3. Udp!TypeOK
    BY <2>1, <2>2, Zenon DEF UdpType, Udp!TypeOK, ThreadStates, Udp!Protocols
  <2>4. Udp!ShutdownIsClean
    BY <2>2, Zenon DEF Udp!ShutdownIsClean
  <2>5. Udp!CountersAddUp
    <3>1. /\ bad["oversize"] \in Int /\ bad["json"] \in Int /\ bad["schema"] \in Int
          /\ bad["range"] \in Int /\ (stream = "vis" => bad["semantics"] \in Int)
          /\ ok \in Int
      BY <2>1 DEF UdpType, Udp!Reasons
    <3>2. InHand \in Int /\ total = ok + Drops + InHand
      BY <2>1 DEF InHand, Counted
    <3>3. total = ok + bad["oversize"] + bad["json"] + bad["schema"] + bad["range"]
                  + (IF stream = "vis" THEN bad["semantics"] ELSE 0) + InHand
      BY <3>1, <3>2 DEF Drops
    <3>4. PICK sum \in Int :
             sum = ok + bad["oversize"] + bad["json"] + bad["schema"] + bad["range"]
                   + (IF stream = "vis" THEN bad["semantics"] ELSE 0)
      BY <3>1
    <3>5. QED
      BY <3>3, <3>4, JudgesCounted DEF Udp!CountersAddUp
  <2>6. QED
    BY <2>1, <2>3, <2>4, <2>5
<1>2. QED
  BY <1>1, UdpAlways, PTL
=============================================================================
