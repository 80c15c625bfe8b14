----------------------------- MODULE PlotDriver -----------------------------
(***************************************************************************)
(* One run of the plot driver (portal/plot_driver.py), a process of its    *)
(* own, as what it leaves: an exit code and the known artifacts in the     *)
(* work directory.  A code of codex or of the generated script that is not *)
(* 0 is written 1; both may write and remove any file.                     *)
(***************************************************************************)
EXTENDS PortalBase

Outcome(code, F) == [code |-> code, files |-> F]
Logged(code, F) == Outcome(code, F \cup {"log"})

\* --fail, or a PLOT_DRIVER_EXECUTOR that is neither fake nor codex.
RefusedRuns == {Logged(2, {})}

FakeRuns == {Outcome(0, KnownKinds)}

\* Neither the environment nor the secret store has an OPENAI_API_KEY.
KeylessRuns == {Logged(3, {})}

\* Faulty variant: nobody looks for the plot after uv run generated.py.
AfterScriptUnchecked(files, uv) == Logged(uv, files)

AfterScript(files, uv) ==
    Logged(IF uv # 0 THEN uv ELSE IF "plot" \notin files THEN 5 ELSE 0, files)

\* Codex leaves made; the driver then runs its script, which leaves what it
\* likes: only the plot is looked for again.
AfterCodex(made, left, codex, uv) ==
    IF codex # 0 THEN Logged(codex, made)
    ELSE IF "script" \notin made THEN Logged(4, made)
    ELSE AfterScript(left, uv)

CodexRuns == {AfterCodex(made, left, codex, uv) :
                 made \in SUBSET (KnownKinds \ {"log"}),
                 left \in SUBSET (KnownKinds \ {"log"}),
                 codex \in {0, 1}, uv \in {0, 1}}

\* An exception leaves main: no codex or uv executable, a secret store that
\* cannot be reached.  The interpreter exits with 1, at any point of the run.
CrashedRuns == {Outcome(1, F) : F \in SUBSET KnownKinds}

DriverRuns == RefusedRuns \cup FakeRuns \cup KeylessRuns \cup CodexRuns \cup CrashedRuns
=============================================================================
