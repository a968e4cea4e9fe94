---------------------------- MODULE MCBackground ----------------------------
(***************************************************************************)
(* TLC instance of the three slow loops of the hub (bridge/src/main.rs)    *)
(* and of the installer of the hooks beside it.  They read different       *)
(* things and write into different places, so TLC runs them one at a time: *)
(* loop says which one.  A turn is varied only in what that loop reads of  *)
(* it.  The installer meets one hook of the user's, two URLs, and blocks   *)
(* in the arrangements that edits and older versions leave.                *)
(***************************************************************************)
EXTENDS Metrics, Usage, InstallHooks

CONSTANTS claude, codex, opencode, hermes,  \* a session of each tool
          sonnet, sonnetDated, haiku,       \* models
          aPrompt,                          \* one of the prompts
          guard,                            \* a command of the user's
          here, there                       \* vibe_hook, for two URLs

VARIABLE loop

backgroundVars == <<loop, metricsVars, usageVars, vars>>

ToolOfId ==
  [s \in Sessions |-> CASE s = claude -> "claude" [] s = codex -> "codex"
                        [] s = opencode -> "opencode" [] s = hermes -> "hermes"]
LabelOf == [m \in Models |-> IF m = haiku THEN "haiku" ELSE "sonnet"]
KnownPrices == {sonnet, sonnetDated, "codex"}

MCEdits ==
  {Scalar, <<>>, <<{guard}>>, <<{here}, {guard}, {here}>>, <<{there}, {here, guard}>>}

BackgroundInit ==
  /\ loop \in {"metrics", "titles", "usage", "install"}
  /\ MetricsInit /\ UsageInit /\ Init
  /\ loop # "install" => settings = Missing

WithMetrics ==
  /\ loop = "metrics"
  /\ \/ \E turn \in Turn : turn.prompt = aPrompt /\ Work(turn)
     \/ \E s \in Sessions : Archive(s)
     \/ Midnight
     \/ BeginPass \/ ReadStore \/ PublishMetrics
  /\ UNCHANGED <<loop, usageVars, vars>>

WithTitles ==
  /\ loop = "titles"
  /\ \/ \E turn \in Turn : turn.model = sonnet /\ turn.tokens = 1 /\ Work(turn)
     \/ \E s \in Sessions : Archive(s) \/ \E name \in Names : Name(s, name)
     \/ Midnight
     \/ BuildTitles
  /\ UNCHANGED <<loop, usageVars, vars>>

WithUsage ==
  /\ loop = "usage"
  /\ UsageNext
  /\ UNCHANGED <<loop, metricsVars, vars>>

WithInstaller ==
  /\ loop = "install"
  /\ Next
  /\ UNCHANGED <<loop, metricsVars, usageVars>>

BackgroundNext == WithMetrics \/ WithTitles \/ WithUsage \/ WithInstaller

BackgroundSpec == BackgroundInit /\ [][BackgroundNext]_backgroundVars
=============================================================================
