------------------------------- MODULE Metrics -------------------------------
(***************************************************************************)
(* What was spent today, and what the sessions are about                   *)
(* (bridge/src/metrics.rs, the two 120-second loops of bridge/src/main.rs).*)
(*                                                                         *)
(* Agents append turns to their stores.  A pass of the metrics loop reads  *)
(* the four kinds of store one after the other, each by its own rule for   *)
(* what is of today, and publishes the rollup; turns and midnight may come *)
(* in between.  The titles loop takes the title of a session from its own  *)
(* part of a store alone, so a pass of it is one step.                     *)
(***************************************************************************)
EXTENDS Naturals, Sequences, FiniteSetsExt

CONSTANTS
  Sessions,    (* ids of the sessions                                      *)
  ToolOf,      (* [Sessions -> Tools]                                      *)
  Models,      (* raw model ids                                            *)
  Label,       (* [Models -> short labels], short_model                    *)
  Priced,      (* the models with a price; "codex" when Codex has one      *)
  Prompts,     (* what a turn begins with, cut to a title                  *)
  Noise,       (* the prompts that is_noise_prompt turns down              *)
  Names,       (* what a tool calls a session in its title column          *)
  MaxTurns,    (* bound: turns of all agents                               *)
  MaxTokens,   (* bound: tokens of a turn                                  *)
  MaxDay,      (* bound: the last day                                      *)
  None         (* no title, no price, no pass, nothing published           *)

VARIABLES
  day,         (* the local day                                            *)
  turns,       (* what the stores hold: a sequence of turns                *)
  names,       (* [Sessions -> Names or None], the title columns           *)
  archived,    (* the sessions that were archived                          *)
  pass,        (* the pass of the metrics loop: when it began, what it has *)
  metrics,     (* Shared.metrics                                           *)
  titles       (* Shared.titles                                            *)

metricsVars == <<day, turns, names, archived, pass, metrics, titles>>

Tools == {"claude", "codex", "opencode", "hermes"}
ReadingOrder == <<"claude", "codex", "opencode", "hermes">>
HasNames == {"opencode", "hermes"}

(* The tokens of a turn may be none.                                       *)
Turn == [session : Sessions, prompt : Prompts, model : Models,
         tokens : 0 .. MaxTokens, day : 0 .. MaxDay]

ASSUME MetricsAssumption ==
  /\ ToolOf \in [Sessions -> Tools]
  /\ DOMAIN Label = Models /\ Noise \subseteq Prompts
  /\ None \notin Names \cup Nat
  /\ MaxTurns \in Nat /\ MaxTokens \in Nat /\ MaxDay \in Nat

-----------------------------------------------------------------------------
(* The sum of the values of a function, counted one by one.                *)
Total(f) == Cardinality(UNION {{x} \X (1 .. f[x]) : x \in DOMAIN f})

-----------------------------------------------------------------------------
(* Reading the stores.  A transcript is the turns of its session: the      *)
(* positions that they have among all turns.                               *)

Of(s) == {i \in DOMAIN turns : turns[i].session = s}
FirstOf(s) == turns[Min(Of(s))]
LastOf(s) == turns[Max(Of(s))]
Stored(tool) == {s \in Sessions : ToolOf[s] = tool /\ Of(s) # {}}
TokensOf(some) == Total([i \in some |-> turns[i].tokens])

(* A file that was written to since midnight counts, whole.                *)
Touched(s, since) == LastOf(s).day >= since

(* A contribution to a provider: the tokens that some item of a store says *)
(* a session spent with a model, and whether they have a price.            *)
Spent(item, s, model, tokens, priced) ==
  [item |-> item, session |-> s, model |-> model, tokens |-> tokens, priced |-> priced]

(* claude_metrics: per file and model.                                     *)
ClaudeSpent(since) ==
  {Spent("file", s, model,
         TokensOf({i \in Of(s) : turns[i].model = model}), model \in Priced) :
     s \in {f \in Stored("claude") : Touched(f, since)}, model \in Models}

(* codex_metrics: the last snapshot of a file has all its tokens, under    *)
(* the first model named there.  Mutant: the last turn's tokens.           *)
CodexSpentLast(since) ==
  {Spent("file", s, FirstOf(s).model, LastOf(s).tokens, "codex" \in Priced) :
     s \in {f \in Stored("codex") : Touched(f, since)}}
CodexSpent(since) ==
  {Spent("file", s, FirstOf(s).model, TokensOf(Of(s)), "codex" \in Priced) :
     s \in {f \in Stored("codex") : Touched(f, since)}}

(* opencode_metrics: the messages since midnight, one by one.              *)
OpenCodeSpent(since) ==
  {Spent(i, turns[i].session, turns[i].model, turns[i].tokens, turns[i].model \in Priced) :
     i \in {j \in DOMAIN turns :
              ToolOf[turns[j].session] = "opencode" /\ turns[j].day >= since}}

(* hermes_metrics: the sessions begun since midnight that are not archived.*)
HermesSpent(since) ==
  {Spent("row", s, FirstOf(s).model, TokensOf(Of(s)), FirstOf(s).model \in Priced) :
     s \in {r \in Stored("hermes") \ archived : FirstOf(r).day >= since}}

Contributions(tool, since) ==
  LET all == CASE tool = "claude"   -> ClaudeSpent(since)
               [] tool = "codex"    -> CodexSpent(since)
               [] tool = "opencode" -> OpenCodeSpent(since)
               [] tool = "hermes"   -> HermesSpent(since)
  IN  {c \in all : c.tokens > 0}

-----------------------------------------------------------------------------
(* The rollup.                                                             *)

Tokens(spent) == Total([c \in spent |-> c.tokens])
Usd(spent) ==
  LET paid == {c \in spent : c.priced} IN IF paid = {} THEN None ELSE Tokens(paid)

(* finalize: raw ids that share a label are merged.  Mutant: one of them   *)
(* stands for all.                                                         *)
ByModelLast(spent) ==
  LET one(label) == CHOOSE c \in spent : Label[c.model] = label IN
  {[model |-> label, tokens |-> one(label).tokens, usd |-> Usd({one(label)})] :
     label \in {Label[c.model] : c \in spent}}
ByModel(spent) ==
  LET labelled(label) == {c \in spent : Label[c.model] = label} IN
  {[model |-> label, tokens |-> Tokens(labelled(label)), usd |-> Usd(labelled(label))] :
     label \in {Label[c.model] : c \in spent}}

(* Builder: the one with the most tokens is the provider's model.          *)
ProviderMetric(spent) ==
  LET models == ByModel(spent) IN
  [tokens   |-> Tokens(spent),
   usd      |-> Usd(spent),
   sessions |-> Cardinality({c.session : c \in spent}),
   models   |-> models,
   model    |-> IF models = {} THEN None
                ELSE (CHOOSE m \in models : \A o \in models : m.tokens >= o.tokens).model]

Provider(read, tool) == read[CHOOSE i \in 1 .. 4 : ReadingOrder[i] = tool]

(* summarize_metrics.                                                      *)
Summary(read, since, from) ==
  LET active == {i \in 1 .. 4 : read[i].tokens > 0}
      priced == {i \in active : read[i].usd # None}
  IN  [providers |-> [tool \in Tools |-> Provider(read, tool)],
       tokens    |-> Total([i \in 1 .. 4 |-> read[i].tokens]),
       sessions  |-> Total([i \in 1 .. 4 |-> read[i].sessions]),
       usd       |-> IF priced = {} THEN None
                     ELSE Total([i \in priced |-> read[i].usd]),
       active    |-> Cardinality(active),
       complete  |-> active # {} /\ priced = active,
       since     |-> since,
       from      |-> from]

-----------------------------------------------------------------------------
(* Titles.                                                                 *)

(* The first prompt that says something.  Mutant: the last.                *)
Said(s) == {i \in Of(s) : turns[i].prompt \notin Noise}
LastPrompt(s) == IF Said(s) = {} THEN None ELSE turns[Max(Said(s))].prompt
FirstPrompt(s) == IF Said(s) = {} THEN None ELSE turns[Min(Said(s))].prompt

(* Codex files are looked for under today and yesterday.                   *)
InReach(s) == FirstOf(s).day + 1 >= day

TitleOf(s) ==
  IF Of(s) = {} THEN None
  ELSE CASE ToolOf[s] = "claude"   -> FirstPrompt(s)
         [] ToolOf[s] = "codex"    -> IF InReach(s) THEN FirstPrompt(s) ELSE None
         [] ToolOf[s] = "hermes"   -> IF s \in archived THEN None ELSE names[s]
         [] ToolOf[s] = "opencode" ->
              IF s \in archived THEN None
              ELSE IF names[s] # None THEN names[s] ELSE FirstOf(s).prompt

-----------------------------------------------------------------------------
MetricsInit ==
  /\ day = 0 /\ turns = <<>>
  /\ names = [s \in Sessions |-> None] /\ archived = {}
  /\ pass = None /\ metrics = None
  /\ titles = [s \in Sessions |-> None]

Work(turn) ==
  /\ Len(turns) < MaxTurns
  /\ turn.day = day /\ turn.session \notin archived
  /\ turns' = Append(turns, turn)
  /\ UNCHANGED <<day, names, archived, pass, metrics, titles>>

(* A tool names a session, or its user renames it, or archives it.         *)
Name(s, name) ==
  /\ ToolOf[s] \in HasNames /\ Of(s) # {}
  /\ names' = [names EXCEPT ![s] = name]
  /\ UNCHANGED <<day, turns, archived, pass, metrics, titles>>
Archive(s) ==
  /\ ToolOf[s] \in HasNames /\ Of(s) # {}
  /\ archived' = archived \cup {s}
  /\ UNCHANGED <<day, turns, names, pass, metrics, titles>>

Midnight ==
  /\ day < MaxDay /\ day' = day + 1
  /\ UNCHANGED <<turns, names, archived, pass, metrics, titles>>

(* The metrics loop.                                                       *)
BeginPass ==
  /\ pass = None
  /\ pass' = [since |-> day, from |-> Len(turns), read |-> <<>>]
  /\ UNCHANGED <<day, turns, names, archived, metrics, titles>>
ReadStore ==
  /\ pass # None /\ Len(pass.read) < 4
  /\ LET tool == ReadingOrder[Len(pass.read) + 1] IN
     pass' = [pass EXCEPT !.read =
                Append(@, ProviderMetric(Contributions(tool, pass.since)))]
  /\ UNCHANGED <<day, turns, names, archived, metrics, titles>>
PublishMetrics ==
  /\ pass # None /\ Len(pass.read) = 4
  /\ metrics' = Summary(pass.read, pass.since, pass.from)
  /\ pass' = None
  /\ UNCHANGED <<day, turns, names, archived, titles>>

(* The titles loop.                                                        *)
BuildTitles ==
  /\ titles' = [s \in Sessions |-> TitleOf(s)]
  /\ UNCHANGED <<day, turns, names, archived, pass, metrics>>

MetricsNext ==
  \/ \E turn \in Turn : Work(turn)
  \/ \E s \in Sessions : Archive(s) \/ \E name \in Names : Name(s, name)
  \/ Midnight
  \/ BeginPass \/ ReadStore \/ PublishMetrics
  \/ BuildTitles

MetricsSpec == MetricsInit /\ [][MetricsNext]_metricsVars

-----------------------------------------------------------------------------
(* The turns of the agents of a tool.                                      *)
TurnsOf(tool) == {i \in DOMAIN turns : ToolOf[turns[i].session] = tool}

(* What is shown as today's tokens has all that was spent on that day when *)
(* the pass began, and nothing that was not spent by a session at work     *)
(* since (metrics.rs, the comment at the top).  Hermes' sessions count on  *)
(* the day they began, and only there.                                     *)
TodayIsCounted ==
  metrics # None =>
    \A tool \in Tools :
      LET shown == metrics.providers[tool].tokens
          since == metrics.since
      IN  /\ tool # "hermes" =>
               shown >= TokensOf({i \in TurnsOf(tool) : i <= metrics.from /\ turns[i].day = since})
          /\ shown <= TokensOf({i \in TurnsOf(tool) : Touched(turns[i].session, since)})

(* The breakdown of a provider adds up to the provider, the providers to   *)
(* the totals, and the total cost is of every token when it is said to be  *)
(* complete and each model has a price (finalize, summarize_metrics).      *)
BreakdownAddsUp ==
  metrics # None =>
    /\ \A tool \in Tools :
         LET p == metrics.providers[tool] IN
         /\ Total([m \in p.models |-> m.tokens]) = p.tokens
         /\ Cardinality({m.model : m \in p.models}) = Cardinality(p.models)
         /\ p.models # {} => \E m \in p.models :
              m.model = p.model /\ \A o \in p.models : m.tokens >= o.tokens
    /\ Total([tool \in Tools |-> metrics.providers[tool].tokens]) = metrics.tokens
    /\ (metrics.complete /\ \A tool \in Tools : \A m \in metrics.providers[tool].models :
          m.usd = m.tokens) => metrics.usd = metrics.tokens

(* The title of a session stays what it is while its transcript grows.  It *)
(* changes when the tool renames or archives the session, and a Codex      *)
(* session loses it on the second day after it began.                      *)
TitlesStay ==
  [][\A s \in Sessions :
       titles[s] # None /\ titles'[s] # titles[s] =>
         \/ ToolOf[s] \in HasNames /\ (names[s] # None \/ s \in archived)
         \/ ToolOf[s] = "codex" /\ ~InReach(s) /\ titles'[s] = None]_metricsVars
=============================================================================
