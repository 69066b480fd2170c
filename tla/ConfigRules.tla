----------------------------- MODULE ConfigRules -----------------------------
(***************************************************************************)
(* What a config file must satisfy to be put in force (validate and its    *)
(* helpers in src/src/config.rs), and what the rest of the program takes   *)
(* for granted of one that was: the probes, the alert engine, the          *)
(* channels.                                                               *)
(*                                                                         *)
(* A field is given or not; a text is what its checks tell apart, such as  *)
(* "blank" and "http".  An id is a model value.                            *)
(***************************************************************************)
EXTENDS Integers, Sequences, FiniteSets, SequencesExt

CONSTANTS Unset,     \* a key the file leaves out
          MaxSecs    \* the largest whole number of seconds of a Duration

-----------------------------------------------------------------------------
(* parse_duration.  A text is the sequence of its parts, each a number and *)
(* the unit after it, "" for none.                                         *)

Unit == [s |-> 1, m |-> 60, h |-> 3600, d |-> 86400]

Invalid == [is |-> "invalid", secs |-> 0]

Panics == [is |-> "panics", secs |-> 0]

\* Its mutant: a number without a unit counts as seconds anywhere.
AddPart_Bare(sum, part) ==
  IF sum.is # "value" THEN sum
  ELSE IF part.unit \notin DOMAIN Unit \cup {""} THEN Invalid
  ELSE LET secs == sum.secs + part.num * (IF part.unit = "" THEN 1 ELSE Unit[part.unit])
       IN IF secs > MaxSecs THEN Panics ELSE [is |-> "value", secs |-> secs]

\* One turn of the loop: an unknown unit ends it, a sum that does not fit
\* panics (mul_f64 and +=).
AddPart(sum, part) ==
  IF sum.is # "value" THEN sum
  ELSE IF part.unit \notin DOMAIN Unit THEN Invalid
  ELSE LET secs == sum.secs + part.num * Unit[part.unit]
       IN IF secs > MaxSecs THEN Panics ELSE [is |-> "value", secs |-> secs]

\* A bare number is seconds, when it fits.
ParseDuration(parts) ==
  IF parts = <<>> THEN Invalid
  ELSE IF Len(parts) = 1 /\ parts[1].unit = "" /\ parts[1].num <= MaxSecs
  THEN [is |-> "value", secs |-> parts[1].num]
  ELSE FoldLeft(AddPart, [is |-> "value", secs |-> 0], parts)

-----------------------------------------------------------------------------
(* validate, a section at a time: the problems it finds there.             *)

\* What each kind of check needs (validate_check).
Requires(kind) ==
  CASE kind = "http" -> {"url"}          [] kind = "tcp" -> {"host", "port"}
    [] kind = "systemd" -> {"unit"}      [] kind = "docker" -> {"container"}
    [] kind = "disk" -> {"mount"}        [] kind = "heartbeat" -> {"period", "grace", "token"}
    [] kind \in {"ram", "swap", "load"} -> {}

\* Its mutant: a check that names no thresholds is not looked at further.
CheckProblems_First(c) == IF c.warn = Unset THEN {} ELSE Requires(c.kind) \ c.given

\* validate_check; wrong holds the fields whose content does not parse or is
\* too short.
CheckProblems(c) ==
  (Requires(c.kind) \ c.given)
  \cup (c.given \cap c.wrong \cap (IF c.kind = "http" THEN {"url"} ELSE
                                   IF c.kind = "heartbeat" THEN {"token"} ELSE {}))
  \cup (IF c.interval = 0 THEN {"interval"} ELSE {})
  \cup (IF c.warn # Unset /\ c.critical # Unset /\ c.critical < c.warn THEN {"critical"} ELSE {})

\* The places of a list at which an id was seen before.
Repeated(list) == {k \in DOMAIN list : \E j \in 1 .. k - 1 : list[j].id = list[k].id}

IdsOf(list) == {list[k].id : k \in DOMAIN list}

\* Its mutant: a component's check is not looked up.
ReferenceProblems_Unchecked(cfg) ==
  {<<"group", k>> : k \in Repeated(cfg.groups)}
  \cup {<<"check", k>> : k \in Repeated(cfg.checks)}
  \cup {<<"component", k>> : k \in Repeated(cfg.components)}

\* Duplicate ids, and components that name a group or a check which is not
\* there.  The empty name of a check names none.
ReferenceProblems(cfg) ==
  {<<"group", k>> : k \in Repeated(cfg.groups)}
  \cup {<<"check", k>> : k \in Repeated(cfg.checks)}
  \cup {<<"component", k>> : k \in Repeated(cfg.components)}
  \cup {<<"unknown group", k>> : k \in {i \in DOMAIN cfg.components :
          cfg.components[i].group \notin IdsOf(cfg.groups) \cup {Unset}}}
  \cup {<<"unknown check", k>> : k \in {i \in DOMAIN cfg.components :
          cfg.components[i].check \notin IdsOf(cfg.checks) \cup {Unset, ""}}}

\* What a notifier of each kind needs to be http, a URL, or not blank.
NotifierTexts(kind) ==
  CASE kind = "telegram" -> [token |-> "text", chat_id |-> "text"]
    [] kind = "webhook" -> [url |-> "url"]
    [] kind = "ntfy" -> [url |-> "http", topic |-> "text", token |-> "text"]
    [] kind \in {"discord", "slack"} -> [url |-> "http"]
    [] kind = "pushover" -> [token |-> "text", user |-> "text"]

\* A text passes: "http" is a URL with a host, "url" one of another scheme.
Passes(text, as) ==
  CASE as = "text" -> text # "blank"
    [] as = "url" -> text \in {"http", "url"}
    [] as = "http" -> text = "http"

\* The token of ntfy may be left out; what is given must pass.
NotifierProblems(n) ==
  {key \in DOMAIN NotifierTexts(n.kind) :
     IF key \in DOMAIN n.texts THEN ~Passes(n.texts[key], NotifierTexts(n.kind)[key])
     ELSE ~(n.kind = "ntfy" /\ key = "token")}

\* subscriptions, its email and its telegram table.
SubscriptionProblems(cfg) ==
  LET s == cfg.subscriptions IN
  (IF s.enabled /\ cfg.public_url = Unset THEN {"public_url"} ELSE {})
  \cup (IF s.email = Unset THEN {} ELSE
          (IF s.email.host = "blank" THEN {"host"} ELSE {})
          \cup (IF s.email.from # "mailbox" THEN {"from"} ELSE {})
          \cup (IF s.email.username # s.email.password THEN {"password"} ELSE {})
          \cup (IF s.email.port = 0 THEN {"port"} ELSE {}))
  \cup (IF s.telegram = Unset THEN {} ELSE
          (IF s.telegram.token # "token" THEN {"token"} ELSE {})
          \cup (IF s.telegram.username \notin {Unset, "name"} THEN {"username"} ELSE {}))

\* The keys of the file that stand alone.
GeneralProblems(cfg) ==
  (IF cfg.public_url \notin {Unset, "http"} THEN {"public_url"} ELSE {})
  \cup (IF cfg.raw_days = 0 THEN {"raw_days"} ELSE {})
  \cup (IF cfg.hourly_days < cfg.raw_days THEN {"hourly_days"} ELSE {})
  \cup {key \in DOMAIN cfg.general : cfg.general[key] = "wrong"}

\* validate: every problem of every section.
Problems(cfg) ==
  GeneralProblems(cfg) \cup ReferenceProblems(cfg) \cup SubscriptionProblems(cfg)
  \cup UNION {CheckProblems(cfg.checks[k]) : k \in DOMAIN cfg.checks}
  \cup UNION {NotifierProblems(cfg.notifiers[k]) : k \in DOMAIN cfg.notifiers}

Accepted(cfg) == Problems(cfg) = {}

-----------------------------------------------------------------------------
(* Reading a file: its TOML, then validate, then the theme's files.        *)

\* The values the deserializer refuses, in the order of the file: durations
\* that do not parse, and keys it does not know.
Unreadable(file) ==
  SelectSeq(file.entries, LAMBDA e : e.key = "unknown" \/ ParseDuration(e.parts) = Invalid)

\* load_theme_files: the type of a logo, then whether it can be read and is
\* small enough; the text of a style sheet after it was read.
ThemeProblems(theme) ==
  SelectSeq(<<"logo", "custom_css">>, LAMBDA key : theme[key] \notin {Unset, "fine"})

\* parse_str_at, as the problems the error names: the first step that fails
\* ends it, and only validate collects more than one.  (A duration that
\* panics ends the program instead; no file here has one.)
Report(file) ==
  IF Unreadable(file) # <<>> THEN {Head(Unreadable(file)).key}
  ELSE IF ~Accepted(file.cfg) THEN Problems(file.cfg)
  ELSE IF ThemeProblems(file.theme) # <<>> THEN {Head(ThemeProblems(file.theme))} ELSE {}

-----------------------------------------------------------------------------
(* Lookups of a config in force.                                           *)

\* Config::check and Config::component: the first of that id.
Find(list, id) ==
  LET at == {k \in DOMAIN list : list[k].id = id}
  IN IF at = {} THEN Unset ELSE list[CHOOSE k \in at : \A j \in at : k <= j]

\* Config::incident_component.
IncidentComponent(cfg, check) ==
  LET at == {k \in DOMAIN cfg.components : cfg.components[k].check = check}
  IN IF at = {} THEN check ELSE cfg.components[CHOOSE k \in at : \A j \in at : k <= j].id
===============================================================================
