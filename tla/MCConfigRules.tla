---------------------------- MODULE MCConfigRules ----------------------------
(* The rules of a config on every combination of a few fields: one state per *)
(* check, per list of checks and components, per duration and per file.      *)
EXTENDS ConfigRules

CONSTANTS Uninspected

VARIABLE input

P == INSTANCE Probes

Kinds == {"http", "tcp", "systemd", "docker", "disk", "ram", "heartbeat"}

Fields == UNION {Requires(kind) : kind \in Kinds}

CheckInputs ==
  UNION {[kind : {kind}, given : SUBSET Requires(kind), wrong : SUBSET {"url", "token"},
          interval : {0, 60}, warn : {Unset, 1, 2, 3}, critical : {Unset, 1, 2, 3}] : kind \in Kinds}

Ids == {"a", "b"}

ListsOf(S) == UNION {[1 .. n -> S] : n \in 0 .. 2}

Sound(id) == [id |-> id, kind |-> "ram", given |-> {}, wrong |-> {}, interval |-> 60,
              warn |-> Unset, critical |-> Unset]

Quiet == [enabled |-> FALSE, email |-> Unset, telegram |-> Unset]

\* A config that is fine but for its lists.
Lists(checks, components, groups) ==
  [checks |-> [k \in DOMAIN checks |-> Sound(checks[k])], components |-> components,
   groups |-> groups, notifiers |-> <<>>, public_url |-> Unset, raw_days |-> 7,
   hourly_days |-> 90, general |-> [timezone |-> "right"], subscriptions |-> Quiet]

Component == [id : {"x", "y"}, check : Ids \cup {Unset, ""}, group : {Unset, "g", "h"}]

Parts == UNION {[1 .. n -> [num : {0, 1, 2}, unit : {"s", "m", "", "x"}]] : n \in 0 .. 3}

\* Files with one thing wrong in each of two places.
Entry(key, unit) == [key |-> key, parts |-> <<[num |-> 30, unit |-> unit]>>]

Files ==
  {[entries |-> <<Entry("interval", i), Entry("grace", g)>>,
    cfg |-> [Lists(<<"a">>, <<>>, <<>>) EXCEPT
               !.raw_days = raw, !.public_url = url, !.subscriptions = sub,
               !.notifiers = <<[kind |-> "ntfy", texts |-> [url |-> "http", topic |-> topic]]>>],
    theme |-> [logo |-> logo, custom_css |-> css]] :
     i \in {"s", "x"}, g \in {"m", "y"}, raw \in {0, 7}, url \in {Unset, "blank"},
     topic \in {"blank", "text"},
     sub \in {Quiet, [enabled |-> TRUE, telegram |-> [token |-> "token", username |-> Unset],
                     email |-> [host |-> "text", from |-> "mailbox", username |-> "given",
                                password |-> Unset, port |-> 25]]},
     logo \in {Unset, "fine", "large"}, css \in {"fine", "missing"}}

Init ==
  \/ input \in [what : {"check"}, check : CheckInputs, value : 0 .. 3]
  \/ \E checks \in ListsOf(Ids), components \in ListsOf(Component),
        groups \in {<<>>, <<[id |-> "g"]>>} :
       input = [what |-> "lists", cfg |-> Lists(checks, components, groups)]
  \/ input \in [what : {"duration"}, parts : Parts]
  \/ input \in [what : {"file"}, file : Files]

Next == UNCHANGED input

Spec == Init /\ [][Next]_input

\* A check whose config was accepted is judged by what it saw: its probe finds
\* the fields it reads (prober.rs "no url configured", "no host/port
\* configured"; the engine's heartbeat and resource lookups), it is due again
\* only after some time, and its thresholds are in order: below the warning
\* threshold a reading is never down, and from it on never up.
Reads(kind) ==
  CASE kind = "http" -> {"url"} [] kind = "tcp" -> {"host", "port"} [] kind = "systemd" -> {"unit"}
    [] kind = "docker" -> {"container"} [] kind = "disk" -> {"mount"} [] kind = "ram" -> {}
    [] kind = "heartbeat" -> {"token", "period", "grace"}

JudgedByReading ==
  input.what = "check" /\ CheckProblems(input.check) = {} =>
    LET c == input.check  verdict == P!ProbeResource(c, input.value) IN
    /\ Reads(c.kind) \subseteq c.given /\ c.interval > 0
    /\ c.kind = "http" => "url" \notin c.wrong
    /\ c.warn # Unset => (verdict = "up") = (input.value < c.warn)

\* An accepted config can be looked up by what it names: every check is found
\* under its id, and so is the check of every component that names one; a
\* component's group is there; and the incidents of two checks that components
\* mirror are never filed under one component, which the alert engine takes
\* for granted when it looks for an open incident.
ReferencesHold ==
  input.what = "lists" /\ Accepted(input.cfg) =>
    LET cfg == input.cfg
        mirrored == {check \in IdsOf(cfg.checks) :
                       \E k \in DOMAIN cfg.components : cfg.components[k].check = check} IN
    /\ \A k \in DOMAIN cfg.checks : Find(cfg.checks, cfg.checks[k].id) = cfg.checks[k]
    /\ \A k \in DOMAIN cfg.components :
         LET c == cfg.components[k] IN
         /\ c.check \notin {Unset, ""} => Find(cfg.checks, c.check) # Unset
         /\ c.group # Unset => Find(cfg.groups, c.group) # Unset
    /\ Cardinality({IncidentComponent(cfg, check) : check \in mirrored}) = Cardinality(mirrored)

\* A duration is the sum of its parts, each in its unit; a number without a
\* unit is seconds when it stands alone and wrong anywhere else, and nothing
\* too large is ever rounded or wrapped into a value.
DurationBySum ==
  input.what = "duration" =>
    LET parts == input.parts
        bare == Len(parts) = 1 /\ parts[1].unit = ""
        known == \A k \in DOMAIN parts : parts[k].unit \in {"s", "m"}
        secs == FoldLeft(LAMBDA sum, p : sum + p.num * (IF p.unit = "m" THEN 60 ELSE 1), 0, parts)
        got == ParseDuration(parts)
    IN /\ (got.is = "value") = (parts # <<>> /\ (bare \/ known) /\ secs <= MaxSecs)
       /\ got.is = "value" => got.secs = secs
       /\ got.is = "panics" => \E n \in DOMAIN parts : ParseDuration(SubSeq(parts, 1, n)).is = "panics"

\* README.md:82-83: "`dunlin check-config` validates a file and prints every
\* problem at once."  main.rs runs config::load and prints its error.
EveryProblemReported ==
  input.what = "file" =>
    LET f == input.file
        keys(seq) == {seq[k] : k \in DOMAIN seq}
    IN Report(f) = {e.key : e \in keys(Unreadable(f))} \cup Problems(f.cfg) \cup keys(ThemeProblems(f.theme))
===============================================================================
