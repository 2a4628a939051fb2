----------------------- MODULE ConfigurationDocument -----------------------
(***************************************************************************)
(* Collector configurations as documents, and what FleetAMP does to one    *)
(* (internal/configs and the migration_*.go files): the split into editor  *)
(* sections and their composition, the checks of the pipelines, the        *)
(* standardisation of an imported document, the match and the adoption of  *)
(* a pattern, the generation of a document from a catalog, and the         *)
(* comparison that decides drift.                                          *)
(*                                                                         *)
(* A document is a function from the sections it has, and Other for the    *)
(* keys FleetAMP does not know.  A section of components maps the name of  *)
(* a component, a type and an instance number, to its setting; a setting   *)
(* is the set of its features: the paths below it with their values.  The  *)
(* layout of a mapping tells whether its keys are in FleetAMP's order:     *)
(* sections are compared as text, and text keeps the order of the keys.    *)
(***************************************************************************)
EXTENDS Naturals, Sequences, FiniteSets
Ext == INSTANCE SequencesExt

Components == {"receivers", "processors", "exporters", "extensions", "connectors"}
Service    == {"service_pipelines", "service_extensions", "telemetry"}
Sections   == Components \cup Service
Other      == "other"
DefaultDelegated == {"receivers", "processors", "extensions", "connectors", "telemetry"}
Signals    == {"metrics", "logs", "traces", "profiles"}

Absent == [layout |-> "absent"]
Section(d, s) == IF s \in DOMAIN d THEN d[s] ELSE Absent
Values(d) == {<<s, Section(d, s)>> : s \in Sections}
Changed(before, after) == {s \in Sections : Section(before, s) # Section(after, s)}

(* A mapping by name, empty if the section is missing.                      *)
Mapping(d, s) == IF s \in DOMAIN d THEN d[s].of ELSE <<>>
Names(d, s)   == DOMAIN Mapping(d, s)
Type(name)    == name[1]
Number(name)  == name[2]

(* What a document has in a section, as far as something here reads it.     *)
IsSection(s, v) ==
    /\ s \in Components =>
          /\ "of" \in DOMAIN v
          /\ \A n \in DOMAIN v.of : Number(n) \in Nat /\ IsFiniteSet(v.of[n])
    /\ s = "service_pipelines" =>
          /\ "of" \in DOMAIN v
          /\ \A n \in DOMAIN v.of : {"receivers", "processors", "exporters"} \subseteq DOMAIN v.of[n]
IsDocument(d) == \A s \in DOMAIN d : IsSection(s, d[s])

---------------------------------------------------------------------------
(* Fragments of the editor.  One that is a labelled section is unwrapped; a *)
(* label that belongs elsewhere is refused.  A blank one removes.           *)

Blank == [root |-> "blank"]
Fragment(d, s) == IF s \in DOMAIN d THEN [root |-> "none", value |-> d[s]] ELSE Blank

Wrappers(s) ==
    CASE s = "service_pipelines"  -> {"service", "pipelines"}
      [] s = "service_extensions" -> {"service", "extensions"}
      [] s = "telemetry"          -> {"service", "telemetry"}
      [] OTHER                    -> {s}

WellPlaced(form) ==
    \A s \in DOMAIN form :
        form[s].root \in Components \cup {"service"} => form[s].root \in Wrappers(s)

Compose(baseline, form) ==
    LET kept == {s \in DOMAIN baseline : s \in DOMAIN form => form[s] # Blank}
        put  == {s \in DOMAIN form : form[s] # Blank}
    IN [s \in kept \cup put |-> IF s \in put THEN form[s].value ELSE baseline[s]]

---------------------------------------------------------------------------
(* The relations of a document (pipeline.go).                               *)

Items(list) == {list[i] : i \in DOMAIN list}

PipelineResolves(d, name) ==
    LET pipeline == Mapping(d, "service_pipelines")[name] IN
    /\ Type(name) \in Signals
    /\ pipeline.receivers # <<>> /\ pipeline.exporters # <<>>
    /\ Items(pipeline.receivers)  \subseteq Names(d, "receivers") \cup Names(d, "connectors")
    /\ Items(pipeline.processors) \subseteq Names(d, "processors")
    /\ Items(pipeline.exporters)  \subseteq Names(d, "exporters") \cup Names(d, "connectors")

Resolves(d) ==
    /\ \A name \in Names(d, "service_pipelines") : PipelineResolves(d, name)
    /\ Items(Mapping(d, "service_extensions")) \subseteq Names(d, "extensions")

Features(d) == UNION {UNION Items(Mapping(d, s)) : s \in Components}

---------------------------------------------------------------------------
(* Standardisation (migration_standardization.go): mappings in order, and,  *)
(* if the user asks, a memory limiter first and a batch processor last.     *)

Canonical(d) ==
    [s \in DOMAIN d |->
        IF s \in Components \cup {"service_pipelines"}
        THEN [d[s] EXCEPT !.layout = "canonical"] ELSE d[s]]

Limiter == <<"memory_limiter", 0>>
Batch   == <<"batch", 0>>
Safe(name) == IF name = Limiter THEN {"check_interval=1s", "limit_mib=512", "spike_limit_mib=128"}
              ELSE {}
HasType(names, type) == \E n \in names : Type(n) = type

WithProcessors(list) ==
    (IF HasType(Items(list), "memory_limiter") THEN <<>> ELSE <<Limiter>>) \o list
    \o (IF HasType(Items(list), "batch") THEN <<>> ELSE <<Batch>>)

WithBaseline(d) ==
    LET old   == Mapping(d, "processors")
        added == {n \in {Limiter, Batch} : ~HasType(DOMAIN old, Type(n))}
        processors == [n \in DOMAIN old \cup added |-> IF n \in added THEN Safe(n) ELSE old[n]]
        lines == Mapping(d, "service_pipelines")
        pipelines == [n \in DOMAIN lines |->
                        [lines[n] EXCEPT !.processors = WithProcessors(@)]]
    IN [s \in DOMAIN d \cup {"processors"} |->
          CASE s = "processors" -> [of |-> processors, layout |-> "canonical"]
            [] s = "service_pipelines" -> [of |-> pipelines, layout |-> "canonical"]
            [] OTHER -> d[s]]

Standardize(d, baseline) == Canonical(IF baseline THEN WithBaseline(d) ELSE d)

---------------------------------------------------------------------------
(* Patterns (migration_pattern_match.go, migration_pattern_adopt.go): one   *)
(* fits if its type of receiver is there; the first by name is its target.  *)

OfType(d, type) == {n \in Names(d, "receivers") : Type(n) = type}
Fits(d, p) == OfType(d, p.receiver) # {}
Target(d, p) ==
    CHOOSE n \in OfType(d, p.receiver) : \A m \in OfType(d, p.receiver) : Number(n) <= Number(m)

AdoptEvery(d, p) ==                                                \* mutant
    Canonical([d EXCEPT !["receivers"].of =
        [n \in DOMAIN @ |-> IF Type(n) = p.receiver THEN p.setting ELSE @[n]]])
Adopt(d, p) == Canonical([d EXCEPT !["receivers"].of[Target(d, p)] = p.setting])

Round(a, b) == (2 * a + b) \div (2 * b)
SignalScore(d, p) ==
    IF p.signals = {} THEN 0
    ELSE LET actual == {Type(n) : n \in Names(d, "service_pipelines")}
         IN Round(25 * Cardinality(p.signals \cap actual), Cardinality(p.signals))
SettingScore(actual, expected) ==
    IF actual \cup expected = {} THEN 20
    ELSE Round(20 * Cardinality(actual \cap expected), Cardinality(actual \cup expected))
Score(d, p) ==
    55 + SignalScore(d, p) + SettingScore(Mapping(d, "receivers")[Target(d, p)], p.setting)

---------------------------------------------------------------------------
(* Generation (blueprints.go): the receiver of a pattern, the blocks in the *)
(* order of their names, the exporter of a destination, and a pipeline for  *)
(* each signal asked for.  The catalog is of one platform.                  *)

Wanted(p, asked) ==
    LET offered == asked \cap p.signals
    IN IF offered = {} /\ Cardinality(p.signals) = 1 THEN p.signals ELSE offered

BlocksIn(chosen, s) == {b \in chosen : b.section = s}
SettingsOf(blocks) ==
    [n \in {b.name : b \in blocks} |-> (CHOOSE b \in blocks : b.name = n).setting]
Blocks(chosen, s) == Ext!SetToSortSeq(BlocksIn(chosen, s), LAMBDA a, b : a.order < b.order)
NamesOf(list) == [i \in DOMAIN list |-> list[i].name]

GeneratedPipeline(p, chosen, destination, signal) ==
    LET more == SelectSeq(Blocks(chosen, "receivers"), LAMBDA b : signal \in b.signals)
    IN [receivers  |-> <<<<p.receiver, 0>>>> \o NamesOf(more),
        processors |-> NamesOf(Blocks(chosen, "processors")),
        exporters  |-> <<destination.exporter>>]

Generated(p, signals, chosen, destination) ==
    LET own   == <<p.receiver, 0>>
        more  == SettingsOf(BlocksIn(chosen, "receivers"))
        lines == {<<signal, 0>> : signal \in signals \ {"profiles"}}
        mapping(s) ==
            CASE s = "receivers" -> [n \in DOMAIN more \cup {own} |->
                                        IF n \in DOMAIN more THEN more[n] ELSE p.setting]
              [] s = "exporters" -> [n \in {destination.exporter} |-> destination.setting]
              [] s = "service_pipelines" ->
                    [n \in lines |-> GeneratedPipeline(p, chosen, destination, Type(n))]
              [] s = "service_extensions" -> NamesOf(Blocks(chosen, "extensions"))
              [] s = "telemetry" -> {"logs.level=info"}
              [] OTHER -> SettingsOf(BlocksIn(chosen, s))
    IN [s \in Sections |-> [of |-> mapping(s), layout |-> "canonical"]]

---------------------------------------------------------------------------
(* Drift (drift.go): the desired settings that the effective document does  *)
(* not have.  Mappings may have more than is desired, lists may not.        *)

Holds(s, want, got) ==
    IF s \in Components THEN want \subseteq got
    ELSE \A k \in DOMAIN want : want[k] = <<>> \/ want[k] = got[k]

Lacking(s, desired, effective) ==
    {<<s, n>> : n \in {m \in Names(desired, s) :
        m \notin Names(effective, s)
        \/ ~Holds(s, Mapping(desired, s)[m], Mapping(effective, s)[m])}}

Differences(desired, effective) ==
    UNION {Lacking(s, desired, effective) : s \in Components \cup {"service_pipelines"}}
    \cup {<<s, s>> : s \in {x \in DOMAIN desired \cap {"service_extensions"} :
                            Section(desired, x) # Section(effective, x)}}
    \cup {<<s, s>> : s \in {x \in DOMAIN desired \cap {"telemetry", Other} :
                            x \notin DOMAIN effective
                            \/ ~(desired[x].of \subseteq effective[x].of)}}
===========================================================================
