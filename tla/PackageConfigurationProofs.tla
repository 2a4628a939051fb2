--------------------- MODULE PackageConfigurationProofs ---------------------
(***************************************************************************)
(* What holds of the versions of configurations for any users, groups,     *)
(* documents and handlers at once, through the editor, templates, the      *)
(* Builder, the wizard and the previews of packages: every version can be  *)
(* loaded, sections nobody delegated stand, the hand-over of a preview is  *)
(* exact, and a migration changes what was asked for; and of the pipeline  *)
(* that builds and publishes what a package is made of, for any plans,     *)
(* restarts of builders and publishers.                                    *)
(***************************************************************************)
EXTENDS PackageConfiguration, DistributionBuild, FiniteSetTheorems, WellFoundedInduction,
        TLAPS

---------------------------------------------------------------------------
(* Documents.                                                                *)

LEMMA ComposeKeeps ==
    ASSUME NEW b, NEW fields, NEW s, s \notin DOMAIN fields
    PROVE  Section(Compose(b, fields), s) = Section(b, s)
  BY DEF Section, Compose

LEMMA GeneratedExports ==
    ASSUME NEW p, NEW signals, NEW chosen, NEW d
    PROVE  Section(Generated(p, signals, chosen, d), "exporters")
               = [of |-> [n \in {d.exporter} |-> d.setting], layout |-> "canonical"]
  BY DEF Section, Generated, Sections, Components

---------------------------------------------------------------------------
(* The inductive invariant.  Whatever a version may be made from is known;  *)
(* a version is known but for what was delegated; what a request is about   *)
(* to write is as good as what is written.                                  *)

Stands(d, D, K) == \A s \in Sections \ D : <<s, Section(d, s)>> \in K
Sound(d, D, K) == Stands(d, D, K) /\ Resolves(d)

Shapes ==
    /\ DOMAIN task = Handlers /\ DOMAIN submitting = Submitters
    /\ DOMAIN reported = Agents /\ \A a \in Agents : "effective" \in DOMAIN reported[a]

SourcesKnown ==
    /\ policies \subseteq delegated
    /\ Values(Default) \subseteq known
    /\ Exports(catalog) \subseteq known
    /\ \A a \in Agents : Values(Effective(a)) \subseteq known
    /\ \A t \in templates : Values(t.content) \subseteq known /\ Resolves(t.content)

RowsSound ==
    /\ \A c \in configurations : Sound(c.content, delegated, known)
    /\ \A h \in Handlers : task[h] # Idle => Sound(task[h].row.content, delegated, known)

Locked(w) == \A s \in Sections \ w.package.editable :
                Section(w.content, s) = Section(w.package.baseline, s)

PackagesSound ==
    /\ \A p \in packages : Values(p.baseline) \subseteq known
    /\ \A w \in previews :
          Values(w.content) \subseteq known /\ Resolves(w.content) /\ Locked(w)
    /\ \A h \in Submitters : submitting[h] # Idle =>
          /\ submitting[h].preview \in previews
          /\ submitting[h].row.content = submitting[h].preview.content
          /\ submitting[h].row.group = submitting[h].preview.group

Inv == Shapes /\ SourcesKnown /\ RowsSound /\ PackagesSound /\ HandoffsAreExact

LEMMA StandsGrows ==
    ASSUME NEW d, NEW D, NEW K, NEW E, NEW L, D \subseteq E, K \subseteq L, Sound(d, D, K)
    PROVE  Sound(d, E, L)
  BY DEF Sound, Stands

LEMMA KnownIsSound ==
    ASSUME NEW d, NEW D, NEW K, Values(d) \subseteq K, Resolves(d)
    PROVE  Sound(d, D, K)
  BY DEF Sound, Stands, Values

(* What an edit may change is delegated: the rest is as it was.             *)
LEMMA PermittedStands ==
    ASSUME NEW u, NEW before, NEW after, NEW D, policies \subseteq D,
           Stands(before, D, known), Permitted(u, before, after), Introduce(u, after)
    PROVE  Stands(after, D, known')
  <1>1. CASE Admin(u)
    BY <1>1 DEF Introduce, Stands, Values
  <1>2. CASE ~Admin(u)
    <2>1. Changed(before, after) \subseteq policies /\ known' = known
      BY <1>2 DEF Permitted, Introduce
    <2>2. \A s \in Sections \ D : Section(before, s) = Section(after, s)
      BY <2>1 DEF Changed
    <2> QED  BY <2>1, <2>2 DEF Stands
  <1> QED  BY <1>1, <1>2

---------------------------------------------------------------------------
(* Steps.  The parts of the invariant that a step leaves alone.             *)

Grows == known \subseteq known' /\ delegated \subseteq delegated'

LEMMA StableRows ==
    ASSUME Shapes, RowsSound, Grows, UNCHANGED <<configurations, task>>
    PROVE  RowsSound'
  <1>1. \A c \in configurations' : Sound(c.content, delegated', known')
    BY StandsGrows DEF RowsSound, Grows
  <1>2. \A h \in Handlers : task'[h] # Idle => Sound(task'[h].row.content, delegated', known')
    BY StandsGrows DEF RowsSound, Grows
  <1> QED  BY <1>1, <1>2 DEF RowsSound

LEMMA StablePackages ==
    ASSUME PackagesSound, known \subseteq known', UNCHANGED <<packages, previews, submitting>>
    PROVE  PackagesSound'
  BY DEF PackagesSound, Locked

LEMMA StableSources ==
    ASSUME SourcesKnown, Grows, UNCHANGED <<policies, catalog, reported, templates>>
    PROVE  SourcesKnown'
  BY DEF SourcesKnown, Grows, Effective

LEMMA StableHandoffs ==
    ASSUME HandoffsAreExact, configurations \subseteq configurations',
           previews \subseteq previews', UNCHANGED handoffs
    PROVE  HandoffsAreExact'
  BY DEF HandoffsAreExact

(* A request that is about to write a sound version.                        *)
LEMMA BecomesSound ==
    ASSUME Inv, NEW h \in Handlers, NEW v, Becomes(h, v),
           Sound(v.row.content, delegated, known'), known \subseteq known',
           UNCHANGED <<configurations, templates, policies, catalog, reported, delegated,
                       packageVars>>
    PROVE  Inv'
  <1>1. Shapes'  BY DEF Inv, Shapes, Becomes, packageVars
  <1>2. Grows  BY DEF Grows
  <1>3. RowsSound'
    <2>1. \A c \in configurations' : Sound(c.content, delegated', known')
      BY <1>2, StandsGrows DEF Inv, RowsSound, Grows
    <2>2. ASSUME NEW k \in Handlers, task'[k] # Idle
          PROVE  Sound(task'[k].row.content, delegated', known')
      <3>1. CASE k = h
        BY <3>1 DEF Becomes, Inv, Shapes
      <3>2. CASE k # h
        <4>1. task'[k] = task[k]  BY <3>2 DEF Becomes, Inv, Shapes
        <4> QED  BY <2>2, <4>1, <1>2, StandsGrows DEF Inv, RowsSound, Grows
      <3> QED  BY <3>1, <3>2
    <2> QED  BY <2>1, <2>2 DEF RowsSound
  <1>4. SourcesKnown' /\ PackagesSound' /\ HandoffsAreExact'
    BY <1>2, StableSources, StablePackages, StableHandoffs DEF Inv, packageVars
  <1> QED  BY <1>1, <1>3, <1>4 DEF Inv

(* A request that writes what it was about to, or is refused.               *)
LEMMA WritesSound ==
    ASSUME Inv, NEW h \in Handlers, task[h] # Idle, task' = [task EXCEPT ![h] = Idle],
           configurations' \in {configurations, configurations \cup {task[h].row}},
           UNCHANGED <<templates, known, world, packageVars>>
    PROVE  Inv'
  <1>1. Shapes' /\ SourcesKnown' /\ PackagesSound' /\ HandoffsAreExact'
    <2>1. configurations \subseteq configurations' /\ Grows
      BY DEF world, Grows
    <2> QED  BY <2>1, StableSources, StablePackages, StableHandoffs
                DEF Inv, packageVars, world, Shapes
  <1>2. RowsSound'
    BY DEF Inv, RowsSound, Shapes, world
  <1> QED  BY <1>1, <1>2 DEF Inv

(* Nothing but pages, secrets, the history or counters changes.             *)
LEMMA Untouched ==
    ASSUME Inv,
           UNCHANGED <<configurations, templates, policies, catalog, reported, delegated,
                       known, task, packages, previews, submitting, handoffs>>
    PROVE  Inv'
  BY StableRows, StableSources, StablePackages, StableHandoffs DEF Inv, Shapes, Grows

---------------------------------------------------------------------------
(* The actions of ConfigurationAuthoring.                                   *)

LEMMA CreateConfigurationSound ==
    ASSUME Inv, UNCHANGED packageVars, NEW h \in Handlers, NEW u, NEW g,
           NEW base \in configurations \cup {NoBase}, NEW n, NEW v, NEW edit,
           CreateConfiguration(h, u, g, base, n, v, edit)
    PROVE  Inv'
  <1> DEFINE before == base.content
             after  == Compose(before, FormOf(before, edit))
             new    == [does |-> "put", row |-> Version(g, n, v, after)]
  <1>1. /\ Permitted(u, before, after) /\ Valid(g, after)
        /\ Becomes(h, new) /\ Introduce(u, after)
        /\ UNCHANGED <<configurations, templates, history, page, world>>
    BY DEF CreateConfiguration
  <1>2. Stands(before, delegated, known)
    <2>1. CASE base = NoBase
      BY <2>1 DEF NoBase, Inv, SourcesKnown, Stands, Values
    <2>2. CASE base \in configurations
      BY <2>2 DEF Inv, RowsSound, Sound
    <2> QED  BY <2>1, <2>2
  <1>3. new.row.content = after  BY DEF Version
  <1> HIDE DEF before, after, new
  <1>4. policies \subseteq delegated  BY DEF Inv, SourcesKnown
  <1>5. Sound(after, delegated, known')
    BY <1>1, <1>2, <1>4, PermittedStands DEF Sound, Valid
  <1>6. known \subseteq known'  BY <1>1 DEF Introduce
  <1> QED  BY <1>1, <1>3, <1>5, <1>6, BecomesSound DEF world

LEMMA GenerateSound ==
    ASSUME Inv, UNCHANGED packageVars, NEW h \in Handlers, NEW u, NEW g, NEW p,
           NEW destination, NEW asked, NEW blocks, NEW n, NEW v,
           Generate(h, u, g, p, destination, asked, blocks, n, v)
    PROVE  Inv'
  <1> DEFINE chosen  == {b \in Kind(catalog, "block") : b.required \/ b \in blocks}
             content == Generated(p, Wanted(p, asked), chosen, destination)
             new     == [does |-> "put", row |-> Version(g, n, v, content)]
  <1>1. /\ destination \in Kind(catalog, "destination") /\ Valid(g, content)
        /\ Becomes(h, new)
        /\ known' = known \cup {x \in Values(content) : x[1] # "exporters"}
        /\ UNCHANGED <<configurations, templates, history, page, world>>
    BY DEF Generate
  <1>2. new.row.content = content  BY DEF Version
  <1>3. Section(content, "exporters")
            = [of |-> [k \in {destination.exporter} |-> destination.setting],
               layout |-> "canonical"]
    BY GeneratedExports
  <1> HIDE DEF content, new, chosen
  <1>4. <<"exporters", Section(content, "exporters")>> \in known
    BY <1>1, <1>3 DEF Exports, Inv, SourcesKnown
  <1>5. Stands(content, delegated, known')
    BY <1>1, <1>4 DEF Stands, Values
  <1> QED  BY <1>1, <1>2, <1>5, BecomesSound DEF world, Sound, Valid

LEMMA InstantiateSound ==
    ASSUME Inv, UNCHANGED packageVars, NEW u, NEW t, NEW g, NEW n, NEW v,
           Instantiate(u, t, g, n, v)
    PROVE  Inv'
  <1>1. /\ t \in templates
        /\ configurations' = configurations \cup {Version(g, n, v, t.content)}
        /\ UNCHANGED <<templates, history, page, task, known, world>>
    BY DEF Instantiate
  <1>2. Sound(Version(g, n, v, t.content).content, delegated, known)
    BY <1>1, KnownIsSound DEF Version, Inv, SourcesKnown
  <1>3. RowsSound'  BY <1>1, <1>2 DEF RowsSound, Inv, world
  <1>4. Grows  BY <1>1 DEF Grows, world
  <1> QED  BY <1>1, <1>3, <1>4, StableSources, StablePackages, StableHandoffs
              DEF Inv, Shapes, world, packageVars

LEMMA CreateTemplateSound ==
    ASSUME Inv, UNCHANGED packageVars, NEW u, NEW content, NEW organization, NEW groups,
           CreateTemplate(u, content, organization, groups)
    PROVE  Inv'
  <1>1. /\ Resolves(content)
        /\ templates' = templates \cup {[content |-> content, organization |-> organization,
                                         groups |-> groups]}
        /\ known' = known \cup Values(content)
        /\ UNCHANGED <<configurations, history, page, task, world>>
    BY DEF CreateTemplate
  <1>2. Grows  BY <1>1 DEF Grows, world
  <1>3. SourcesKnown'  BY <1>1 DEF Inv, SourcesKnown, world, Effective
  <1> QED  BY <1>1, <1>2, <1>3, StableRows, StablePackages, StableHandoffs
              DEF Inv, Shapes, world, packageVars, Grows

LEMMA SaveMigrationSound ==
    ASSUME Inv, UNCHANGED packageVars, NEW h \in Handlers, NEW u, SaveMigration(h, u)
    PROVE  Inv'
  <1> DEFINE pg  == page[u]
             new == [does |-> "save", page |-> pg,
                     row |-> Version(pg.group, pg.name, pg.version, pg.content)]
  <1>1. /\ Candidate(u, pg) /\ Becomes(h, new) /\ Introduce(u, pg.content)
        /\ UNCHANGED <<configurations, templates, history, page, world>>
    BY DEF SaveMigration
  <1>2. new.row.content = pg.content  BY DEF Version
  <1> HIDE DEF pg, new
  <1>3. /\ pg.agent \in Agents /\ Valid(pg.group, pg.content)
        /\ Permitted(u, Effective(pg.agent), pg.content)
    BY <1>1 DEF Candidate, Collectors
  <1>4. Stands(Effective(pg.agent), delegated, known) /\ policies \subseteq delegated
    BY <1>3 DEF Inv, SourcesKnown, Stands, Values
  <1>5. Sound(pg.content, delegated, known')
    BY <1>1, <1>3, <1>4, PermittedStands DEF Sound, Valid
  <1>6. known \subseteq known'  BY <1>1 DEF Introduce
  <1> QED  BY <1>1, <1>2, <1>5, <1>6, BecomesSound DEF world

LEMMA PutSound ==
    ASSUME Inv, UNCHANGED packageVars, NEW h \in Handlers, Put(h)
    PROVE  Inv'
  <1>1. task[h].does = "put" /\ Idle.does = "idle"
    BY DEF Put, Idle
  <1>2. task[h] # Idle  BY <1>1
  <1>3. /\ task' = [task EXCEPT ![h] = Idle]
        /\ configurations' \in {configurations, configurations \cup {task[h].row}}
        /\ UNCHANGED <<templates, known, world, packageVars>>
    BY DEF Put, packageVars
  <1> QED  BY <1>2, <1>3, WritesSound

LEMMA SaveSound ==
    ASSUME Inv, UNCHANGED packageVars, NEW h \in Handlers, Save(h)
    PROVE  Inv'
  <1>1. task[h].does = "save" /\ Idle.does = "idle"
    BY DEF Save, Idle
  <1>2. task[h] # Idle  BY <1>1
  <1>3. /\ task' = [task EXCEPT ![h] = Idle]
        /\ configurations' \in {configurations, configurations \cup {task[h].row}}
        /\ UNCHANGED <<templates, known, world, packageVars>>
    BY DEF Save, packageVars
  <1> QED  BY <1>2, <1>3, WritesSound

(* The pages of the wizard are in front of the user alone.                  *)
LEMMA TurnSound ==
    ASSUME Inv, UNCHANGED packageVars, NEW u, NEW p, Turn(u, p)
    PROVE  Inv'
  BY Untouched DEF Turn, world, packageVars

LEMMA ProceedsSound ==
    ASSUME Inv, UNCHANGED packageVars, NEW u, Proceeds(u)
    PROVE  Inv'
  <1>1. (\E p : Turn(u, p)) \/ \E h \in Handlers : SaveMigration(h, u)
    BY Zenon DEF Proceeds, Import, StandardizePage, ReviewAdoption, MatchPattern, AdoptPattern,
                 ConfirmAdoption, Advance
  <1> QED  BY <1>1, TurnSound, SaveMigrationSound

---------------------------------------------------------------------------
(* The rest of the world.                                                   *)

LEMMA ExportsOf ==
    ASSUME NEW C, NEW D
    PROVE  Exports(C \cup D) = Exports(C) \cup Exports(D)
  BY DEF Exports, Kind

LEMMA CatalogSound ==
    ASSUME Inv, Exports(catalog') \subseteq known', known \subseteq known',
           UNCHANGED <<policies, reported, delegated, configurations, templates, task, packageVars>>
    PROVE  Inv'
  <1>1. Grows  BY DEF Grows
  <1>2. SourcesKnown'  BY DEF Inv, SourcesKnown, Effective
  <1> QED  BY <1>1, <1>2, StableRows, StablePackages, StableHandoffs DEF Inv, Shapes, packageVars

LEMMA ReportedSound ==
    ASSUME Inv, NEW a \in Agents, NEW r, "effective" \in DOMAIN r,
           reported' = [reported EXCEPT ![a] = r], known' = known \cup Values(r.effective),
           UNCHANGED <<policies, catalog, delegated, configurations, templates, task, packageVars>>
    PROVE  Inv'
  <1>1. Grows  BY DEF Grows
  <1>2. Shapes'  BY DEF Inv, Shapes, packageVars
  <1>3. \A b \in Agents : Values(Effective(b))' \subseteq known'
    BY DEF Inv, SourcesKnown, Effective, Shapes
  <1>4. SourcesKnown'  BY <1>3 DEF Inv, SourcesKnown
  <1> QED  BY <1>1, <1>2, <1>4, StableRows, StablePackages, StableHandoffs DEF Inv, packageVars

LEMMA SetPolicySound ==
    ASSUME Inv, UNCHANGED packageVars, NEW s, SetPolicy(s)
    PROVE  Inv'
  <1>1. /\ policies' \subseteq delegated' /\ Grows
        /\ UNCHANGED <<catalog, reported, known, configurations, templates, task>>
    BY DEF SetPolicy, tables, Grows
  <1>2. SourcesKnown'  BY <1>1 DEF Inv, SourcesKnown, Effective
  <1> QED  BY <1>1, <1>2, StableRows, StablePackages, StableHandoffs DEF Inv, Shapes, packageVars

LEMMA ChangesSound ==
    ASSUME Inv, UNCHANGED packageVars, Changes
    PROVE  Inv'
  <1>1. ASSUME NEW s \in Policed, SetPolicy(s)
        PROVE  Inv'
    BY <1>1, SetPolicySound
  <1>2. ASSUME NEW g \in Groups, NEW k \in Keys, SetSecret(g, k)
        PROVE  Inv'
    BY <1>2, Untouched DEF SetSecret, tables, packageVars
  <1>3. ASSUME NEW i \in Publishable, PublishItem(i)
        PROVE  Inv'
    <2>1. /\ catalog' = catalog \cup {i} /\ known' = known \cup Exports({i})
          /\ UNCHANGED <<policies, secrets, reported, delegated, tables>>
      BY <1>3 DEF PublishItem
    <2>2. Exports(catalog') \subseteq known'
      BY <2>1, ExportsOf DEF Inv, SourcesKnown
    <2> QED  BY <2>1, <2>2, CatalogSound DEF tables
  <1>4. ASSUME NEW i, DeleteItem(i)
        PROVE  Inv'
    <2>1. Exports(catalog') \subseteq known'
      BY <1>4 DEF DeleteItem, Exports, Kind, Inv, SourcesKnown
    <2> QED  BY <1>4, <2>1, CatalogSound DEF DeleteItem, tables
  <1>5. CASE VisitCatalog
    <2>1. Exports(Missing) = {}
      BY AuthoringAssumption DEF Exports, Kind, Missing
    <2>2. Exports(catalog') \subseteq known'
      BY <1>5, <2>1, ExportsOf DEF VisitCatalog, Inv, SourcesKnown
    <2> QED  BY <1>5, <2>2, CatalogSound DEF VisitCatalog, tables
  <1>6. ASSUME NEW a \in Agents, NEW r \in Reports, CollectorReports(a, r)
        PROVE  Inv'
    BY <1>6, ReportedSound, AuthoringAssumption DEF CollectorReports, tables
  <1>7. ASSUME NEW a \in Agents, NEW c, RunsVersion(a, c)
        PROVE  Inv'
    <2> DEFINE r == [reported[a] EXCEPT !.effective = Materialize(c.content)]
    <2>1. /\ reported' = [reported EXCEPT ![a] = r]
          /\ known' = known \cup Values(reported'[a].effective)
          /\ UNCHANGED <<policies, secrets, catalog, delegated, tables>>
      BY <1>7 DEF RunsVersion
    <2>2. "effective" \in DOMAIN r  BY DEF Inv, Shapes
    <2>3. reported'[a] = r  BY <2>1 DEF Inv, Shapes
    <2> HIDE DEF r
    <2> QED  BY <2>1, <2>2, <2>3, ReportedSound DEF tables
  <1> QED  BY <1>1, <1>2, <1>3, <1>4, <1>5, <1>6, <1>7 DEF Changes

LEMMA NextSound ==
    ASSUME Inv, UNCHANGED packageVars, Next
    PROVE  Inv'
  <1>1. ASSUME NEW u \in Users, Writes(u)
        PROVE  Inv'
    BY <1>1, CreateConfigurationSound, GenerateSound, InstantiateSound DEF Writes
  <1>2. ASSUME NEW u \in Users, Publishes(u)
        PROVE  Inv'
    BY <1>2, CreateTemplateSound DEF Publishes
  <1> QED  BY <1>1, <1>2, ProceedsSound, PutSound, SaveSound, ChangesSound DEF Next

---------------------------------------------------------------------------
(* The actions of PackageConfiguration.                                     *)

LEMMA PublishPackageSound ==
    ASSUME Inv, NEW u, NEW p, PublishPackage(u, p)
    PROVE  Inv'
  <1>1. /\ packages' = packages \cup {p} /\ known' = known \cup Values(p.baseline)
        /\ UNCHANGED <<tables, world, released, previews, submitting, handoffs>>
    BY DEF PublishPackage
  <1>2. Grows  BY <1>1 DEF Grows, world
  <1>3. PackagesSound'  BY <1>1 DEF Inv, PackagesSound, Locked
  <1> QED  BY <1>1, <1>2, <1>3, StableRows, StableSources, StableHandoffs
              DEF Inv, Shapes, tables, world

(* Fields that the user left alone or may not edit are the package's.       *)
LEMMA ConfigurePackageSound ==
    ASSUME Inv, NEW u, NEW g, NEW p \in packages, NEW overlay, ConfigurePackage(u, g, p, overlay)
    PROVE  Inv'
  <1> DEFINE fields  == [s \in Filled(overlay) |-> overlay[s]]
             content == Compose(p.baseline, fields)
             new == [package |-> p, evidence |-> Evidence(p), group |-> g, content |-> content]
  <1>1. /\ OverlayAllowed(p, overlay) /\ Resolves(content)
        /\ previews' = previews \cup {new}
        /\ known' = known \cup {x \in Values(content) : x[1] \in p.editable}
        /\ UNCHANGED <<tables, world, packages, released, submitting, handoffs>>
    BY DEF ConfigurePackage
  <1>2. \A s \in Sections \ p.editable : Section(content, s) = Section(p.baseline, s)
    <2>1. \A s \in Sections \ p.editable : s \notin DOMAIN fields
      BY <1>1 DEF OverlayAllowed
    <2> HIDE DEF fields
    <2> QED  BY <2>1, ComposeKeeps
  <1> HIDE DEF content
  <1>3. Values(content) \subseteq known'
    <2>1. Values(p.baseline) \subseteq known  BY DEF Inv, PackagesSound
    <2> QED  BY <1>1, <1>2, <2>1 DEF Values
  <1>4. Grows  BY <1>1 DEF Grows, world
  <1>5. PackagesSound'
    <2>1. Locked(new)  BY <1>2 DEF Locked
    <2>2. \A w \in previews' :
             Values(w.content) \subseteq known' /\ Resolves(w.content) /\ Locked(w)
      BY <1>1, <1>3, <2>1 DEF Inv, PackagesSound
    <2> QED  BY <1>1, <2>2 DEF Inv, PackagesSound, Locked
  <1> QED  BY <1>1, <1>4, <1>5, StableRows, StableSources, StableHandoffs
              DEF Inv, Shapes, tables, world

LEMMA SubmitPreviewSound ==
    ASSUME Inv, NEW h \in Submitters, NEW u, NEW w, NEW n, NEW v, SubmitPreview(h, u, w, n, v)
    PROVE  Inv'
  <1> DEFINE new == [does |-> "handoff", preview |-> w, row |-> Version(w.group, n, v, w.content)]
  <1>1. /\ w \in previews /\ submitting' = [submitting EXCEPT ![h] = new]
        /\ UNCHANGED <<vars, packages, released, previews, handoffs>>
    BY DEF SubmitPreview
  <1>2. new.preview = w /\ new.row.content = w.content /\ new.row.group = w.group
    BY DEF Version
  <1> HIDE DEF new
  <1>3. DOMAIN submitting = Submitters  BY DEF Inv, Shapes
  <1>4. \A k \in Submitters : submitting'[k] = IF k = h THEN new ELSE submitting[k]
    BY <1>1, <1>3
  <1>5. PackagesSound'
    BY <1>1, <1>2, <1>4 DEF Inv, PackagesSound, Locked, vars
  <1>6. Shapes' /\ Grows  BY <1>1 DEF Inv, Shapes, vars, Grows
  <1> QED  BY <1>1, <1>5, <1>6, StableRows, StableSources, StableHandoffs DEF Inv, vars

LEMMA HandoffSound ==
    ASSUME Inv, NEW h \in Submitters, Handoff(h)
    PROVE  Inv'
  <1> DEFINE w == submitting[h].preview  c == submitting[h].row
             new == [preview |-> w, version |-> c]
  <1>1. /\ submitting[h] # Idle /\ submitting' = [submitting EXCEPT ![h] = Idle]
        /\ UNCHANGED <<templates, history, page, task, known, world, packages, released, previews>>
    BY DEF Handoff
  <1>2. \/ /\ Receivable(w, c) /\ configurations' = configurations \cup {c}
           /\ handoffs' = handoffs \cup {new}
        \/ UNCHANGED <<configurations, handoffs>>
    BY DEF Handoff
  <1>3. /\ w \in previews /\ c.content = w.content /\ c.group = w.group
        /\ Values(w.content) \subseteq known /\ Resolves(w.content) /\ Locked(w)
    BY <1>1 DEF Inv, PackagesSound
  <1>4. new.preview = w /\ new.version = c  OBVIOUS
  <1> HIDE DEF w, c, new
  <1>5. DOMAIN submitting = Submitters  BY DEF Inv, Shapes
  <1>6. \A k \in Submitters : submitting'[k] = IF k = h THEN Idle ELSE submitting[k]
    BY <1>1, <1>5
  <1>7. PackagesSound'  BY <1>1, <1>6 DEF Inv, PackagesSound, Locked
  <1>8. Shapes' /\ Grows  BY <1>1 DEF Inv, Shapes, world, Grows
  <1>9. RowsSound'
    <2>1. Sound(c.content, delegated, known)  BY <1>3, KnownIsSound
    <2> QED  BY <1>1, <1>2, <2>1 DEF Inv, RowsSound, world
  <1>10. HandoffsAreExact'
    <2>1. CASE UNCHANGED <<configurations, handoffs>>
      BY <1>1, <2>1, StableHandoffs DEF Inv
    <2>2. CASE /\ Receivable(w, c) /\ configurations' = configurations \cup {c}
               /\ handoffs' = handoffs \cup {new}
      BY <1>1, <1>3, <1>4, <2>2 DEF Inv, HandoffsAreExact, Receivable, Locked
    <2> QED  BY <1>2, <2>1, <2>2
  <1> QED  BY <1>1, <1>7, <1>8, <1>9, <1>10, StableSources DEF Inv, world

---------------------------------------------------------------------------
(* The theorems.                                                            *)

LEMMA InitSound == PackageInit => Inv
  <1> SUFFICES ASSUME PackageInit
               PROVE  Inv
    OBVIOUS
  <1>1. reported \in [Agents -> Reports]  BY DEF PackageInit, Init
  <1>2. Shapes  BY <1>1, AuthoringAssumption DEF PackageInit, Init, Shapes
  <1>3. SourcesKnown  BY DEF PackageInit, Init, SourcesKnown
  <1>4. RowsSound /\ PackagesSound /\ HandoffsAreExact
    BY DEF PackageInit, Init, RowsSound, PackagesSound, HandoffsAreExact
  <1> QED  BY <1>2, <1>3, <1>4 DEF Inv

LEMMA StepSound == Inv /\ [PackageNext]_allVars => Inv'
  <1> SUFFICES ASSUME Inv, [PackageNext]_allVars
               PROVE  Inv'
    OBVIOUS
  <1>1. CASE UNCHANGED allVars
    BY <1>1, Untouched DEF allVars, vars, packageVars
  <1>2. ASSUME NEW p \in packages, ReleasePackage(p)
        PROVE  Inv'
    BY <1>2, Untouched DEF ReleasePackage, tables
  <1>3. CASE PackageNext
    BY <1>2, <1>3, NextSound, PublishPackageSound, ConfigurePackageSound, SubmitPreviewSound,
       HandoffSound DEF PackageNext
  <1> QED  BY <1>1, <1>3

THEOREM Soundness == PackageSpec => []Inv
  <1> QED  BY InitSound, StepSound, PTL DEF PackageSpec

(* No chain of edits, templates, generations, migrations and packages by    *)
(* others than administrators puts, into a version of any group, a section  *)
(* that was never delegated and that nobody entitled brought in, whatever   *)
(* is delegated or taken back between the reading of the policies and the   *)
(* write (section_editor.go, migration_validation.go, distributions.go).    *)
THEOREM LockedSections == PackageSpec => []LockedSectionsStand
  <1>1. Inv => LockedSectionsStand
    BY DEF Inv, RowsSound, Sound, Stands, LockedSectionsStand
  <1> QED  BY <1>1, Soundness, PTL

(* Every version and every template has pipelines that name components of   *)
(* the document, whichever of the six ways it came by (pipeline.go).        *)
THEOREM Loadable == PackageSpec => []VersionsResolve
  <1>1. Inv => VersionsResolve
    BY DEF Inv, RowsSound, Sound, SourcesKnown, VersionsResolve
  <1> QED  BY <1>1, Soundness, PTL

(* However many requests submit a preview at once, it becomes one version,  *)
(* with what was previewed (distribution_previews.go).                      *)
THEOREM ExactHandoffs == PackageSpec => []HandoffsAreExact
  <1>1. Inv => HandoffsAreExact  BY DEF Inv
  <1> QED  BY <1>1, Soundness, PTL

---------------------------------------------------------------------------
(***************************************************************************)
(* Migrations.  What the wizard has made of an imported document so far is *)
(* a function of that document and of what was confirmed, on every page    *)
(* and up to the history; and every document there is has the form that    *)
(* the computation of a proposal reads.                                    *)
(***************************************************************************)

Mapped == Components \cup {"service_pipelines"}

LEMMA MappedOf ==
    ASSUME NEW d, IsDocument(d), NEW s \in Mapped, s \in DOMAIN d
    PROVE  "of" \in DOMAIN d[s]
  BY DEF IsDocument, IsSection, Mapped

LEMMA CanonicalKeeps ==
    ASSUME NEW d, IsDocument(d)
    PROVE  /\ DOMAIN Canonical(d) = DOMAIN d
           /\ \A s \in Mapped : Mapping(Canonical(d), s) = Mapping(d, s)
           /\ \A s : s \notin Mapped => Section(Canonical(d), s) = Section(d, s)
           /\ \A s : s \in DOMAIN d /\ s \notin Mapped => Canonical(d)[s] = d[s]
  <1>1. DOMAIN Canonical(d) = DOMAIN d  BY DEF Canonical
  <1>2. ASSUME NEW s \in Mapped, s \in DOMAIN d
        PROVE  Canonical(d)[s].of = d[s].of
    <2>1. "of" \in DOMAIN d[s]  BY <1>2, MappedOf
    <2>2. Canonical(d)[s] = [d[s] EXCEPT !.layout = "canonical"]
      BY <1>2 DEF Canonical, Mapped
    <2> QED  BY <2>1, <2>2
  <1>3. \A s : s \in DOMAIN d /\ s \notin Mapped => Canonical(d)[s] = d[s]
    BY DEF Canonical, Mapped
  <1> QED  BY <1>1, <1>2, <1>3 DEF Mapping, Section

LEMMA CanonicalForm ==
    ASSUME NEW d, IsDocument(d)
    PROVE  IsDocument(Canonical(d))
  <1> SUFFICES ASSUME NEW s \in DOMAIN Canonical(d)
               PROVE  IsSection(s, Canonical(d)[s])
    BY DEF IsDocument
  <1>1. s \in DOMAIN d /\ IsSection(s, d[s])  BY CanonicalKeeps DEF IsDocument
  <1>2. CASE s \in Mapped
    <2>1. Canonical(d)[s] = [d[s] EXCEPT !.layout = "canonical"]
      BY <1>1, <1>2 DEF Canonical, Mapped
    <2>2. "of" \in DOMAIN d[s]  BY <1>1, <1>2, MappedOf
    <2>3. "of" \in DOMAIN Canonical(d)[s] /\ Canonical(d)[s].of = d[s].of
      BY <2>1, <2>2
    <2> QED  BY <1>1, <2>3 DEF IsSection
  <1>3. CASE s \notin Mapped
    BY <1>3 DEF IsSection, Mapped
  <1> QED  BY <1>2, <1>3

(* The baseline adds the processors that are missing and their places.      *)
LEMMA BaselineKeeps ==
    ASSUME NEW d, IsDocument(d)
    PROVE  LET e == WithBaseline(d) IN
           /\ IsDocument(e)
           /\ DOMAIN e = DOMAIN d \cup {"processors"}
           /\ \A s : s \in DOMAIN d /\ s \notin {"processors", "service_pipelines"} => e[s] = d[s]
           /\ \A n \in Names(d, "processors") :
                 n \in Names(e, "processors")
                 /\ Mapping(e, "processors")[n] = Mapping(d, "processors")[n]
           /\ Names(e, "processors") \subseteq Names(d, "processors") \cup {Limiter, Batch}
           /\ Names(e, "service_pipelines") = Names(d, "service_pipelines")
           /\ BaselineOnly(Mapping(d, "service_pipelines"), Mapping(e, "service_pipelines"))
  <1> DEFINE old   == Mapping(d, "processors")
             added == {n \in {Limiter, Batch} : ~HasType(DOMAIN old, Type(n))}
             processors == [n \in DOMAIN old \cup added |->
                              IF n \in added THEN Safe(n) ELSE old[n]]
             lines == Mapping(d, "service_pipelines")
             pipelines == [n \in DOMAIN lines |->
                             [lines[n] EXCEPT !.processors = WithProcessors(@)]]
             e == WithBaseline(d)
  <1>1. e = [s \in DOMAIN d \cup {"processors"} |->
               CASE s = "processors" -> [of |-> processors, layout |-> "canonical"]
                 [] s = "service_pipelines" -> [of |-> pipelines, layout |-> "canonical"]
                 [] OTHER -> d[s]]
    BY DEF WithBaseline
  <1>2. /\ DOMAIN old \cap added = {} /\ added \subseteq {Limiter, Batch}
        /\ \A n \in DOMAIN old : IsFiniteSet(old[n]) /\ Number(n) \in Nat
    <2>1. added \subseteq {Limiter, Batch} /\ \A n \in added : n \notin DOMAIN old
      BY DEF HasType
    <2>2. \A n \in DOMAIN old : IsFiniteSet(old[n]) /\ Number(n) \in Nat
      BY DEF Mapping, IsDocument, IsSection, Components
    <2> QED  BY <2>1, <2>2
  <1>3. \A n \in DOMAIN lines : {"receivers", "processors", "exporters"} \subseteq DOMAIN lines[n]
    BY DEF Mapping, IsDocument, IsSection
  <1> HIDE DEF old, added, lines, e
  <1>4. /\ DOMAIN e = DOMAIN d \cup {"processors"}
        /\ e["processors"] = [of |-> processors, layout |-> "canonical"]
        /\ "service_pipelines" \in DOMAIN d =>
              e["service_pipelines"] = [of |-> pipelines, layout |-> "canonical"]
        /\ \A s : s \in DOMAIN d /\ s \notin {"processors", "service_pipelines"} => e[s] = d[s]
    BY <1>1
  <1>5. Mapping(e, "processors") = processors
    BY <1>4 DEF Mapping
  <1>6. /\ DOMAIN processors = DOMAIN old \cup added
        /\ \A n \in DOMAIN old : processors[n] = old[n]
        /\ \A n \in added : processors[n] = Safe(n)
    BY <1>2
  <1>7. Mapping(e, "service_pipelines") = pipelines
    <2>1. CASE "service_pipelines" \in DOMAIN d  BY <2>1, <1>4 DEF Mapping
    <2>2. CASE "service_pipelines" \notin DOMAIN d
      <3>1. lines = <<>> /\ Mapping(e, "service_pipelines") = <<>>
        BY <2>2, <1>4 DEF lines, Mapping
      <3>2. DOMAIN lines = {}  BY <3>1
      <3>3. pipelines = <<>>  BY <3>2
      <3> QED  BY <3>1, <3>3
    <2> QED  BY <2>1, <2>2
  <1>8. ASSUME NEW n \in DOMAIN lines
        PROVE  /\ pipelines[n].receivers = lines[n].receivers
               /\ pipelines[n].exporters = lines[n].exporters
               /\ pipelines[n].processors = WithProcessors(lines[n].processors)
               /\ {"receivers", "processors", "exporters"} \subseteq DOMAIN pipelines[n]
    <2>1. {"receivers", "processors", "exporters"} \subseteq DOMAIN lines[n]  BY <1>3
    <2>2. pipelines[n] = [lines[n] EXCEPT !.processors = WithProcessors(@)]  OBVIOUS
    <2> HIDE DEF pipelines
    <2> QED  BY <2>1, <2>2
  <1>9. DOMAIN pipelines = DOMAIN lines  OBVIOUS
  <1> HIDE DEF pipelines, processors
  <1>10. BaselineOnly(lines, pipelines)
    <2> SUFFICES ASSUME NEW n \in DOMAIN lines
                 PROVE  \E front \in {<<>>, <<Limiter>>}, back \in {<<>>, <<Batch>>} :
                           pipelines[n].processors = front \o lines[n].processors \o back
      BY <1>8 DEF BaselineOnly
    <2> DEFINE list == lines[n].processors
               front == IF HasType(Items(list), "memory_limiter") THEN <<>> ELSE <<Limiter>>
               back  == IF HasType(Items(list), "batch") THEN <<>> ELSE <<Batch>>
    <2>1. pipelines[n].processors = front \o list \o back  BY <1>8 DEF WithProcessors
    <2>2. front \in {<<>>, <<Limiter>>} /\ back \in {<<>>, <<Batch>>}  OBVIOUS
    <2> HIDE DEF front, back
    <2> QED  BY <2>1, <2>2
  <1>11. IsDocument(e)
    <2> SUFFICES ASSUME NEW s \in DOMAIN e
                 PROVE  IsSection(s, e[s])
      BY DEF IsDocument
    <2>1. CASE s = "processors"
      <3>1. \A n \in added : IsFiniteSet(Safe(n)) /\ Number(n) \in Nat
        <4>1. IsFiniteSet({"check_interval=1s", "limit_mib=512", "spike_limit_mib=128"})
          <5>1. IsFiniteSet({"check_interval=1s"})  BY FS_Singleton
          <5>2. IsFiniteSet({"check_interval=1s"} \cup {"limit_mib=512"})  BY <5>1, FS_AddElement
          <5>3. IsFiniteSet(({"check_interval=1s"} \cup {"limit_mib=512"})
                            \cup {"spike_limit_mib=128"})
            BY <5>2, FS_AddElement
          <5>4. {"check_interval=1s", "limit_mib=512", "spike_limit_mib=128"}
                = ({"check_interval=1s"} \cup {"limit_mib=512"}) \cup {"spike_limit_mib=128"}
            OBVIOUS
          <5> QED  BY <5>3, <5>4
        <4>2. IsFiniteSet({})  BY FS_EmptySet
        <4>3. Number(Limiter) \in Nat /\ Number(Batch) \in Nat  BY DEF Limiter, Batch, Number
        <4> QED  BY <4>1, <4>2, <4>3, <1>2 DEF Safe
      <3>2. \A n \in DOMAIN processors : Number(n) \in Nat /\ IsFiniteSet(processors[n])
        BY <3>1, <1>2, <1>6
      <3>3. e[s] = [of |-> processors, layout |-> "canonical"]  BY <1>4, <2>1
      <3>4. "of" \in DOMAIN e[s] /\ e[s].of = processors  BY <3>3
      <3> QED  BY <2>1, <3>2, <3>4 DEF IsSection
    <2>2. CASE s = "service_pipelines"
      <3>1. e[s] = [of |-> pipelines, layout |-> "canonical"]  BY <1>4, <2>2
      <3>2. "of" \in DOMAIN e[s] /\ e[s].of = pipelines  BY <3>1
      <3> QED  BY <2>2, <3>2, <1>8, <1>9 DEF IsSection, Components
    <2>3. CASE s \notin {"processors", "service_pipelines"}
      BY <2>3, <1>4 DEF IsDocument
    <2> QED  BY <2>1, <2>2, <2>3
  <1>12. Names(e, "processors") = DOMAIN old \cup added
         /\ Names(e, "service_pipelines") = DOMAIN lines
    BY <1>5, <1>6, <1>7, <1>9 DEF Names
  <1> QED
    <2>1. old = Mapping(d, "processors") /\ lines = Mapping(d, "service_pipelines")
          /\ e = WithBaseline(d)
      BY DEF old, lines, e
    <2>2. Names(d, "processors") = DOMAIN old /\ Names(d, "service_pipelines") = DOMAIN lines
      BY <2>1 DEF Names
    <2> QED  BY <1>2, <1>4, <1>5, <1>6, <1>7, <1>10, <1>11, <1>12, <2>1, <2>2

(* What standardisation keeps of a document.                                *)
Standard(old, new, baseline) ==
    /\ \A s \in Components \ {"processors"} : Mapping(new, s) = Mapping(old, s)
    /\ \A s : s \notin Mapped => /\ s \in DOMAIN new <=> s \in DOMAIN old
                                 /\ Section(new, s) = Section(old, s)
    /\ \A n \in Names(old, "processors") :
          n \in Names(new, "processors")
          /\ Mapping(new, "processors")[n] = Mapping(old, "processors")[n]
    /\ Names(new, "processors") \subseteq
          Names(old, "processors") \cup IF baseline THEN {Limiter, Batch} ELSE {}
    /\ Names(new, "service_pipelines") = Names(old, "service_pipelines")
    /\ IF baseline
       THEN BaselineOnly(Mapping(old, "service_pipelines"), Mapping(new, "service_pipelines"))
       ELSE Mapping(old, "service_pipelines") = Mapping(new, "service_pipelines")

LEMMA StandardizeKeeps ==
    ASSUME NEW d, IsDocument(d), NEW baseline \in BOOLEAN
    PROVE  /\ IsDocument(Standardize(d, baseline))
           /\ Standard(d, Standardize(d, baseline), baseline)
  <1>1. CASE ~baseline
    <2>1. Standardize(d, baseline) = Canonical(d)  BY <1>1 DEF Standardize
    <2>2. IsDocument(Canonical(d))  BY CanonicalForm
    <2>3. /\ DOMAIN Canonical(d) = DOMAIN d
          /\ \A s \in Mapped : Mapping(Canonical(d), s) = Mapping(d, s)
          /\ \A s : s \notin Mapped => Section(Canonical(d), s) = Section(d, s)
      BY CanonicalKeeps
    <2> DEFINE e == Canonical(d)
    <2>4. Standard(d, e, FALSE)
      <3>1. "processors" \in Mapped /\ "service_pipelines" \in Mapped /\ Components \subseteq Mapped
        BY DEF Mapped, Components
      <3>2. \A s \in Mapped : Mapping(e, s) = Mapping(d, s) /\ Names(e, s) = Names(d, s)
        BY <2>3 DEF Names
      <3>3. \A s : s \notin Mapped => /\ s \in DOMAIN e <=> s \in DOMAIN d
                                      /\ Section(e, s) = Section(d, s)
        BY <2>3
      <3> HIDE DEF e
      <3> QED  BY <3>1, <3>2, <3>3 DEF Standard
    <2> QED  BY <1>1, <2>1, <2>2, <2>4
  <1>2. CASE baseline
    <2> DEFINE e == WithBaseline(d)
               f == Canonical(e)
    <2>1. Standardize(d, baseline) = f  BY <1>2 DEF Standardize
    <2>2. /\ IsDocument(e)
          /\ DOMAIN e = DOMAIN d \cup {"processors"}
          /\ \A s : s \in DOMAIN d /\ s \notin {"processors", "service_pipelines"} => e[s] = d[s]
          /\ \A n \in Names(d, "processors") :
                n \in Names(e, "processors")
                /\ Mapping(e, "processors")[n] = Mapping(d, "processors")[n]
          /\ Names(e, "processors") \subseteq Names(d, "processors") \cup {Limiter, Batch}
          /\ Names(e, "service_pipelines") = Names(d, "service_pipelines")
          /\ BaselineOnly(Mapping(d, "service_pipelines"), Mapping(e, "service_pipelines"))
      BY BaselineKeeps
    <2> HIDE DEF e
    <2>3. IsDocument(f)  BY <2>2, CanonicalForm
    <2>4. /\ DOMAIN f = DOMAIN e
          /\ \A s \in Mapped : Mapping(f, s) = Mapping(e, s)
          /\ \A s : s \notin Mapped => Section(f, s) = Section(e, s)
      BY <2>2, CanonicalKeeps
    <2> HIDE DEF f
    <2>5. \A s \in Components \ {"processors"} : Mapping(e, s) = Mapping(d, s)
      BY <2>2 DEF Mapping, Components
    <2>6. \A s : s \notin Mapped => /\ s \in DOMAIN e <=> s \in DOMAIN d
                                    /\ Section(e, s) = Section(d, s)
      BY <2>2 DEF Section, Mapped, Components
    <2>7. "processors" \in Mapped /\ "service_pipelines" \in Mapped /\ Components \subseteq Mapped
      BY DEF Mapped, Components
    <2>8. /\ Mapping(f, "processors") = Mapping(e, "processors")
          /\ Names(f, "processors") = Names(e, "processors")
          /\ Mapping(f, "service_pipelines") = Mapping(e, "service_pipelines")
          /\ Names(f, "service_pipelines") = Names(e, "service_pipelines")
      BY <2>4, <2>7 DEF Names
    <2>9. \A s \in Components \ {"processors"} : Mapping(f, s) = Mapping(d, s)
      BY <2>4, <2>5, <2>7
    <2>10. \A s : s \notin Mapped => /\ s \in DOMAIN f <=> s \in DOMAIN d
                                     /\ Section(f, s) = Section(d, s)
      BY <2>4, <2>6
    <2>11. Standard(d, f, TRUE)
      BY <2>2, <2>8, <2>9, <2>10 DEF Standard
    <2> QED  BY <1>2, <2>1, <2>3, <2>11
  <1> QED  BY <1>1, <1>2

(* The first receiver of a type by its number.                              *)
LEMMA TargetIn ==
    ASSUME NEW d, IsDocument(d), NEW p, Fits(d, p)
    PROVE  /\ Target(d, p) \in OfType(d, p.receiver)
           /\ Target(d, p) \in Names(d, "receivers")
           /\ "receivers" \in DOMAIN d
  <1> DEFINE T == OfType(d, p.receiver)
             N == {Number(n) : n \in T}
             R == OpToRel(<, Nat)
  <1>1. "receivers" \in DOMAIN d
    <2> SUFFICES ASSUME "receivers" \notin DOMAIN d
                 PROVE  FALSE
      OBVIOUS
    <2>1. Mapping(d, "receivers") = <<>>  BY DEF Mapping
    <2>2. Names(d, "receivers") = {}  BY <2>1 DEF Names
    <2> QED  BY <2>2 DEF Fits, OfType
  <1>2. T \subseteq Names(d, "receivers") /\ T # {}  BY DEF OfType, Fits
  <1>3. \A n \in T : Number(n) \in Nat
    BY <1>1, <1>2 DEF Names, Mapping, IsDocument, IsSection, Components
  <1> HIDE DEF T, R
  <1>4. N \subseteq Nat /\ N # {}  BY <1>2, <1>3
  <1>5. PICK x \in N : \A y \in N : ~(<<y, x>> \in R)
    <2>1. IsWellFoundedOn(R, Nat)  BY NatLessThanWellFounded DEF R
    <2> HIDE DEF N
    <2> QED  BY <1>4, <2>1, WFMin
  <1>6. PICK n \in T : x = Number(n)  OBVIOUS
  <1>7. \A m \in T : Number(m) \in N  OBVIOUS
  <1> HIDE DEF N
  <1>8. \A m \in T : Number(n) <= Number(m)
    <2> SUFFICES ASSUME NEW m \in T
                 PROVE  Number(n) <= Number(m)
      OBVIOUS
    <2>1. Number(m) \in N /\ Number(m) \in Nat /\ Number(n) \in Nat  BY <1>3, <1>7
    <2>2. ~(Number(m) < Number(n))  BY <1>5, <1>6, <2>1 DEF R, OpToRel
    <2> QED  BY <2>1, <2>2
  <1>9. Target(d, p) = CHOOSE k \in T : \A m \in T : Number(k) <= Number(m)
    BY DEF Target, T
  <1>10. Target(d, p) \in T  BY <1>8, <1>9
  <1> QED  BY <1>1, <1>2, <1>10 DEF T

(* Adoption replaces the setting of one receiver.                           *)
LEMMA AdoptKeeps ==
    ASSUME NEW d, IsDocument(d), NEW p, Fits(d, p), IsFiniteSet(p.setting)
    PROVE  LET e == Adopt(d, p)  t == Target(d, p) IN
           /\ IsDocument(e)
           /\ DOMAIN e = DOMAIN d
           /\ Mapping(e, "receivers") = [Mapping(d, "receivers") EXCEPT ![t] = p.setting]
           /\ \A s \in Mapped \ {"receivers"} : Mapping(e, s) = Mapping(d, s)
           /\ \A s : s \notin Mapped => Section(e, s) = Section(d, s)
  <1> DEFINE t == Target(d, p)
             r == [d["receivers"] EXCEPT !.of = [d["receivers"].of EXCEPT ![t] = p.setting]]
             f == [d EXCEPT !["receivers"] = r]
  <1>1. t \in Names(d, "receivers") /\ "receivers" \in DOMAIN d  BY TargetIn
  <1>2. "of" \in DOMAIN d["receivers"]
        /\ \A n \in DOMAIN d["receivers"].of :
              Number(n) \in Nat /\ IsFiniteSet(d["receivers"].of[n])
    BY <1>1 DEF IsDocument, IsSection, Components
  <1>3. Adopt(d, p) = Canonical(f)  BY DEF Adopt
  <1> HIDE DEF t
  <1>4. "of" \in DOMAIN r /\ r.of = [d["receivers"].of EXCEPT ![t] = p.setting]
    BY <1>2
  <1>5. \A n \in DOMAIN r.of : Number(n) \in Nat /\ IsFiniteSet(r.of[n])
    BY <1>2, <1>4
  <1> HIDE DEF r
  <1>6. DOMAIN f = DOMAIN d /\ f["receivers"] = r /\ \A s \in DOMAIN d \ {"receivers"} : f[s] = d[s]
    BY <1>1
  <1> HIDE DEF f
  <1>7. IsDocument(f)
    <2> SUFFICES ASSUME NEW s \in DOMAIN f
                 PROVE  IsSection(s, f[s])
      BY DEF IsDocument
    <2>1. CASE s = "receivers"
      <3>1. f[s] = r /\ s # "service_pipelines"  BY <1>6, <2>1
      <3> QED  BY <1>4, <1>5, <3>1 DEF IsSection
    <2>2. CASE s # "receivers"
      BY <1>6, <2>2 DEF IsDocument
    <2> QED  BY <2>1, <2>2
  <1>8. /\ DOMAIN Canonical(f) = DOMAIN d
        /\ \A s \in Mapped : Mapping(Canonical(f), s) = Mapping(f, s)
        /\ \A s : s \notin Mapped => Section(Canonical(f), s) = Section(f, s)
    BY <1>6, <1>7, CanonicalKeeps
  <1>9. Mapping(f, "receivers") = [Mapping(d, "receivers") EXCEPT ![t] = p.setting]
    BY <1>1, <1>4, <1>6 DEF Mapping
  <1>10. \A s : s # "receivers" => Mapping(f, s) = Mapping(d, s) /\ Section(f, s) = Section(d, s)
    BY <1>6 DEF Mapping, Section
  <1>11. "receivers" \in Mapped  BY DEF Mapped, Components
  <1>12. IsDocument(Canonical(f))  BY <1>7, CanonicalForm
  <1>13. Mapping(Canonical(f), "receivers") = [Mapping(d, "receivers") EXCEPT ![t] = p.setting]
    BY <1>8, <1>9, <1>11
  <1>14. /\ \A s \in Mapped \ {"receivers"} : Mapping(Canonical(f), s) = Mapping(d, s)
         /\ \A s : s \notin Mapped => Section(Canonical(f), s) = Section(d, s)
    BY <1>8, <1>10, <1>11
  <1>15. t = Target(d, p)  BY DEF t
  <1> QED  BY <1>3, <1>8, <1>12, <1>13, <1>14, <1>15

---------------------------------------------------------------------------
(* A setting fits a pattern best when it is the pattern's.                  *)

LEMMA RoundBound ==
    ASSUME NEW a \in Nat, NEW b \in Nat, a <= b, b > 0
    PROVE  Round(20 * a, b) \in Nat /\ Round(20 * a, b) <= 20
  <1> DEFINE m == 2 * (20 * a) + b
             e == 2 * b
  <1>1. m \in Nat /\ e \in Nat /\ e > 0 /\ m < e * 21  OBVIOUS
  <1>2. Round(20 * a, b) = m \div e  BY DEF Round
  <1> HIDE DEF m, e
  <1>3. m \div e \in Nat /\ m \div e <= 20  BY ONLY <1>1
  <1> QED  BY <1>2, <1>3

LEMMA SettingScoreBound ==
    ASSUME NEW actual, IsFiniteSet(actual), NEW expected, IsFiniteSet(expected)
    PROVE  SettingScore(actual, expected) \in Nat /\ SettingScore(actual, expected) <= 20
  <1> DEFINE all == actual \cup expected
             both == actual \cap expected
             a == Cardinality(both)
             b == Cardinality(all)
  <1>1. IsFiniteSet(all)  BY FS_Union
  <1>2. both \in SUBSET all  OBVIOUS
  <1> HIDE DEF all, both
  <1>3. IsFiniteSet(both) /\ Cardinality(both) <= Cardinality(all)
    BY <1>1, <1>2, FS_Subset
  <1>4. a \in Nat /\ b \in Nat /\ a <= b
    BY <1>1, <1>3, FS_CardinalityType
  <1>5. all # {} => b # 0  BY <1>1, FS_EmptySet
  <1>6. SettingScore(actual, expected) = IF all = {} THEN 20 ELSE Round(20 * a, b)
    BY DEF SettingScore, all, both
  <1> HIDE DEF a, b
  <1>7. CASE all = {}  BY <1>6, <1>7
  <1>8. CASE all # {}
    <2>1. b > 0  BY <1>4, <1>5, <1>8
    <2> QED  BY <1>4, <1>6, <1>8, <2>1, RoundBound
  <1> QED  BY <1>7, <1>8

LEMMA SettingScoreOfSame ==
    ASSUME NEW expected, IsFiniteSet(expected)
    PROVE  SettingScore(expected, expected) = 20
  <1> DEFINE c == Cardinality(expected)
  <1>1. expected \cup expected = expected /\ expected \cap expected = expected  OBVIOUS
  <1>2. c \in Nat /\ (expected # {} => c # 0)  BY FS_CardinalityType, FS_EmptySet
  <1>3. SettingScore(expected, expected) = IF expected = {} THEN 20 ELSE Round(20 * c, c)
    BY <1>1 DEF SettingScore
  <1> HIDE DEF c
  <1>4. c > 0 => Round(20 * c, c) = 20
    <2> SUFFICES ASSUME c > 0
                 PROVE  Round(20 * c, c) = 20
      OBVIOUS
    <2>1. Round(20 * c, c) = (41 * c) \div (2 * c)
      <3>1. 2 * (20 * c) + c = 41 * c  BY ONLY <1>2
      <3> QED  BY <3>1 DEF Round
    <2>2. (41 * c) \div (2 * c) = 20  BY ONLY <1>2, c > 0
    <2> QED  BY <2>1, <2>2
  <1> QED  BY <1>2, <1>3, <1>4

LEMMA SignalScoreType ==
    ASSUME NEW d, NEW p, IsFiniteSet(p.signals)
    PROVE  SignalScore(d, p) \in Nat
  <1> DEFINE actual == {Type(n) : n \in Names(d, "service_pipelines")}
             a == Cardinality(p.signals \cap actual)
             b == Cardinality(p.signals)
  <1>1. SignalScore(d, p) = IF p.signals = {} THEN 0 ELSE Round(25 * a, b)
    BY DEF SignalScore
  <1>2. a \in Nat
    <2>1. IsFiniteSet(p.signals \cap actual)  BY FS_Intersection
    <2> QED  BY <2>1, FS_CardinalityType
  <1>3. b \in Nat /\ (p.signals # {} => b # 0)  BY FS_CardinalityType, FS_EmptySet
  <1> HIDE DEF a, b
  <1>4. b # 0 => Round(25 * a, b) \in Nat
    <2> SUFFICES ASSUME b # 0
                 PROVE  Round(25 * a, b) \in Nat
      OBVIOUS
    <2> DEFINE m == 2 * (25 * a) + b
               e == 2 * b
    <2>1. m \in Nat /\ e \in Nat /\ e > 0  BY <1>2, <1>3
    <2>2. Round(25 * a, b) = m \div e  BY DEF Round
    <2> HIDE DEF m, e
    <2>3. m \div e \in Nat  BY ONLY <2>1
    <2> QED  BY <2>2, <2>3
  <1> QED  BY <1>1, <1>3, <1>4

---------------------------------------------------------------------------
(* The result of a migration, compared with what was imported.              *)

Final(pg) ==
    /\ IsDocument(pg.imported) /\ pg.baseline \in BOOLEAN
    /\ \/ /\ pg.adopted = {}
          /\ pg.content = Standardize(pg.imported, pg.baseline)
       \/ \E p \in Kind(Catalogued, "pattern") :
             /\ pg.adopted = {p} /\ Fits(pg.imported, p)
             /\ pg.content = Adopt(Standardize(pg.imported, pg.baseline), p)

(* How new differs from old if the setting of one receiver, or of none, was *)
(* replaced.                                                                *)
Migrated(old, new, baseline, replaced) ==
    /\ \A s \in Components \ {"receivers", "processors"} : Mapping(new, s) = Mapping(old, s)
    /\ \A s : s \notin Mapped => /\ s \in DOMAIN new <=> s \in DOMAIN old
                                 /\ Section(new, s) = Section(old, s)
    /\ Names(new, "receivers") = Names(old, "receivers")
    /\ \A n \in Names(old, "receivers") \ replaced :
          Mapping(new, "receivers")[n] = Mapping(old, "receivers")[n]
    /\ \A n \in Names(old, "processors") :
          n \in Names(new, "processors")
          /\ Mapping(new, "processors")[n] = Mapping(old, "processors")[n]
    /\ Names(new, "processors") \subseteq
          Names(old, "processors") \cup IF baseline THEN {Limiter, Batch} ELSE {}
    /\ Names(new, "service_pipelines") = Names(old, "service_pipelines")
    /\ IF baseline
       THEN BaselineOnly(Mapping(old, "service_pipelines"), Mapping(new, "service_pipelines"))
       ELSE Mapping(old, "service_pipelines") = Mapping(new, "service_pipelines")

(* Drift from one to the other is only what the user asked for.             *)
LEMMA MigratedDiffers ==
    ASSUME NEW old, NEW new, NEW baseline \in BOOLEAN, NEW replaced,
           Migrated(old, new, baseline, replaced)
    PROVE  LET lines == {<<"service_pipelines", n>> : n \in Names(old, "service_pipelines")}
               asked == {<<"receivers", n>> : n \in replaced}
                        \cup IF baseline THEN lines ELSE {}
               added == IF baseline THEN {<<"processors", Limiter>>, <<"processors", Batch>>}
                        ELSE {}
           IN  /\ Differences(old, new) \subseteq asked
               /\ Differences(new, old) \subseteq asked \cup added
  <1> DEFINE lines == {<<"service_pipelines", n>> : n \in Names(old, "service_pipelines")}
             asked == {<<"receivers", n>> : n \in replaced}
                      \cup IF baseline THEN lines ELSE {}
             added == IF baseline THEN {<<"processors", Limiter>>, <<"processors", Batch>>}
                      ELSE {}
  <1>1. \A s, v : Holds(s, v, v)  BY DEF Holds
  <1>2. ASSUME NEW s \in Mapped
        PROVE  Lacking(s, old, new) \subseteq asked /\ Lacking(s, new, old) \subseteq asked \cup added
    <2>1. CASE s \in Components \ {"receivers", "processors"}
      <3>1. Mapping(new, s) = Mapping(old, s) /\ Names(new, s) = Names(old, s)
        BY <2>1 DEF Migrated, Names
      <3>2. Lacking(s, old, new) = {} /\ Lacking(s, new, old) = {}
        BY <1>1, <3>1 DEF Lacking
      <3> QED  BY <3>2
    <2>2. CASE s = "receivers"
      <3>1. Names(new, s) = Names(old, s)
            /\ \A n \in Names(old, s) \ replaced : Mapping(new, s)[n] = Mapping(old, s)[n]
        BY <2>2 DEF Migrated
      <3>2. \A n \in Names(old, s) \ replaced :
               /\ Holds(s, Mapping(old, s)[n], Mapping(new, s)[n])
               /\ Holds(s, Mapping(new, s)[n], Mapping(old, s)[n])
        BY <1>1, <3>1
      <3>3. /\ Lacking(s, old, new) \subseteq {<<"receivers", n>> : n \in replaced}
            /\ Lacking(s, new, old) \subseteq {<<"receivers", n>> : n \in replaced}
        BY <2>2, <3>1, <3>2 DEF Lacking
      <3> QED  BY <3>3
    <2>3. CASE s = "processors"
      <3>1. \A n \in Names(old, s) :
               n \in Names(new, s) /\ Mapping(new, s)[n] = Mapping(old, s)[n]
        BY <2>3 DEF Migrated
      <3>2. Names(new, s) \subseteq Names(old, s) \cup IF baseline THEN {Limiter, Batch} ELSE {}
        BY <2>3 DEF Migrated
      <3>3. Lacking(s, old, new) = {}
        BY <1>1, <3>1 DEF Lacking
      <3>4. Lacking(s, new, old) \subseteq {<<s, n>> : n \in Names(new, s) \ Names(old, s)}
        BY <1>1, <3>1 DEF Lacking
      <3>5. Lacking(s, new, old) \subseteq added
        BY <2>3, <3>2, <3>4
      <3> QED  BY <3>3, <3>5
    <2>4. CASE s = "service_pipelines"
      <3>1. Names(new, s) = Names(old, s)  BY <2>4 DEF Migrated
      <3>2. Lacking(s, old, new) \subseteq lines /\ Lacking(s, new, old) \subseteq lines
        BY <2>4, <3>1 DEF Lacking
      <3>3. CASE baseline  BY <3>2, <3>3
      <3>4. CASE ~baseline
        <4>1. Mapping(old, s) = Mapping(new, s)  BY <2>4, <3>4 DEF Migrated
        <4>2. Lacking(s, old, new) = {} /\ Lacking(s, new, old) = {}
          BY <1>1, <3>1, <4>1 DEF Lacking
        <4> QED  BY <4>2
      <3> QED  BY <3>3, <3>4
    <2> QED  BY <2>1, <2>2, <2>3, <2>4 DEF Mapped
  <1>3. \A s : s \notin Mapped => /\ s \in DOMAIN new <=> s \in DOMAIN old
                                  /\ Section(new, s) = Section(old, s)
    BY DEF Migrated
  <1>4. {"service_extensions", "telemetry", Other} \cap Mapped = {}
    BY DEF Mapped, Components, Other
  <1>5. \A s \in {"service_extensions", "telemetry", Other} :
           /\ s \in DOMAIN new <=> s \in DOMAIN old
           /\ Section(new, s) = Section(old, s)
           /\ s \in DOMAIN old => new[s] = old[s]
    BY <1>3, <1>4 DEF Section
  <1> HIDE DEF asked, added, lines
  <1>6. Differences(old, new) = UNION {Lacking(s, old, new) : s \in Mapped}
    BY <1>5 DEF Differences, Mapped
  <1>7. Differences(new, old) = UNION {Lacking(s, new, old) : s \in Mapped}
    BY <1>5 DEF Differences, Mapped
  <1>8. Differences(old, new) \subseteq asked /\ Differences(new, old) \subseteq asked \cup added
    BY <1>2, <1>6, <1>7
  <1> QED  BY <1>8 DEF asked, added, lines

LEMMA SameTarget ==
    ASSUME NEW d, NEW e, NEW p, Names(d, "receivers") = Names(e, "receivers")
    PROVE  /\ OfType(d, p.receiver) = OfType(e, p.receiver)
           /\ Fits(d, p) <=> Fits(e, p)
           /\ Target(d, p) = Target(e, p)
  BY DEF OfType, Fits, Target

(* Adopting a pattern makes no document fit it worse.                       *)
LEMMA ScoreGrows ==
    ASSUME NEW d, IsDocument(d), NEW e, NEW p \in Kind(Catalogued, "pattern"), Fits(d, p),
           Names(e, "receivers") = Names(d, "receivers"),
           Names(e, "service_pipelines") = Names(d, "service_pipelines"),
           Mapping(e, "receivers")[Target(d, p)] = p.setting
    PROVE  Score(e, p) >= Score(d, p)
  <1> DEFINE setting == Mapping(d, "receivers")[Target(d, p)]
  <1>1. IsFiniteSet(p.setting) /\ IsFiniteSet(p.signals)
    BY AuthoringAssumption DEF Kind, IsItem
  <1>2. IsFiniteSet(setting)
    <2>1. Target(d, p) \in Names(d, "receivers") /\ "receivers" \in DOMAIN d  BY TargetIn
    <2> QED  BY <2>1 DEF Names, Mapping, IsDocument, IsSection, Components
  <1>3. Target(e, p) = Target(d, p)  BY SameTarget
  <1>4. SignalScore(e, p) = SignalScore(d, p)  BY DEF SignalScore
  <1>5. SignalScore(d, p) \in Nat  BY <1>1, SignalScoreType
  <1>6. SettingScore(p.setting, p.setting) = 20  BY <1>1, SettingScoreOfSame
  <1>7. SettingScore(setting, p.setting) \in Nat /\ SettingScore(setting, p.setting) <= 20
    BY <1>1, <1>2, SettingScoreBound
  <1>8. /\ Score(e, p) = 55 + SignalScore(d, p) + 20
        /\ Score(d, p) = 55 + SignalScore(d, p) + SettingScore(setting, p.setting)
    BY <1>3, <1>4, <1>6 DEF Score
  <1> HIDE DEF setting
  <1> QED  BY <1>5, <1>7, <1>8

Keeps(old, new, baseline, patterns) ==
    LET adopted == {<<"receivers", Target(old, p)>> : p \in patterns}
        lines == {<<"service_pipelines", n>> : n \in Names(old, "service_pipelines")}
        asked == adopted \cup IF baseline THEN lines ELSE {}
        added == IF baseline THEN {<<"processors", Limiter>>, <<"processors", Batch>>}
                 ELSE {}
    IN /\ Differences(old, new) \subseteq asked
       /\ Differences(new, old) \subseteq asked \cup added
       /\ IF baseline
          THEN BaselineOnly(Mapping(old, "service_pipelines"), Mapping(new, "service_pipelines"))
          ELSE Mapping(old, "service_pipelines") = Mapping(new, "service_pipelines")
       /\ \A p \in patterns :
             /\ Mapping(new, "receivers")[Target(old, p)] = p.setting
             /\ Score(new, p) >= Score(old, p)

LEMMA FinalKeeps ==
    ASSUME NEW pg, Final(pg)
    PROVE  /\ IsDocument(pg.content)
           /\ Keeps(pg.imported, pg.content, pg.baseline, pg.adopted)
  <1> DEFINE old == pg.imported  new == pg.content  b == pg.baseline
             mid == Standardize(old, b)
  <1>1. IsDocument(old) /\ b \in BOOLEAN  BY DEF Final
  <1> HIDE DEF old, b
  <1>2. IsDocument(mid) /\ Standard(old, mid, b)  BY <1>1, StandardizeKeeps
  <1>3. "receivers" \in Components \ {"processors"}
        /\ "processors" \in Mapped \ {"receivers"}
        /\ "service_pipelines" \in Mapped \ {"receivers"} /\ Components \subseteq Mapped
    BY DEF Components, Mapped
  <1>4. Mapping(mid, "receivers") = Mapping(old, "receivers")
        /\ Names(mid, "receivers") = Names(old, "receivers")
    BY <1>2, <1>3 DEF Standard, Names
  <1>5. CASE pg.adopted = {} /\ new = mid
    <2>1. Migrated(old, new, b, {})
      BY <1>2, <1>4, <1>5 DEF Standard, Migrated
    <2>2. {<<"receivers", n>> : n \in {}} = {<<"receivers", Target(old, p)>> : p \in {}}
      OBVIOUS
    <2>3. Keeps(old, new, b, {})
      <3> HIDE DEF new, mid
      <3> QED  BY <1>1, <2>1, <2>2, MigratedDiffers DEF Keeps, Migrated
    <2> QED  BY <1>2, <1>5, <2>3 DEF old, b
  <1>6. ASSUME NEW p \in Kind(Catalogued, "pattern"), pg.adopted = {p}, Fits(old, p),
               new = Adopt(mid, p)
        PROVE  IsDocument(new) /\ Keeps(old, new, b, {p})
    <2> DEFINE t == Target(old, p)
    <2>1. IsFiniteSet(p.setting)  BY AuthoringAssumption DEF Kind, IsItem
    <2>2. Fits(mid, p) /\ Target(mid, p) = t  BY <1>4, <1>6, SameTarget
    <2>3. /\ IsDocument(new)
          /\ DOMAIN new = DOMAIN mid
          /\ Mapping(new, "receivers") = [Mapping(mid, "receivers") EXCEPT ![t] = p.setting]
          /\ \A s \in Mapped \ {"receivers"} : Mapping(new, s) = Mapping(mid, s)
          /\ \A s : s \notin Mapped => Section(new, s) = Section(mid, s)
      BY <1>2, <1>6, <2>1, <2>2, AdoptKeeps
    <2>4. t \in Names(old, "receivers")  BY <1>1, <1>6, TargetIn
    <2> HIDE DEF t, mid, new
    <2>5. /\ Names(new, "receivers") = Names(old, "receivers")
          /\ Mapping(new, "receivers")[t] = p.setting
          /\ \A n \in Names(old, "receivers") \ {t} :
                Mapping(new, "receivers")[n] = Mapping(old, "receivers")[n]
      BY <1>4, <2>3, <2>4 DEF Names
    <2>6. \A s \in Mapped \ {"receivers"} : Mapping(new, s) = Mapping(mid, s)
                                            /\ Names(new, s) = Names(mid, s)
      BY <2>3 DEF Names
    <2>7. Migrated(old, new, b, {t})
      <3>1. \A s \in Components \ {"receivers", "processors"} : Mapping(new, s) = Mapping(old, s)
        BY <1>2, <1>3, <2>6 DEF Standard
      <3>2. \A s : s \notin Mapped => /\ s \in DOMAIN new <=> s \in DOMAIN old
                                      /\ Section(new, s) = Section(old, s)
        BY <1>2, <2>3 DEF Standard
      <3>3. /\ Mapping(new, "processors") = Mapping(mid, "processors")
            /\ Names(new, "processors") = Names(mid, "processors")
            /\ Mapping(new, "service_pipelines") = Mapping(mid, "service_pipelines")
            /\ Names(new, "service_pipelines") = Names(mid, "service_pipelines")
        BY <1>3, <2>6
      <3> QED  BY <1>2, <2>5, <3>1, <3>2, <3>3 DEF Standard, Migrated
    <2>8. {<<"receivers", n>> : n \in {t}} = {<<"receivers", Target(old, q)>> : q \in {p}}
      BY DEF t
    <2>9. Score(new, p) >= Score(old, p)
      BY <1>1, <1>6, <2>5, <2>7, ScoreGrows DEF t, Migrated
    <2>10. \A q \in {p} : /\ Mapping(new, "receivers")[Target(old, q)] = q.setting
                          /\ Score(new, q) >= Score(old, q)
      BY <2>5, <2>9 DEF t
    <2>11. Keeps(old, new, b, {p})
      BY <1>1, <2>7, <2>8, <2>10, MigratedDiffers DEF Keeps, Migrated
    <2> QED  BY <2>3, <2>11
  <1> QED
    <2>1. \/ pg.adopted = {} /\ new = mid
          \/ \E p \in Kind(Catalogued, "pattern") :
                pg.adopted = {p} /\ Fits(old, p) /\ new = Adopt(mid, p)
      BY DEF Final, old, b
    <2>2. \/ Keeps(old, new, b, {}) /\ pg.adopted = {} /\ IsDocument(new)
          \/ \E p \in Kind(Catalogued, "pattern") :
                pg.adopted = {p} /\ IsDocument(new) /\ Keeps(old, new, b, {p})
      BY <1>5, <1>6, <2>1 DEF old, b
    <2> QED  BY <2>2 DEF old, b

---------------------------------------------------------------------------
(* The form of documents, kept by whatever makes one.                         *)

LEMMA ComposeForm ==
    ASSUME NEW d, IsDocument(d), NEW fields,
           \A s \in DOMAIN fields : fields[s] # Blank => IsSection(s, fields[s].value)
    PROVE  IsDocument(Compose(d, fields))
  <1> DEFINE kept == {s \in DOMAIN d : s \in DOMAIN fields => fields[s] # Blank}
             put  == {s \in DOMAIN fields : fields[s] # Blank}
  <1>1. Compose(d, fields) =
           [s \in kept \cup put |-> IF s \in put THEN fields[s].value ELSE d[s]]
    BY DEF Compose
  <1>2. ASSUME NEW s \in kept \cup put
        PROVE  IsSection(s, IF s \in put THEN fields[s].value ELSE d[s])
    BY DEF IsDocument
  <1> HIDE DEF kept, put
  <1> QED  BY <1>1, <1>2 DEF IsDocument

(* A form is the fragments of the document with what was typed over them.     *)
LEMMA EditedForm ==
    ASSUME NEW d, IsDocument(d), NEW edit, IsForm(edit), WellPlaced(FormOf(d, edit))
    PROVE  IsDocument(Compose(d, FormOf(d, edit)))
  <1> DEFINE chosen == FormOf(d, edit)
  <1>1. /\ DOMAIN chosen = Sections
        /\ \A s \in Sections : chosen[s] = IF s \in DOMAIN edit THEN edit[s] ELSE Fragment(d, s)
    BY DEF FormOf
  <1>2. DOMAIN edit \subseteq Sections  BY DEF IsForm
  <1>3. WellPlaced(edit)
    BY <1>1, <1>2 DEF WellPlaced
  <1>4. ASSUME NEW s \in DOMAIN chosen, chosen[s] # Blank
        PROVE  IsSection(s, chosen[s].value)
    <2>1. CASE s \in DOMAIN edit
      BY <1>1, <1>3, <1>4, <2>1 DEF IsForm
    <2>2. CASE s \notin DOMAIN edit
      <3>1. chosen[s] = Fragment(d, s)  BY <1>1, <2>2
      <3>2. s \in DOMAIN d /\ Fragment(d, s) = [root |-> "none", value |-> d[s]]
        BY <1>4, <3>1 DEF Fragment
      <3>3. chosen[s].value = d[s]  BY <3>1, <3>2
      <3> QED  BY <3>2, <3>3 DEF IsDocument
    <2> QED  BY <2>1, <2>2
  <1> HIDE DEF chosen
  <1>5. IsDocument(Compose(d, chosen))  BY <1>4, ComposeForm
  <1> QED  BY <1>5 DEF chosen

LEMMA MaterializeForm ==
    ASSUME NEW d, IsDocument(d)
    PROVE  IsDocument(Materialize(d))
  <1> DEFINE resolved(setting) == {IF f \in Keys THEN Value[f] ELSE f : f \in setting}
             put(s) == [n \in DOMAIN d[s].of |-> resolved(d[s].of[n])]
  <1>1. \A s \in DOMAIN d :
           Materialize(d)[s] = IF s \in Components THEN [d[s] EXCEPT !.of = put(s)] ELSE d[s]
    BY DEF Materialize
  <1>2. DOMAIN Materialize(d) = DOMAIN d  BY DEF Materialize
  <1>3. ASSUME NEW setting, IsFiniteSet(setting)
        PROVE  IsFiniteSet(resolved(setting))
    <2> DEFINE m == [f \in setting |-> IF f \in Keys THEN Value[f] ELSE f]
    <2>1. m \in Surjection(setting, resolved(setting))
      BY DEF Surjection
    <2> HIDE DEF m, resolved
    <2> QED  BY <1>3, <2>1, FS_Surjection
  <1>4. ASSUME NEW s \in DOMAIN d
        PROVE  IsSection(s, Materialize(d)[s])
    <2>1. CASE s \in Components
      <3>1. /\ "of" \in DOMAIN d[s]
            /\ \A n \in DOMAIN d[s].of : Number(n) \in Nat /\ IsFiniteSet(d[s].of[n])
        BY <2>1 DEF IsDocument, IsSection
      <3>2. \A n \in DOMAIN d[s].of : IsFiniteSet(resolved(d[s].of[n]))
        BY <1>3, <3>1
      <3> HIDE DEF resolved
      <3>3. \A n \in DOMAIN put(s) : Number(n) \in Nat /\ IsFiniteSet(put(s)[n])
        BY <3>1, <3>2
      <3>4. Materialize(d)[s] = [d[s] EXCEPT !.of = put(s)]  BY <1>1, <2>1
      <3> HIDE DEF put
      <3>5. "of" \in DOMAIN Materialize(d)[s] /\ Materialize(d)[s].of = put(s)
        BY <3>1, <3>4
      <3>6. s # "service_pipelines"  BY <2>1 DEF Components
      <3> QED  BY <3>3, <3>5, <3>6 DEF IsSection
    <2>2. CASE s \notin Components
      <3>1. Materialize(d)[s] = d[s]  BY <1>1, <2>2
      <3> QED  BY <3>1 DEF IsDocument
    <2> QED  BY <2>1, <2>2
  <1> QED  BY <1>2, <1>4 DEF IsDocument

LEMMA SettingsForm ==
    ASSUME NEW blocks, \A b \in blocks : Number(b.name) \in Nat /\ IsFiniteSet(b.setting)
    PROVE  \A n \in DOMAIN SettingsOf(blocks) :
              Number(n) \in Nat /\ IsFiniteSet(SettingsOf(blocks)[n])
  <1> SUFFICES ASSUME NEW n \in {b.name : b \in blocks}
               PROVE  Number(n) \in Nat
                      /\ IsFiniteSet((CHOOSE b \in blocks : b.name = n).setting)
    BY DEF SettingsOf
  <1>1. PICK c \in blocks : c.name = n  OBVIOUS
  <1>2. (CHOOSE b \in blocks : b.name = n) \in blocks  BY <1>1
  <1> QED  BY <1>1, <1>2

LEMMA GeneratedForm ==
    ASSUME NEW p \in Kind(Catalogued, "pattern"), NEW signals,
           NEW chosen \in SUBSET Kind(Catalogued, "block"),
           NEW destination \in Kind(Catalogued, "destination")
    PROVE  IsDocument(Generated(p, signals, chosen, destination))
  <1> DEFINE own == <<p.receiver, 0>>
             more == SettingsOf(BlocksIn(chosen, "receivers"))
             lines == {<<signal, 0>> : signal \in signals \ {"profiles"}}
             receivers == [n \in DOMAIN more \cup {own} |->
                             IF n \in DOMAIN more THEN more[n] ELSE p.setting]
             exporters == [n \in {destination.exporter} |-> destination.setting]
             pipelines == [n \in lines |-> GeneratedPipeline(p, chosen, destination, Type(n))]
             d == Generated(p, signals, chosen, destination)
  <1>1. \A b \in chosen : Number(b.name) \in Nat /\ IsFiniteSet(b.setting)
    BY AuthoringAssumption DEF Kind, IsItem
  <1>2. \A s : \A n \in DOMAIN SettingsOf(BlocksIn(chosen, s)) :
                  Number(n) \in Nat /\ IsFiniteSet(SettingsOf(BlocksIn(chosen, s))[n])
    <2> SUFFICES ASSUME NEW s
                 PROVE  \A n \in DOMAIN SettingsOf(BlocksIn(chosen, s)) :
                           Number(n) \in Nat /\ IsFiniteSet(SettingsOf(BlocksIn(chosen, s))[n])
      OBVIOUS
    <2>1. \A b \in BlocksIn(chosen, s) : Number(b.name) \in Nat /\ IsFiniteSet(b.setting)
      BY <1>1 DEF BlocksIn
    <2> QED  BY <2>1, SettingsForm
  <1>3. \A n \in DOMAIN receivers : Number(n) \in Nat /\ IsFiniteSet(receivers[n])
    <2>1. IsFiniteSet(p.setting)  BY AuthoringAssumption DEF Kind, IsItem
    <2>2. Number(own) \in Nat  BY DEF Number
    <2>3. \A n \in DOMAIN more : Number(n) \in Nat /\ IsFiniteSet(more[n])  BY <1>2
    <2> HIDE DEF own, more
    <2> QED  BY <2>1, <2>2, <2>3
  <1>4. \A n \in DOMAIN exporters : Number(n) \in Nat /\ IsFiniteSet(exporters[n])
    BY AuthoringAssumption DEF Kind, IsItem
  <1>5. \A n \in DOMAIN pipelines :
           {"receivers", "processors", "exporters"} \subseteq DOMAIN pipelines[n]
    BY DEF GeneratedPipeline
  <1>6. /\ DOMAIN d = Sections
        /\ d["receivers"] = [of |-> receivers, layout |-> "canonical"]
        /\ d["exporters"] = [of |-> exporters, layout |-> "canonical"]
        /\ d["service_pipelines"] = [of |-> pipelines, layout |-> "canonical"]
        /\ \A s \in Components \ {"receivers", "exporters"} :
              d[s] = [of |-> SettingsOf(BlocksIn(chosen, s)), layout |-> "canonical"]
    BY DEF Generated, Sections, Components, Service
  <1> HIDE DEF d, receivers, exporters, pipelines
  <1>7. ASSUME NEW s \in DOMAIN d
        PROVE  IsSection(s, d[s])
    <2>1. CASE s = "receivers"
      BY <1>3, <1>6, <2>1 DEF IsSection
    <2>2. CASE s = "exporters"
      BY <1>4, <1>6, <2>2 DEF IsSection
    <2>3. CASE s = "service_pipelines"
      BY <1>5, <1>6, <2>3 DEF IsSection, Components
    <2>4. CASE s \in Components \ {"receivers", "exporters"}
      <3>1. d[s] = [of |-> SettingsOf(BlocksIn(chosen, s)), layout |-> "canonical"]
        BY <1>6, <2>4
      <3>2. "of" \in DOMAIN d[s] /\ d[s].of = SettingsOf(BlocksIn(chosen, s))  BY <3>1
      <3>3. s # "service_pipelines"  BY <2>4 DEF Components
      <3> QED  BY <1>2, <3>2, <3>3 DEF IsSection
    <2>5. CASE s \notin Components /\ s # "service_pipelines"
      BY <2>5 DEF IsSection
    <2> QED  BY <2>1, <2>2, <2>3, <2>4, <2>5
  <1>8. IsDocument(d)  BY <1>7 DEF IsDocument
  <1> QED  BY <1>8 DEF d

---------------------------------------------------------------------------
(* The inductive invariant of migrations.                                   *)

Forms ==
    /\ catalog \subseteq Catalogued /\ packages \subseteq Definitions
    /\ \A a \in Agents : IsDocument(Effective(a))
    /\ \A c \in configurations : IsDocument(c.content)
    /\ \A t \in templates : IsDocument(t.content)
    /\ \A h \in Handlers : task[h] # Idle => IsDocument(task[h].row.content)
    /\ \A w \in previews : IsDocument(w.content)

PageFields == {"tab", "group", "agent", "name", "version", "imported", "content", "baseline",
               "pattern", "adopted"}

Standardized(pg) ==
    /\ DOMAIN pg = PageFields /\ pg.adopted = {}
    /\ IsDocument(pg.imported) /\ pg.baseline \in BOOLEAN
    /\ pg.content = Standardize(pg.imported, pg.baseline)

PageTrue(pg) ==
    /\ pg.tab = "standardize" =>
          /\ DOMAIN pg = PageFields /\ pg.adopted = {}
          /\ IsDocument(pg.imported) /\ pg.content = pg.imported
    /\ pg.tab \in {"adoption", "pattern-match", "pattern-adopt"} => Standardized(pg)
    /\ pg.tab = "confirm" => DOMAIN pg = {"tab", "of", "proposal"} /\ Standardized(pg.of)
    /\ pg.tab \in {"validate", "preview", "history"} => DOMAIN pg = PageFields /\ Final(pg)

Pages == DOMAIN page = Migrants /\ \A u \in Migrants : PageTrue(page[u])

Saves(t) == t.does = "save" => Final(t.page) /\ t.row.content = t.page.content

Recorded ==
    /\ \A h \in Handlers : Saves(task[h])
    /\ \A r \in history : Final(r.page) /\ r.version.content = r.page.content

MigrationInv == Inv /\ Forms /\ Pages /\ Recorded
Migration == Forms /\ Pages /\ Recorded

LEMMA BecomesMigrates ==
    ASSUME MigrationInv, NEW h \in Handlers, NEW v, Becomes(h, v),
           IsDocument(v.row.content), Saves(v),
           UNCHANGED <<configurations, templates, history, page, world, packageVars>>
    PROVE  Migration'
  <1>1. \A k \in Handlers : task'[k] = IF k = h THEN v ELSE task[k]
    BY DEF Becomes, MigrationInv, Inv, Shapes
  <1>2. Forms'  BY <1>1 DEF MigrationInv, Forms, world, packageVars, Effective
  <1>3. Pages'  BY DEF MigrationInv, Pages
  <1>4. Recorded'
    <2>1. \A k \in Handlers : Saves(task'[k])  BY <1>1 DEF MigrationInv, Recorded
    <2>2. \A r \in history' : Final(r.page) /\ r.version.content = r.page.content
      BY DEF MigrationInv, Recorded
    <2> QED  BY <2>1, <2>2 DEF Recorded
  <1> QED  BY <1>2, <1>3, <1>4 DEF Migration

LEMMA TurnMigrates ==
    ASSUME MigrationInv, NEW u \in Migrants, NEW p, Turn(u, p), PageTrue(p),
           UNCHANGED packageVars
    PROVE  Migration'
  <1>1. /\ page' = [page EXCEPT ![u] = p]
        /\ UNCHANGED <<configurations, templates, history, task, known, world>>
    BY DEF Turn
  <1>2. DOMAIN page = Migrants /\ \A w \in Migrants : PageTrue(page[w])
    BY DEF MigrationInv, Pages
  <1>3. DOMAIN page' = Migrants /\ \A w \in Migrants : page'[w] = IF w = u THEN p ELSE page[w]
    BY <1>1, <1>2
  <1>4. Pages'
    <2>1. \A w \in Migrants : PageTrue(page'[w])  BY <1>2, <1>3
    <2> QED  BY <1>3, <2>1 DEF Pages
  <1>5. Forms'  BY <1>1 DEF MigrationInv, Forms, world, packageVars, Effective
  <1>6. Recorded'  BY <1>1 DEF MigrationInv, Recorded
  <1> QED  BY <1>4, <1>5, <1>6 DEF Migration

(* Nothing that it speaks of changes.                                       *)
LEMMA MigrationStays ==
    ASSUME MigrationInv,
           UNCHANGED <<configurations, templates, history, page, task, catalog, reported,
                       packages, previews>>
    PROVE  Migration'
  <1>1. Forms'  BY DEF MigrationInv, Forms, Effective
  <1>2. Pages'  BY DEF MigrationInv, Pages
  <1>3. Recorded'  BY DEF MigrationInv, Recorded
  <1> QED  BY <1>1, <1>2, <1>3 DEF Migration

---------------------------------------------------------------------------
(* The actions that make versions and templates.                            *)

LEMMA CreateConfigurationMigrates ==
    ASSUME MigrationInv, UNCHANGED packageVars, NEW h \in Handlers, NEW u, NEW g,
           NEW base \in configurations \cup {NoBase}, NEW n, NEW v, NEW edit \in Edits,
           CreateConfiguration(h, u, g, base, n, v, edit)
    PROVE  Migration'
  <1> DEFINE before == base.content
             after  == Compose(before, FormOf(before, edit))
             new    == [does |-> "put", row |-> Version(g, n, v, after)]
  <1>1. /\ WellPlaced(FormOf(before, edit)) /\ Becomes(h, new)
        /\ UNCHANGED <<configurations, templates, history, page, world>>
    BY DEF CreateConfiguration
  <1>2. IsDocument(before)
    <2>1. CASE base = NoBase  BY <2>1, AuthoringAssumption DEF NoBase
    <2>2. CASE base \in configurations  BY <2>2 DEF MigrationInv, Forms
    <2> QED  BY <2>1, <2>2
  <1>3. IsForm(edit)  BY AuthoringAssumption
  <1> HIDE DEF before
  <1>4. IsDocument(after)  BY <1>1, <1>2, <1>3, EditedForm
  <1> HIDE DEF after
  <1>5. new.row.content = after /\ new.does = "put"  BY DEF Version
  <1> HIDE DEF new
  <1>6. Saves(new)  BY <1>5 DEF Saves
  <1> QED  BY <1>1, <1>4, <1>5, <1>6, BecomesMigrates

LEMMA GenerateMigrates ==
    ASSUME MigrationInv, UNCHANGED packageVars, NEW h \in Handlers, NEW u, NEW g, NEW p,
           NEW destination, NEW asked, NEW blocks, NEW n, NEW v,
           Generate(h, u, g, p, destination, asked, blocks, n, v)
    PROVE  Migration'
  <1> DEFINE chosen  == {b \in Kind(catalog, "block") : b.required \/ b \in blocks}
             content == Generated(p, Wanted(p, asked), chosen, destination)
             new     == [does |-> "put", row |-> Version(g, n, v, content)]
  <1>1. /\ p \in Kind(catalog, "pattern") /\ destination \in Kind(catalog, "destination")
        /\ Becomes(h, new)
        /\ UNCHANGED <<configurations, templates, history, page, world>>
    BY DEF Generate
  <1>2. catalog \subseteq Catalogued  BY DEF MigrationInv, Forms
  <1>3. /\ p \in Kind(Catalogued, "pattern") /\ destination \in Kind(Catalogued, "destination")
        /\ chosen \in SUBSET Kind(Catalogued, "block")
    BY <1>1, <1>2 DEF Kind
  <1> HIDE DEF chosen
  <1>4. IsDocument(content)  BY <1>3, GeneratedForm
  <1> HIDE DEF content
  <1>5. new.row.content = content /\ new.does = "put"  BY DEF Version
  <1> HIDE DEF new
  <1>6. Saves(new)  BY <1>5 DEF Saves
  <1> QED  BY <1>1, <1>4, <1>5, <1>6, BecomesMigrates

LEMMA InstantiateMigrates ==
    ASSUME MigrationInv, UNCHANGED packageVars, NEW u, NEW t, NEW g, NEW n, NEW v,
           Instantiate(u, t, g, n, v)
    PROVE  Migration'
  <1>1. /\ t \in templates
        /\ configurations' = configurations \cup {Version(g, n, v, t.content)}
        /\ UNCHANGED <<templates, history, page, task, known, world>>
    BY DEF Instantiate
  <1>2. IsDocument(Version(g, n, v, t.content).content)
    BY <1>1 DEF Version, MigrationInv, Forms
  <1>3. Forms'  BY <1>1, <1>2 DEF MigrationInv, Forms, world, packageVars, Effective
  <1>4. Pages' /\ Recorded'  BY <1>1 DEF MigrationInv, Pages, Recorded
  <1> QED  BY <1>3, <1>4 DEF Migration

LEMMA CreateTemplateMigrates ==
    ASSUME MigrationInv, UNCHANGED packageVars, NEW u,
           NEW content \in Texts \cup {c.content : c \in configurations},
           NEW organization, NEW groups, CreateTemplate(u, content, organization, groups)
    PROVE  Migration'
  <1>1. /\ templates' = templates \cup {[content |-> content, organization |-> organization,
                                         groups |-> groups]}
        /\ UNCHANGED <<configurations, history, page, task, world>>
    BY DEF CreateTemplate
  <1>2. IsDocument(content)  BY AuthoringAssumption DEF MigrationInv, Forms
  <1>3. Forms'  BY <1>1, <1>2 DEF MigrationInv, Forms, world, packageVars, Effective
  <1>4. Pages' /\ Recorded'  BY <1>1 DEF MigrationInv, Pages, Recorded
  <1> QED  BY <1>3, <1>4 DEF Migration

LEMMA PutMigrates ==
    ASSUME MigrationInv, UNCHANGED packageVars, NEW h \in Handlers, Put(h)
    PROVE  Migration'
  <1>1. /\ task[h].does = "put" /\ task' = [task EXCEPT ![h] = Idle]
        /\ configurations' = configurations \cup {task[h].row}
        /\ UNCHANGED <<templates, page, history, known, world>>
    BY DEF Put
  <1>2. task[h] # Idle  BY <1>1 DEF Idle
  <1>3. \A k \in Handlers : task'[k] = IF k = h THEN Idle ELSE task[k]
    BY <1>1 DEF MigrationInv, Inv, Shapes
  <1>4. Forms'  BY <1>1, <1>2, <1>3 DEF MigrationInv, Forms, world, packageVars, Effective
  <1>5. Pages'  BY <1>1 DEF MigrationInv, Pages
  <1>6. Recorded'
    <2>1. Saves(Idle)  BY DEF Saves, Idle
    <2>2. \A k \in Handlers : Saves(task'[k])  BY <1>3, <2>1 DEF MigrationInv, Recorded
    <2> QED  BY <1>1, <2>2 DEF MigrationInv, Recorded
  <1> QED  BY <1>4, <1>5, <1>6 DEF Migration

(* The history records the page that the version was computed from.         *)
LEMMA SaveMigrates ==
    ASSUME MigrationInv, UNCHANGED packageVars, NEW h \in Handlers, Save(h)
    PROVE  Migration'
  <1> DEFINE new == [version |-> task[h].row, page |-> task[h].page]
  <1>1. /\ task[h].does = "save" /\ task' = [task EXCEPT ![h] = Idle]
        /\ configurations' \in {configurations, configurations \cup {task[h].row}}
        /\ history' \in {history, history \cup {new}}
        /\ UNCHANGED <<templates, page, known, world>>
    BY DEF Save
  <1>2. task[h] # Idle  BY <1>1 DEF Idle
  <1>3. \A k \in Handlers : task'[k] = IF k = h THEN Idle ELSE task[k]
    BY <1>1 DEF MigrationInv, Inv, Shapes
  <1>4. Forms'  BY <1>1, <1>2, <1>3 DEF MigrationInv, Forms, world, packageVars, Effective
  <1>5. Pages'  BY <1>1 DEF MigrationInv, Pages
  <1>6. Recorded'
    <2>1. Saves(Idle)  BY DEF Saves, Idle
    <2>2. \A k \in Handlers : Saves(task'[k])  BY <1>3, <2>1 DEF MigrationInv, Recorded
    <2>3. Final(task[h].page) /\ task[h].row.content = task[h].page.content
      BY <1>1 DEF MigrationInv, Recorded, Saves
    <2>4. Final(new.page) /\ new.version.content = new.page.content  BY <2>3
    <2> HIDE DEF new
    <2>5. \A r \in history' : Final(r.page) /\ r.version.content = r.page.content
      BY <1>1, <2>4 DEF MigrationInv, Recorded
    <2> QED  BY <2>2, <2>5 DEF Recorded
  <1> QED  BY <1>4, <1>5, <1>6 DEF Migration

---------------------------------------------------------------------------
(* The pages of the wizard.                                                 *)

LEMMA ImportMigrates ==
    ASSUME MigrationInv, UNCHANGED packageVars, NEW u \in Migrants, NEW g, NEW a, NEW n, NEW v,
           NEW pasted, IsDocument(pasted), Import(u, g, a, n, v, pasted)
    PROVE  Migration'
  <1> DEFINE content == IF a = None THEN pasted ELSE Effective(a)
             new == [tab |-> "standardize", group |-> g, agent |-> a, name |-> n, version |-> v,
                     imported |-> content, content |-> content, baseline |-> FALSE,
                     pattern |-> None, adopted |-> {}]
  <1>1. Turn(u, new) /\ (a # None => a \in Agents)
    BY DEF Import, Collectors
  <1>2. IsDocument(content)  BY <1>1 DEF MigrationInv, Forms
  <1> HIDE DEF content
  <1>3. PageTrue(new)
    <2>1. /\ new.tab = "standardize" /\ DOMAIN new = PageFields /\ new.adopted = {}
          /\ new.imported = content /\ new.content = content
      BY DEF PageFields
    <2> HIDE DEF new
    <2> QED  BY <1>2, <2>1 DEF PageTrue
  <1> HIDE DEF new
  <1> QED  BY <1>1, <1>3, TurnMigrates

LEMMA StandardizePageMigrates ==
    ASSUME MigrationInv, UNCHANGED packageVars, NEW u \in Migrants, NEW baseline \in BOOLEAN,
           StandardizePage(u, baseline)
    PROVE  Migration'
  <1> DEFINE pg == page[u]
             new == [pg EXCEPT !.tab = "adoption", !.baseline = baseline,
                               !.content = Standardize(@, baseline)]
  <1>1. Turn(u, new) /\ pg.tab = "standardize"  BY DEF StandardizePage
  <1>2. /\ DOMAIN pg = PageFields /\ pg.adopted = {}
        /\ IsDocument(pg.imported) /\ pg.content = pg.imported
    BY <1>1 DEF MigrationInv, Pages, PageTrue
  <1> HIDE DEF pg
  <1>3. /\ DOMAIN new = PageFields /\ new.tab = "adoption" /\ new.baseline = baseline
        /\ new.content = Standardize(pg.content, baseline) /\ new.adopted = {}
        /\ new.imported = pg.imported
    BY <1>2 DEF PageFields
  <1> HIDE DEF new
  <1>4. Standardized(new)  BY <1>2, <1>3 DEF Standardized
  <1>5. PageTrue(new)  BY <1>3, <1>4 DEF PageTrue
  <1> QED  BY <1>1, <1>5, TurnMigrates

(* Pages that carry the standardised document on.                           *)
LEMMA CarriedTrue ==
    ASSUME NEW pg, Standardized(pg), NEW tab \in {"pattern-match", "pattern-adopt"}, NEW id
    PROVE  /\ PageTrue([pg EXCEPT !.tab = tab])
           /\ PageTrue([pg EXCEPT !.tab = tab, !.pattern = id])
  <1> DEFINE one == [pg EXCEPT !.tab = tab]
             two == [pg EXCEPT !.tab = tab, !.pattern = id]
  <1>1. DOMAIN pg = PageFields  BY DEF Standardized
  <1>2. /\ DOMAIN one = PageFields /\ one.tab = tab /\ one.adopted = pg.adopted
        /\ one.imported = pg.imported /\ one.content = pg.content /\ one.baseline = pg.baseline
    BY <1>1 DEF PageFields
  <1>3. /\ DOMAIN two = PageFields /\ two.tab = tab /\ two.adopted = pg.adopted
        /\ two.imported = pg.imported /\ two.content = pg.content /\ two.baseline = pg.baseline
    BY <1>1 DEF PageFields
  <1> HIDE DEF one, two
  <1>4. Standardized(one) /\ Standardized(two)  BY <1>2, <1>3 DEF Standardized
  <1>5. PageTrue(one) /\ PageTrue(two)  BY <1>2, <1>3, <1>4 DEF PageTrue
  <1> QED  BY <1>5 DEF one, two

LEMMA ReviewAdoptionMigrates ==
    ASSUME MigrationInv, UNCHANGED packageVars, NEW u \in Migrants, ReviewAdoption(u)
    PROVE  Migration'
  <1>1. Turn(u, [page[u] EXCEPT !.tab = "pattern-match"]) /\ page[u].tab = "adoption"
    BY DEF ReviewAdoption
  <1>2. Standardized(page[u])  BY <1>1 DEF MigrationInv, Pages, PageTrue
  <1>3. PageTrue([page[u] EXCEPT !.tab = "pattern-match"])  BY <1>2, CarriedTrue
  <1> QED  BY <1>1, <1>3, TurnMigrates

LEMMA MatchPatternMigrates ==
    ASSUME MigrationInv, UNCHANGED packageVars, NEW u \in Migrants, NEW id, MatchPattern(u, id)
    PROVE  Migration'
  <1>1. /\ Turn(u, [page[u] EXCEPT !.tab = "pattern-adopt", !.pattern = id])
        /\ page[u].tab = "pattern-match"
    BY DEF MatchPattern, Assessed
  <1>2. Standardized(page[u])  BY <1>1 DEF MigrationInv, Pages, PageTrue
  <1>3. PageTrue([page[u] EXCEPT !.tab = "pattern-adopt", !.pattern = id])
    BY <1>2, CarriedTrue
  <1> QED  BY <1>1, <1>3, TurnMigrates

LEMMA AdoptPatternMigrates ==
    ASSUME MigrationInv, UNCHANGED packageVars, NEW u \in Migrants, AdoptPattern(u)
    PROVE  Migration'
  <1> DEFINE new == [tab |-> "confirm", of |-> page[u], proposal |-> Proposal(page[u])]
  <1>1. Turn(u, new) /\ page[u].tab = "pattern-adopt"
    BY DEF AdoptPattern, Assessed
  <1>2. Standardized(page[u])  BY <1>1 DEF MigrationInv, Pages, PageTrue
  <1>3. DOMAIN new = {"tab", "of", "proposal"} /\ new.tab = "confirm" /\ new.of = page[u]
    OBVIOUS
  <1> HIDE DEF new
  <1>4. PageTrue(new)  BY <1>2, <1>3 DEF PageTrue
  <1> QED  BY <1>1, <1>4, TurnMigrates

(* Confirmed, the document is what the pattern, as it is now, makes of it.  *)
LEMMA ConfirmAdoptionMigrates ==
    ASSUME MigrationInv, UNCHANGED packageVars, NEW u \in Migrants, ConfirmAdoption(u)
    PROVE  Migration'
  <1> DEFINE pg == page[u]
             of == pg.of
             new == [of EXCEPT !.tab = "validate", !.content = Proposal(of),
                               !.adopted = Adopted(of)]
             again == [pg EXCEPT !.proposal = Proposal(of)]
  <1>1. /\ pg.tab = "confirm" /\ Selectable(of.pattern, of.content)
        /\ Turn(u, new) \/ Turn(u, again)
    BY DEF ConfirmAdoption
  <1>2. DOMAIN pg = {"tab", "of", "proposal"} /\ Standardized(of)
    BY <1>1 DEF MigrationInv, Pages, PageTrue
  <1>3. PageTrue(again)
    <2>1. DOMAIN again = {"tab", "of", "proposal"} /\ again.tab = "confirm" /\ again.of = of
      BY <1>1, <1>2
    <2> HIDE DEF again
    <2> QED  BY <1>2, <2>1 DEF PageTrue
  <1> HIDE DEF pg, of
  <1>4. PageTrue(new)
    <2>1. /\ DOMAIN of = PageFields /\ of.adopted = {}
          /\ IsDocument(of.imported) /\ of.baseline \in BOOLEAN
          /\ of.content = Standardize(of.imported, of.baseline)
      BY <1>2 DEF Standardized
    <2>2. /\ DOMAIN new = PageFields /\ new.tab = "validate" /\ new.content = Proposal(of)
          /\ new.adopted = Adopted(of) /\ new.imported = of.imported
          /\ new.baseline = of.baseline
      BY <2>1 DEF PageFields
    <2> HIDE DEF new
    <2>3. CASE of.pattern = Custom
      <3>1. new.adopted = {} /\ new.content = of.content
        BY <2>2, <2>3 DEF Adopted, Proposal
      <3> QED  BY <2>1, <2>2, <3>1 DEF PageTrue, Final
    <2>4. CASE of.pattern # Custom
      <3> DEFINE p == PatternOf(of.pattern)
      <3>1. of.pattern \in PatternIDs /\ Fits(of.content, p)
        BY <1>1, <2>4 DEF Selectable
      <3>2. p \in Patterns
        <4>1. \E q \in Patterns : q.id = of.pattern  BY <3>1 DEF PatternIDs
        <4> QED  BY <4>1 DEF PatternOf
      <3>3. p \in Kind(Catalogued, "pattern")
        BY <3>2 DEF Patterns, Kind, Catalogued, MigrationInv, Forms
      <3>4. new.adopted = {p} /\ new.content = Adopt(of.content, p)
        BY <2>2, <2>4 DEF Adopted, Proposal
      <3>5. Names(of.content, "receivers") = Names(of.imported, "receivers")
        <4>1. Standard(of.imported, of.content, of.baseline)  BY <2>1, StandardizeKeeps
        <4> QED  BY <4>1 DEF Standard, Components, Names
      <3> HIDE DEF p
      <3>6. Fits(of.imported, p)  BY <3>1, <3>5, SameTarget
      <3>7. Final(new)  BY <2>1, <2>2, <3>3, <3>4, <3>6 DEF Final
      <3> QED  BY <2>2, <3>7 DEF PageTrue
    <2> QED  BY <2>3, <2>4
  <1> HIDE DEF new, again
  <1> QED  BY <1>1, <1>3, <1>4, TurnMigrates

LEMMA AdvanceMigrates ==
    ASSUME MigrationInv, UNCHANGED packageVars, NEW u \in Migrants,
           NEW from \in {"validate", "preview"}, NEW to \in {"preview", "history"},
           Advance(u, from, to)
    PROVE  Migration'
  <1> DEFINE pg == page[u]
             new == [pg EXCEPT !.tab = to]
  <1>1. Turn(u, new) /\ pg.tab = from  BY DEF Advance
  <1>2. DOMAIN pg = PageFields /\ Final(pg)  BY <1>1 DEF MigrationInv, Pages, PageTrue
  <1> HIDE DEF pg
  <1>3. /\ DOMAIN new = PageFields /\ new.tab = to /\ new.adopted = pg.adopted
        /\ new.imported = pg.imported /\ new.content = pg.content /\ new.baseline = pg.baseline
    BY <1>2 DEF PageFields
  <1> HIDE DEF new
  <1>4. Final(new)  BY <1>2, <1>3 DEF Final
  <1>5. PageTrue(new)  BY <1>3, <1>4 DEF PageTrue
  <1> QED  BY <1>1, <1>5, TurnMigrates

LEMMA SaveMigrationMigrates ==
    ASSUME MigrationInv, UNCHANGED packageVars, NEW h \in Handlers, NEW u \in Migrants,
           SaveMigration(h, u)
    PROVE  Migration'
  <1> DEFINE pg  == page[u]
             new == [does |-> "save", page |-> pg,
                     row |-> Version(pg.group, pg.name, pg.version, pg.content)]
  <1>1. /\ pg.tab = "history" /\ Becomes(h, new)
        /\ UNCHANGED <<configurations, templates, history, page, world>>
    BY DEF SaveMigration
  <1>2. Final(pg)  BY <1>1 DEF MigrationInv, Pages, PageTrue
  <1>3. IsDocument(pg.content)  BY <1>2, FinalKeeps
  <1> HIDE DEF pg
  <1>4. new.row.content = pg.content /\ new.page = pg  BY DEF Version
  <1> HIDE DEF new
  <1>5. Saves(new)  BY <1>2, <1>4 DEF Saves
  <1> QED  BY <1>1, <1>3, <1>4, <1>5, BecomesMigrates

LEMMA ProceedsMigrates ==
    ASSUME MigrationInv, UNCHANGED packageVars, NEW u \in Migrants, Proceeds(u)
    PROVE  Migration'
  <1>1. IsDocument(NoDocument) /\ \A d \in Texts : IsDocument(d)
    BY AuthoringAssumption DEF NoDocument, IsDocument
  <1>2. \/ \E g, a, n, v : \E pasted : IsDocument(pasted) /\ Import(u, g, a, n, v, pasted)
        \/ \E baseline \in BOOLEAN : StandardizePage(u, baseline)
        \/ \E id : MatchPattern(u, id)
        \/ ReviewAdoption(u) \/ AdoptPattern(u) \/ ConfirmAdoption(u)
        \/ Advance(u, "validate", "preview") \/ Advance(u, "preview", "history")
        \/ \E h \in Handlers : SaveMigration(h, u)
    BY <1>1, Zenon DEF Proceeds
  <1>3. Advance(u, "validate", "preview") => Migration'  BY AdvanceMigrates
  <1>4. Advance(u, "preview", "history") => Migration'  BY AdvanceMigrates
  <1> QED
    BY <1>2, <1>3, <1>4, ImportMigrates, StandardizePageMigrates, MatchPatternMigrates,
       ReviewAdoptionMigrates, AdoptPatternMigrates, ConfirmAdoptionMigrates,
       SaveMigrationMigrates

---------------------------------------------------------------------------
(* The rest of the world, and packages.                                     *)

LEMMA ReportedMigrates ==
    ASSUME MigrationInv, NEW a \in Agents, NEW r, IsDocument(r.effective),
           reported' = [reported EXCEPT ![a] = r],
           UNCHANGED <<configurations, templates, history, page, task, catalog, packageVars>>
    PROVE  Migration'
  <1>1. \A b \in Agents : IsDocument(Effective(b))'
    BY DEF MigrationInv, Inv, Shapes, Forms, Effective
  <1>2. Forms'  BY <1>1 DEF MigrationInv, Forms, packageVars
  <1>3. Pages' /\ Recorded'  BY DEF MigrationInv, Pages, Recorded
  <1> QED  BY <1>2, <1>3 DEF Migration

LEMMA CatalogMigrates ==
    ASSUME MigrationInv, catalog' \subseteq Catalogued,
           UNCHANGED <<configurations, templates, history, page, task, reported, packageVars>>
    PROVE  Migration'
  <1>1. Forms'  BY DEF MigrationInv, Forms, packageVars, Effective
  <1>2. Pages' /\ Recorded'  BY DEF MigrationInv, Pages, Recorded
  <1> QED  BY <1>1, <1>2 DEF Migration

LEMMA ChangesMigrates ==
    ASSUME MigrationInv, UNCHANGED packageVars, Changes
    PROVE  Migration'
  <1>1. ASSUME NEW s \in Policed, SetPolicy(s)
        PROVE  Migration'
    BY <1>1, MigrationStays DEF SetPolicy, tables, packageVars
  <1>2. ASSUME NEW g \in Groups, NEW k \in Keys, SetSecret(g, k)
        PROVE  Migration'
    BY <1>2, MigrationStays DEF SetSecret, tables, packageVars
  <1>3. ASSUME NEW i \in Publishable, PublishItem(i)
        PROVE  Migration'
    BY <1>3, CatalogMigrates DEF PublishItem, tables, Catalogued, MigrationInv, Forms
  <1>4. ASSUME NEW i, DeleteItem(i)
        PROVE  Migration'
    BY <1>4, CatalogMigrates DEF DeleteItem, tables, MigrationInv, Forms
  <1>5. CASE VisitCatalog
    BY <1>5, CatalogMigrates DEF VisitCatalog, tables, Missing, Catalogued, MigrationInv, Forms
  <1>6. ASSUME NEW a \in Agents, NEW r \in Reports, CollectorReports(a, r)
        PROVE  Migration'
    BY <1>6, ReportedMigrates, AuthoringAssumption DEF CollectorReports, tables
  <1>7. ASSUME NEW a \in Agents, NEW c, RunsVersion(a, c)
        PROVE  Migration'
    <2> DEFINE d == Materialize(c.content)
               r == [reported[a] EXCEPT !.effective = d]
    <2>1. /\ reported' = [reported EXCEPT ![a] = r] /\ c \in configurations
          /\ UNCHANGED <<policies, secrets, catalog, delegated, tables>>
      BY <1>7 DEF RunsVersion, Configured
    <2>2. IsDocument(d)
      <3>1. IsDocument(c.content)  BY <2>1 DEF MigrationInv, Forms
      <3> QED  BY <3>1, MaterializeForm
    <2> HIDE DEF d
    <2>3. r.effective = d  BY DEF MigrationInv, Inv, Shapes
    <2> HIDE DEF r
    <2> QED  BY <2>1, <2>2, <2>3, ReportedMigrates DEF tables
  <1> QED  BY <1>1, <1>2, <1>3, <1>4, <1>5, <1>6, <1>7 DEF Changes

LEMMA NextMigrates ==
    ASSUME MigrationInv, UNCHANGED packageVars, Next
    PROVE  Migration'
  <1>1. ASSUME NEW u \in Users, Writes(u)
        PROVE  Migration'
    BY <1>1, CreateConfigurationMigrates, GenerateMigrates, InstantiateMigrates DEF Writes
  <1>2. ASSUME NEW u \in Users, Publishes(u)
        PROVE  Migration'
    BY <1>2, CreateTemplateMigrates DEF Publishes
  <1> QED  BY <1>1, <1>2, ProceedsMigrates, PutMigrates, SaveMigrates, ChangesMigrates DEF Next

LEMMA ConfigurePackageMigrates ==
    ASSUME MigrationInv, NEW u, NEW g, NEW p \in packages, NEW overlay \in Overlays,
           ConfigurePackage(u, g, p, overlay)
    PROVE  Migration'
  <1> DEFINE fields  == [s \in Filled(overlay) |-> overlay[s]]
             content == Compose(p.baseline, fields)
             new == [package |-> p, evidence |-> Evidence(p), group |-> g, content |-> content]
  <1>1. /\ OverlayAllowed(p, overlay) /\ previews' = previews \cup {new}
        /\ UNCHANGED <<tables, world, packages, released, submitting, handoffs>>
    BY DEF ConfigurePackage
  <1>2. IsDocument(p.baseline) /\ IsForm(overlay)
    BY PackageAssumption DEF MigrationInv, Forms
  <1>3. \A s \in DOMAIN fields : fields[s] # Blank => IsSection(s, fields[s].value)
    BY <1>1, <1>2 DEF OverlayAllowed, IsForm, Filled
  <1> HIDE DEF fields
  <1>4. IsDocument(content)  BY <1>2, <1>3, ComposeForm
  <1> HIDE DEF content
  <1>5. new.content = content  OBVIOUS
  <1> HIDE DEF new
  <1>6. Forms'  BY <1>1, <1>4, <1>5 DEF MigrationInv, Forms, tables, world, Effective
  <1>7. Pages' /\ Recorded'  BY <1>1 DEF MigrationInv, Pages, Recorded, tables
  <1> QED  BY <1>6, <1>7 DEF Migration

LEMMA HandoffMigrates ==
    ASSUME MigrationInv, NEW h \in Submitters, Handoff(h)
    PROVE  Migration'
  <1> DEFINE c == submitting[h].row
  <1>1. /\ submitting[h] # Idle
        /\ configurations' \in {configurations, configurations \cup {c}}
        /\ UNCHANGED <<templates, history, page, task, known, world, packages, released, previews>>
    BY DEF Handoff
  <1>2. IsDocument(c.content)
    BY <1>1 DEF MigrationInv, Inv, PackagesSound, Forms
  <1> HIDE DEF c
  <1>3. Forms'  BY <1>1, <1>2 DEF MigrationInv, Forms, world, Effective
  <1>4. Pages' /\ Recorded'  BY <1>1 DEF MigrationInv, Pages, Recorded
  <1> QED  BY <1>3, <1>4 DEF Migration

LEMMA InitMigrates == PackageInit => Migration
  <1> SUFFICES ASSUME PackageInit
               PROVE  Migration
    OBVIOUS
  <1>1. Forms
    <2>1. reported \in [Agents -> Reports]  BY DEF PackageInit, Init
    <2>2. \A a \in Agents : IsDocument(Effective(a))
      BY <2>1, AuthoringAssumption DEF Effective
    <2> QED  BY <2>2 DEF PackageInit, Init, Forms, Catalogued
  <1>2. Pages
    <2>1. PageTrue(Closed)  BY DEF PageTrue, Closed
    <2> QED  BY <2>1 DEF PackageInit, Init, Pages
  <1>3. Recorded
    <2>1. Saves(Idle)  BY DEF Saves, Idle
    <2> QED  BY <2>1 DEF PackageInit, Init, Recorded
  <1> QED  BY <1>1, <1>2, <1>3 DEF Migration

LEMMA StepMigrates == MigrationInv /\ [PackageNext]_allVars => Migration'
  <1> SUFFICES ASSUME MigrationInv, [PackageNext]_allVars
               PROVE  Migration'
    OBVIOUS
  <1>1. CASE UNCHANGED allVars
    BY <1>1, MigrationStays DEF allVars, vars, packageVars
  <1>2. ASSUME NEW u, NEW p \in Definitions, PublishPackage(u, p)
        PROVE  Migration'
    <2>1. /\ packages' = packages \cup {p}
          /\ UNCHANGED <<tables, world, released, previews, submitting, handoffs>>
      BY <1>2 DEF PublishPackage
    <2>2. Forms'  BY <2>1 DEF MigrationInv, Forms, tables, world, Effective
    <2>3. Pages' /\ Recorded'  BY <2>1 DEF MigrationInv, Pages, Recorded, tables
    <2> QED  BY <2>2, <2>3 DEF Migration
  <1>3. ASSUME NEW p \in packages, ReleasePackage(p)
        PROVE  Migration'
    BY <1>3, MigrationStays DEF ReleasePackage, tables
  <1>4. ASSUME NEW h \in Submitters, NEW u, NEW w, NEW n, NEW v, SubmitPreview(h, u, w, n, v)
        PROVE  Migration'
    BY <1>4, MigrationStays DEF SubmitPreview, vars
  <1>5. CASE PackageNext
    BY <1>2, <1>3, <1>4, <1>5, NextMigrates, ConfigurePackageMigrates, HandoffMigrates
       DEF PackageNext
  <1> QED  BY <1>1, <1>5

(* A migrated version is the imported document but for what its user asked  *)
(* for, whatever happened to patterns, policies and reports while the pages *)
(* were open, and fits the adopted pattern no worse (migration_adoption.go, *)
(* migration_standardization.go, migration_pattern_adopt.go).               *)
THEOREM MigrationsKeep == PackageSpec => []MigrationKeeps
  <1>1. PackageInit => MigrationInv
    BY InitSound, InitMigrates DEF MigrationInv, Migration
  <1>2. MigrationInv /\ [PackageNext]_allVars => MigrationInv'
    BY StepSound, StepMigrates DEF MigrationInv, Migration
  <1>3. MigrationInv => MigrationKeeps
    <2> SUFFICES ASSUME MigrationInv, NEW r \in history
                 PROVE  Keeps(r.page.imported, r.version.content, r.page.baseline,
                              r.page.adopted)
      BY DEF MigrationKeeps, Keeps
    <2>1. Final(r.page) /\ r.version.content = r.page.content
      BY DEF MigrationInv, Recorded
    <2> QED  BY <2>1, FinalKeeps
  <1> QED  BY <1>1, <1>2, <1>3, PTL DEF PackageSpec

---------------------------------------------------------------------------
(***************************************************************************)
(* The build pipeline.  Requests name attempts that were made; an attempt  *)
(* that is being made was allowed when the worker took the plan, and only  *)
(* the worker makes attempts.                                              *)
(***************************************************************************)


USE DistributionAssumption

Unsuccessful(s) == \A k \in DOMAIN s : ~s[k].ok
Working == builder.at \in {"building", "written", "built"}

Allowed(p, r) ==
    IF r = 0 THEN Automatic(p) < MaxAutomatic
    ELSE r \in DOMAIN requests[p] /\ requests[p][r] = Len(attempts[p])

WorkerAllowed ==
    Working => /\ Allowed(builder.plan, builder.retry)
               /\ Unsuccessful(attempts[builder.plan])
               /\ builder.at = "built" => artifact[builder.plan]

RequestsName ==
    /\ \A p \in Plans : /\ \A i \in DOMAIN requests[p] : requests[p][i] \in 1 .. Len(attempts[p])
                        /\ builder.seen[p] <= Len(requests[p])
    /\ \A h \in RetryHandlers :
          form[h].plan # 0 => form[h].number \in 1 .. Len(attempts[form[h].plan])

AttemptsAllowed(p) ==
    /\ Automatic(p) <= MaxAutomatic
    /\ \A k \in DOMAIN attempts[p] :
          /\ attempts[p][k].retry # 0 =>
                /\ attempts[p][k].retry \in DOMAIN requests[p]
                /\ requests[p][attempts[p][k].retry] = k - 1
          /\ attempts[p][k].ok => k = Len(attempts[p])
    /\ ~artifact[p] => Unsuccessful(attempts[p])

BuildInv == TypeOK /\ RequestsName /\ WorkerAllowed /\ \A p \in Plans : AttemptsAllowed(p)

(* Publications.  The n-th retry is authorised by the n-th failure, and an   *)
(* attempt after the first consumes the retry before it.                     *)
ReceiptsAgree(p) ==
    /\ \A i \in DOMAIN retries[p] : retries[p][i] = i
    /\ \A k \in DOMAIN executions[p] :
          /\ executions[p][k].retry = k - 1
          /\ executions[p][k].ok => k = Len(executions[p])
    /\ job[p].status = "none" => executions[p] = <<>> /\ retries[p] = <<>>
    /\ job[p].status \in {"queued", "running"} =>
          Len(executions[p]) = Len(retries[p]) /\ Unsuccessful(executions[p])
    /\ job[p].status \in {"succeeded", "failed"} =>
          /\ Len(executions[p]) = Len(retries[p]) + 1
          /\ Last(executions[p]).ok = (job[p].status = "succeeded")
    /\ registry[p] \subseteq {"whole"}

Numbered(x) ==
    /\ x.at = "claimed" => x.retry = 0
    /\ x.at \in {"publishing", "pushed"} => x.number # 0 /\ x.retry = x.number - 1

PublicationInv ==
    /\ TypeOK
    /\ \A p \in Plans : ReceiptsAgree(p)
    /\ \A w \in Publishers : Numbered(publisher[w])

---------------------------------------------------------------------------
(* Types.                                                                    *)

LEMMA NoneTypes ==
    /\ NoPass \in [at : {"idle", "pass", "building", "written", "built"}, todo : SUBSET Plans,
                   seen : [Plans -> Nat], plan : {0} \cup Plans, retry : Nat]
    /\ NoPass.at = "idle"
    /\ NoForm \in [plan : {0} \cup Plans, number : Nat]
    /\ NoJob \in [status : {"none", "queued", "running", "succeeded", "failed"},
                  worker : Publishers \cup {Nobody}, expired : BOOLEAN]
    /\ NoWork \in [at : {"idle", "claimed", "publishing", "pushed"},
                   plan : {0} \cup Plans, number : Nat, retry : Nat]
    /\ NoWork.at = "idle"
  BY DEF NoPass, NoForm, NoJob, NoWork

LEMMA LargestExists ==
    ASSUME NEW n \in Nat, NEW I \in SUBSET (1 .. n), I # {}
    PROVE  \E i \in I : \A j \in I : j <= i
  <1> DEFINE T == {n - i : i \in I}
             R == OpToRel(<, Nat)
  <1>1. T \subseteq Nat /\ T # {}
    <2>1. \A i \in I : i \in Nat /\ i <= n  OBVIOUS
    <2>2. \A i \in I : n - i \in Nat  BY <2>1
    <2> QED  BY <2>2
  <1> HIDE DEF R
  <1>2. PICK x \in T : \A y \in T : ~(<<y, x>> \in R)
    <2>1. IsWellFoundedOn(R, Nat)  BY NatLessThanWellFounded DEF R
    <2> HIDE DEF T
    <2> QED  BY <1>1, <2>1, WFMin
  <1>3. \A y \in T : x <= y
    <2>1. \A y \in T : y \in Nat /\ x \in Nat  BY <1>1
    <2> HIDE DEF T
    <2>2. \A y \in T : ~(y < x)  BY <1>2, <2>1 DEF R, OpToRel
    <2> QED  BY <2>1, <2>2
  <1>4. PICK i \in I : x = n - i  OBVIOUS
  <1>5. \A j \in I : n - j \in T  OBVIOUS
  <1>6. \A j \in I : n - i <= n - j  BY <1>3, <1>4, <1>5
  <1> HIDE DEF T, R
  <1>7. i \in Nat /\ \A j \in I : j \in Nat  OBVIOUS
  <1>8. ASSUME NEW j \in I
        PROVE  j <= i
    <2>1. n - i <= n - j /\ j \in Nat /\ i \in Nat /\ n \in Nat  BY <1>6, <1>7
    <2> QED  BY ONLY <2>1
  <1> QED  BY <1>8

LEMMA NewestType ==
    ASSUME NEW tried, NEW n \in Nat
    PROVE  Newest(tried, n) \in 0 .. n
  <1> DEFINE open == {i \in 1 .. n : \A k \in DOMAIN tried : tried[k].retry # i}
  <1>1. CASE open = {}
    BY <1>1 DEF Newest
  <1>2. CASE open # {}
    <2>1. \E i \in open : \A j \in open : j <= i
      <3> HIDE DEF open
      <3>1. open \subseteq 1 .. n  BY DEF open
      <3> QED  BY <1>2, <3>1, LargestExists
    <2>2. Newest(tried, n) = CHOOSE i \in open : \A j \in open : j <= i
      BY <1>2 DEF Newest
    <2>3. Newest(tried, n) \in open
      <3> HIDE DEF open
      <3> QED  BY <2>1, <2>2
    <2> QED  BY <2>3
  <1> QED  BY <1>1, <1>2

LEMMA NextStageType ==
    ASSUME TypeOK, NEW p \in Plans, NEW from, NEW to \in PlanSteps, NextStage(p, from, to),
           by' \in [Plans -> [requester : Admins \cup {Nobody}, reviewer : Admins \cup {Nobody},
                              proposer : Admins \cup {Nobody}, approver : Admins \cup {Nobody}]],
           manifest' \in [Plans -> Manifests \cup {"none"}], archive' \in [Plans -> FileStates]
    PROVE  TypeOK'
  BY DEF TypeOK, NextStage, build, publication

LEMMA PromoteType ==
    ASSUME TypeOK, NEW p \in Plans, NEW from, NEW to \in PromotionSteps, Promote(p, from, to),
           by' \in [Plans -> [requester : Admins \cup {Nobody}, reviewer : Admins \cup {Nobody},
                              proposer : Admins \cup {Nobody}, approver : Admins \cup {Nobody}]]
    PROVE  TypeOK'
  BY DEF TypeOK, Promote, build, publication, files

LEMMA AdministerType ==
    ASSUME TypeOK, NEW a \in Admins, NEW p \in Plans, Administer(a, p)
    PROVE  TypeOK'
  <1> DEFINE People == [requester : Admins \cup {Nobody}, reviewer : Admins \cup {Nobody},
                        proposer : Admins \cup {Nobody}, approver : Admins \cup {Nobody}]
  <1>0. by \in [Plans -> People]  BY DEF TypeOK
  <1>1. /\ [by EXCEPT ![p].requester = a] \in [Plans -> People]
        /\ [by EXCEPT ![p].reviewer = a] \in [Plans -> People]
        /\ [by EXCEPT ![p].proposer = a] \in [Plans -> People]
        /\ [by EXCEPT ![p].approver = a] \in [Plans -> People]
    BY <1>0
  <1>2. ASSUME NEW m \in Manifests, CreatePlan(a, p, m)
        PROVE  TypeOK'
    <2>1. NextStage(p, "none", "planned") /\ by' \in [Plans -> People] /\ archive' = archive
      BY <1>1, <1>2 DEF CreatePlan
    <2>2. manifest' \in [Plans -> Manifests \cup {"none"}]
      BY <1>2 DEF CreatePlan, TypeOK
    <2>3. archive' \in [Plans -> FileStates]  BY <2>1 DEF TypeOK
    <2> QED  BY <2>1, <2>2, <2>3, NextStageType DEF PlanSteps
  <1>3. ASSUME NEW d \in Decisions, ReviewPlan(a, p, d)
        PROVE  TypeOK'
    <2>1. NextStage(p, "planned", d) /\ by' \in [Plans -> People]
      BY <1>1, <1>3 DEF ReviewPlan
    <2>2. manifest' \in [Plans -> Manifests \cup {"none"}] /\ archive' \in [Plans -> FileStates]
      BY <1>3 DEF ReviewPlan, TypeOK
    <2> QED  BY <2>1, <2>2, NextStageType DEF PlanSteps, Decisions
  <1>4. CASE ProposePromotion(a, p)
    <2>1. Promote(p, "none", "proposed") /\ by' \in [Plans -> People]
      BY <1>1, <1>4 DEF ProposePromotion
    <2> QED  BY <2>1, PromoteType DEF PromotionSteps
  <1>5. ASSUME NEW d \in Decisions, ReviewPromotion(a, p, d)
        PROVE  TypeOK'
    <2>1. Promote(p, "proposed", d) /\ by' \in [Plans -> People]
      BY <1>1, <1>5 DEF ReviewPromotion
    <2> QED  BY <2>1, PromoteType DEF PromotionSteps, Decisions
  <1> QED  BY <1>2, <1>3, <1>4, <1>5 DEF Administer

LEMMA PrepareType ==
    ASSUME TypeOK, NEW p \in Plans,
           Prepare(p) \/ QueuePublication(p) \/ PreflightPublication(p)
    PROVE  TypeOK'
  <1>1. CASE Acquire(p)
    BY <1>1, NextStageType DEF TypeOK, Acquire, Fetched, FileStates, PlanSteps
  <1>2. CASE QueueBuild(p) \/ Preflight(p) \/ DryRun(p) \/ Resolve(p) \/ Inspect(p)
    BY <1>2, NextStageType
       DEF TypeOK, QueueBuild, Preflight, DryRun, Resolve, Inspect, PlanSteps
  <1>3. CASE QueuePublication(p) \/ PreflightPublication(p)
    BY <1>3, PromoteType DEF TypeOK, QueuePublication, PreflightPublication, PromotionSteps
  <1> QED  BY <1>1, <1>2, <1>3 DEF Prepare

(* Only what the build pipeline or the publication writes changes.          *)
BuilderTyped ==
    /\ builder \in [at : {"idle", "pass", "building", "written", "built"}, todo : SUBSET Plans,
                    seen : [Plans -> Nat], plan : {0} \cup Plans, retry : Nat]
    /\ builder.at \in {"building", "written", "built"} => builder.plan # 0
PublisherTyped ==
    /\ publisher \in [Publishers -> [at : {"idle", "claimed", "publishing", "pushed"},
                                     plan : {0} \cup Plans, number : Nat, retry : Nat]]
    /\ \A w \in Publishers : publisher[w].at # "idle" => publisher[w].plan # 0

LEMMA MovesBuilderType ==
    ASSUME TypeOK, BuilderTyped',
           attempts' \in [Plans -> Seq(Attempt)], due' \in [Plans -> BOOLEAN],
           artifact' \in [Plans -> BOOLEAN], file' \in [Plans -> FileStates],
           UNCHANGED <<plans, requests, form, publication, releases, faults, archive, registry>>
    PROVE  TypeOK'
  BY DEF TypeOK, BuilderTyped, plans, publication

LEMMA MovesPublisherType ==
    ASSUME TypeOK, PublisherTyped',
           job' \in [Plans -> [status : {"none", "queued", "running", "succeeded", "failed"},
                               worker : Publishers \cup {Nobody}, expired : BOOLEAN]],
           executions' \in [Plans -> Seq(Attempt)], registry' \in [Plans -> SUBSET FileStates],
           faults' \in Nat,
           UNCHANGED <<plans, build, retries, releases, archive, file>>
    PROVE  TypeOK'
  BY DEF TypeOK, PublisherTyped, plans, build

LEMMA BuilderBecomes ==
    ASSUME BuilderTyped, NEW at \in {"pass", "building"}, NEW todo \in SUBSET Plans,
           NEW plan \in {0} \cup Plans, NEW retry \in Nat, at = "building" => plan # 0,
           builder' = [builder EXCEPT !.at = at, !.todo = todo, !.plan = plan, !.retry = retry]
    PROVE  BuilderTyped'
  BY DEF BuilderTyped

LEMMA RecordType ==
    ASSUME TypeOK, NEW p \in Plans, NEW ok \in BOOLEAN, Record(p, ok)
    PROVE  attempts' \in [Plans -> Seq(Attempt)]
  <1>1. builder.retry \in Nat  BY DEF TypeOK
  <1>2. [ok |-> ok, retry |-> builder.retry] \in Attempt  BY <1>1 DEF Attempt
  <1>3. attempts[p] \in Seq(Attempt)  BY DEF TypeOK
  <1>4. Append(attempts[p], [ok |-> ok, retry |-> builder.retry]) \in Seq(Attempt)
    BY <1>2, <1>3
  <1> QED  BY <1>4 DEF Record, TypeOK

LEMMA WorkingPlan ==
    ASSUME TypeOK, Working
    PROVE  builder.plan \in Plans /\ builder.retry \in Nat
  BY DEF TypeOK, Working

LEMMA BuildType ==
    ASSUME TypeOK, Build
    PROVE  TypeOK'
  <1>0. BuilderTyped  BY DEF TypeOK, BuilderTyped
  <1>1. CASE List
    <2>1. \A p \in Plans : Len(requests[p]) \in Nat  BY DEF TypeOK
    <2>2. BuilderTyped'
      BY <1>1, <2>1, NoneTypes DEF List, BuilderTyped, NoPass
    <2> QED  BY <1>1, <2>2, MovesBuilderType DEF List, TypeOK, files
  <1>2. ASSUME NEW p \in Plans, Take(p)
        PROVE  TypeOK'
    <2>1. Manual(p) \in Nat
      <3>1. builder.seen[p] \in Nat  BY DEF TypeOK
      <3> QED  BY <3>1, NewestType DEF Manual
    <2>2. BuilderTyped'
      <3>1. CASE MayRun(p)
        <4>1. /\ builder' = [builder EXCEPT !.at = "building", !.todo = builder.todo \ {p},
                                            !.plan = p, !.retry = Manual(p)]
              /\ builder.todo \ {p} \in SUBSET Plans /\ p # 0
          BY <1>0, <1>2, <3>1 DEF Take, BuilderTyped, Plans
        <4> HIDE DEF Plans
        <4> QED  BY <1>0, <2>1, <4>1, BuilderBecomes
      <3>2. CASE ~MayRun(p)
        BY <1>0, <1>2, <3>2 DEF Take, BuilderTyped
      <3> QED  BY <3>1, <3>2
    <2> QED  BY <1>2, <2>2, MovesBuilderType DEF Take, TypeOK, files
  <1>3. ASSUME Working, BuildFails \/ RecordSuccess
        PROVE  TypeOK'
    <2>1. BuilderTyped'
      <3>1. builder' = [builder EXCEPT !.at = "pass", !.todo = builder.todo, !.plan = 0,
                                       !.retry = 0]
        BY <1>0, <1>3 DEF BuildFails, RecordSuccess, Goes, BuilderTyped
      <3>2. builder.todo \in SUBSET Plans  BY <1>0 DEF BuilderTyped
      <3> QED  BY <1>0, <3>1, <3>2, BuilderBecomes
    <2>2. attempts' \in [Plans -> Seq(Attempt)]
      BY <1>3, WorkingPlan, RecordType DEF BuildFails, RecordSuccess
    <2>3. due' \in [Plans -> BOOLEAN]
      BY <1>3, WorkingPlan DEF BuildFails, RecordSuccess, TypeOK
    <2> QED  BY <1>3, <2>1, <2>2, <2>3, MovesBuilderType
             DEF BuildFails, RecordSuccess, TypeOK, files
  <1>4. CASE WriteFile
    <2>1. BuilderTyped'  BY <1>0, <1>4 DEF WriteFile, BuilderTyped
    <2>2. builder.plan \in Plans  BY <1>4, WorkingPlan DEF WriteFile, Working
    <2>3. file' \in [Plans -> FileStates]
      BY <1>4, <2>2 DEF WriteFile, Written, TypeOK, FileStates
    <2> QED  BY <1>4, <2>1, <2>3, MovesBuilderType DEF WriteFile, TypeOK
  <1>5. CASE BuildSucceeds
    <2>1. BuilderTyped'  BY <1>0, <1>5 DEF BuildSucceeds, BuilderTyped
    <2> QED  BY <1>5, <2>1, MovesBuilderType DEF BuildSucceeds, TypeOK, files
  <1>6. CASE EndPass
    <2>1. BuilderTyped'  BY <1>6, NoneTypes DEF EndPass, BuilderTyped
    <2> QED  BY <1>6, <2>1, MovesBuilderType DEF EndPass, TypeOK, files
  <1>7. (BuildFails \/ RecordSuccess) => Working
    BY DEF BuildFails, RecordSuccess, Working
  <1> QED  BY <1>1, <1>2, <1>3, <1>4, <1>5, <1>6, <1>7 DEF Build

LEMMA FormType ==
    ASSUME TypeOK, NEW h \in RetryHandlers,
           CreateRetry(h) \/ \E p \in Plans : ReadLatest(h, p)
    PROVE  TypeOK'
  <1>1. ASSUME NEW p \in Plans, ReadLatest(h, p)
        PROVE  TypeOK'
    <2>1. Len(attempts[p]) \in Nat  BY DEF TypeOK
    <2>2. form' \in [RetryHandlers -> [plan : {0} \cup Plans, number : Nat]]
      BY <1>1, <2>1 DEF ReadLatest, TypeOK
    <2> QED  BY <1>1, <2>2 DEF ReadLatest, TypeOK, plans, publication, files
  <1>2. CASE CreateRetry(h)
    <2>1. form[h].plan \in {0} \cup Plans /\ form[h].number \in Nat  BY DEF TypeOK
    <2>2. form' \in [RetryHandlers -> [plan : {0} \cup Plans, number : Nat]]
      BY <1>2, NoneTypes DEF CreateRetry, TypeOK
    <2>3. requests' \in [Plans -> Seq(Nat)]
      <3> DEFINE p == form[h].plan
                 n == form[h].number
      <3>1. requests' \in {requests, [requests EXCEPT ![p] = Append(@, n)]}
        BY <1>2 DEF CreateRetry
      <3>2. requests \in [Plans -> Seq(Nat)] /\ n \in Nat  BY <2>1 DEF TypeOK
      <3>3. p \in Plans => Append(requests[p], n) \in Seq(Nat)  BY <3>2
      <3> HIDE DEF p, n
      <3> QED  BY <3>1, <3>2, <3>3
    <2> QED  BY <1>2, <2>2, <2>3 DEF CreateRetry, TypeOK, plans, publication, files
  <1> QED  BY <1>1, <1>2

LEMMA PublisherBecomes ==
    ASSUME PublisherTyped, NEW w \in Publishers,
           NEW x \in [at : {"idle", "claimed", "publishing", "pushed"},
                      plan : {0} \cup Plans, number : Nat, retry : Nat],
           x.at # "idle" => x.plan # 0, publisher' = [publisher EXCEPT ![w] = x]
    PROVE  PublisherTyped'
  BY DEF PublisherTyped

LEMMA PublishType ==
    ASSUME TypeOK, NEW w \in Publishers, Publish(w) \/ PublisherCrashes(w)
    PROVE  TypeOK'
  <1>0. PublisherTyped /\ (publisher[w].at # "idle" => publisher[w].plan \in Plans)
    BY DEF TypeOK, PublisherTyped
  <1>1. ASSUME NEW p \in Plans, Claim(w, p)
        PROVE  TypeOK'
    <2>1. p # 0  BY DEF Plans
    <2> DEFINE x == [NoWork EXCEPT !.at = "claimed", !.plan = p]
    <2>2. /\ x \in [at : {"idle", "claimed", "publishing", "pushed"},
                    plan : {0} \cup Plans, number : Nat, retry : Nat]
          /\ x.plan = p
      <3> HIDE DEF Plans
      <3> QED  BY NoneTypes
    <2>5. publisher' = [publisher EXCEPT ![w] = x]  BY <1>1 DEF Claim
    <2> HIDE DEF x
    <2>3. PublisherTyped'  BY <1>0, <2>1, <2>2, <2>5, PublisherBecomes
    <2>4. job' \in [Plans -> [status : {"none", "queued", "running", "succeeded", "failed"},
                              worker : Publishers \cup {Nobody}, expired : BOOLEAN]]
      BY <1>1 DEF Claim, TypeOK
    <2> HIDE DEF Plans
    <2> QED  BY <1>1, <2>3, <2>4, MovesPublisherType DEF Claim, TypeOK, files
  <1>2. CASE Count(w)
    <2> DEFINE p == publisher[w].plan
               r == Newest(executions[p], Len(retries[p]))
    <2>1. p \in Plans  BY <1>0, <1>2 DEF Count
    <2>2. Len(executions[p]) \in Nat /\ Len(retries[p]) \in Nat /\ r \in Nat
      <3>1. Len(executions[p]) \in Nat /\ Len(retries[p]) \in Nat  BY <2>1 DEF TypeOK
      <3> QED  BY <3>1, NewestType
    <2>3. PICK x : /\ publisher' = [publisher EXCEPT ![w] = x]
                   /\ \/ x = NoWork
                      \/ x = [publisher[w] EXCEPT !.at = "publishing", !.number = 1]
                      \/ x = [publisher[w] EXCEPT !.at = "publishing",
                                 !.number = Len(executions[p]) + 1, !.retry = r]
      BY <1>2, <1>0 DEF Count, PublisherTyped
    <2> HIDE DEF p, r
    <2>4. publisher[w].plan # 0  BY <1>2, <1>0 DEF Count, PublisherTyped
    <2>5. /\ x \in [at : {"idle", "claimed", "publishing", "pushed"},
                    plan : {0} \cup Plans, number : Nat, retry : Nat]
          /\ x.at # "idle" => x.plan # 0
      <3>1. publisher[w] \in [at : {"idle", "claimed", "publishing", "pushed"},
                              plan : {0} \cup Plans, number : Nat, retry : Nat]
        BY <1>0 DEF PublisherTyped
      <3> HIDE DEF Plans
      <3>2. CASE x = NoWork  BY <3>2, NoneTypes
      <3>3. CASE x = [publisher[w] EXCEPT !.at = "publishing", !.number = 1]
        BY <3>1, <3>3, <2>4
      <3>4. CASE x = [publisher[w] EXCEPT !.at = "publishing",
                         !.number = Len(executions[p]) + 1, !.retry = r]
        <4> DEFINE n == Len(executions[p]) + 1
        <4>1. n \in Nat /\ r \in Nat  BY <2>2
        <4>2. x = [publisher[w] EXCEPT !.at = "publishing", !.number = n, !.retry = r]
          BY <3>4
        <4> HIDE DEF n
        <4> QED  BY <3>1, <4>1, <4>2, <2>4
      <3> QED  BY <2>3, <3>2, <3>3, <3>4
    <2>6. PublisherTyped'  BY <1>0, <2>3, <2>5, PublisherBecomes
    <2> QED  BY <1>2, <2>6, MovesPublisherType DEF Count, TypeOK, files
  <1>3. CASE Push(w)
    <2>1. PublisherTyped'  BY <1>0, <1>3 DEF Push, PublisherTyped
    <2>2. registry' \in [Plans -> SUBSET FileStates]
      <3> DEFINE p == publisher[w].plan
      <3>1. p \in Plans  BY <1>0, <1>3 DEF Push
      <3>2. registry' = [registry EXCEPT ![p] = registry[p] \cup {file[p]}]
        BY <1>3 DEF Push
      <3>3. registry \in [Plans -> SUBSET FileStates] /\ file \in [Plans -> FileStates]
        BY DEF TypeOK
      <3> HIDE DEF p, Plans
      <3>4. registry[p] \cup {file[p]} \in SUBSET FileStates  BY <3>1, <3>3
      <3> QED  BY <3>1, <3>2, <3>3, <3>4
    <2> QED  BY <1>3, <2>1, <2>2, MovesPublisherType DEF Push, TypeOK
  <1>4. ASSUME NEW ok \in BOOLEAN, Complete(w, ok)
        PROVE  TypeOK'
    <2> DEFINE p == publisher[w].plan
               x == [ok |-> ok, retry |-> publisher[w].retry]
    <2>1. publisher' = [publisher EXCEPT ![w] = NoWork]  BY <1>4 DEF Complete
    <2>2. PublisherTyped'  BY <1>0, <2>1, NoneTypes, PublisherBecomes
    <2>3. x \in Attempt  BY <1>0 DEF Attempt, PublisherTyped
    <2>4. p \in Plans  BY <1>0, <1>4 DEF Complete
    <2>5. executions' \in [Plans -> Seq(Attempt)]
      <3>1. executions' \in {executions, [executions EXCEPT ![p] = Append(@, x)]}
        BY <1>4 DEF Complete
      <3>2. executions \in [Plans -> Seq(Attempt)]  BY DEF TypeOK
      <3> HIDE DEF p, x, Plans
      <3>3. Append(executions[p], x) \in Seq(Attempt)  BY <2>3, <2>4, <3>2
      <3> QED  BY <2>4, <3>1, <3>2, <3>3
    <2>6. job' \in [Plans -> [status : {"none", "queued", "running", "succeeded", "failed"},
                              worker : Publishers \cup {Nobody}, expired : BOOLEAN]]
      <3>1. job' \in {job, [job EXCEPT ![p] = [NoJob EXCEPT !.status = "succeeded"]],
                      [job EXCEPT ![p] = [NoJob EXCEPT !.status = "failed"]]}
        BY <1>4 DEF Complete
      <3>2. job \in [Plans -> [status : {"none", "queued", "running", "succeeded", "failed"},
                               worker : Publishers \cup {Nobody}, expired : BOOLEAN]]
        BY DEF TypeOK
      <3> HIDE DEF p, Plans
      <3> QED  BY <2>4, <3>1, <3>2, NoneTypes
    <2> QED  BY <1>4, <2>2, <2>5, <2>6, MovesPublisherType DEF Complete, TypeOK, files
  <1>5. CASE PublisherCrashes(w)
    <2>1. publisher' = [publisher EXCEPT ![w] = NoWork]  BY <1>5 DEF PublisherCrashes
    <2>2. PublisherTyped'  BY <1>0, <2>1, NoneTypes, PublisherBecomes
    <2>3. faults' \in Nat  BY <1>5 DEF PublisherCrashes, Fault, TypeOK
    <2> QED  BY <1>5, <2>2, <2>3, MovesPublisherType DEF PublisherCrashes, TypeOK, files
  <1> QED  BY <1>1, <1>2, <1>3, <1>4, <1>5 DEF Publish

LEMMA TimeType ==
    ASSUME TypeOK, NEW p \in Plans,
           \/ BackoffElapses(p) \/ AuthorizeRetry(p) \/ Release(p) \/ LeaseExpires(p)
           \/ DamageArchive(p) \/ DamageFile(p)
    PROVE  TypeOK'
  <1>1. CASE BackoffElapses(p)
    BY <1>1 DEF BackoffElapses, TypeOK, plans, publication, files
  <1>2. CASE AuthorizeRetry(p)
    <2>1. retries' \in [Plans -> Seq(Nat)]
      <3>1. Len(executions[p]) \in Nat /\ retries[p] \in Seq(Nat)  BY DEF TypeOK
      <3>2. Append(retries[p], Len(executions[p])) \in Seq(Nat)  BY <3>1
      <3> QED  BY <1>2, <3>2 DEF AuthorizeRetry, TypeOK
    <2>2. job' \in [Plans -> [status : {"none", "queued", "running", "succeeded", "failed"},
                              worker : Publishers \cup {Nobody}, expired : BOOLEAN]]
      BY <1>2, NoneTypes DEF AuthorizeRetry, TypeOK
    <2> QED  BY <1>2, <2>1, <2>2 DEF AuthorizeRetry, TypeOK, plans, build, files
  <1>3. CASE Release(p)
    BY <1>3 DEF Release, TypeOK, plans, build, publication, files
  <1>4. CASE LeaseExpires(p)
    <2>1. job' \in [Plans -> [status : {"none", "queued", "running", "succeeded", "failed"},
                              worker : Publishers \cup {Nobody}, expired : BOOLEAN]]
      <3>1. /\ job' = [job EXCEPT ![p].expired = TRUE]
            /\ job \in [Plans -> [status : {"none", "queued", "running", "succeeded", "failed"},
                                  worker : Publishers \cup {Nobody}, expired : BOOLEAN]]
        BY <1>4 DEF LeaseExpires, TypeOK
      <3> HIDE DEF Plans
      <3> QED  BY <3>1
    <2>2. faults' \in Nat  BY <1>4 DEF LeaseExpires, Fault, TypeOK
    <2> QED  BY <1>4, <2>1, <2>2 DEF LeaseExpires, TypeOK, plans, build, files
  <1>5. CASE DamageArchive(p)
    BY <1>5 DEF DamageArchive, Fault, TypeOK, FileStates, plans, build, publication
  <1>6. CASE DamageFile(p)
    BY <1>6 DEF DamageFile, Fault, TypeOK, FileStates, plans, build, publication
  <1> QED  BY <1>1, <1>2, <1>3, <1>4, <1>5, <1>6

LEMMA DistributionNextType == TypeOK /\ [DistributionNext]_distributionVars => TypeOK'
  <1> SUFFICES ASSUME TypeOK, [DistributionNext]_distributionVars
               PROVE  TypeOK'
    OBVIOUS
  <1>1. CASE UNCHANGED distributionVars
    BY <1>1 DEF TypeOK, distributionVars, plans, build, publication, files
  <1>2. CASE Restart
    <2>1. builder' = NoPass /\ form' = [h \in RetryHandlers |-> NoForm] /\ faults' \in Nat
      BY <1>2 DEF Restart, Fault, TypeOK
    <2>2. form' \in [RetryHandlers -> [plan : {0} \cup Plans, number : Nat]]
      BY <2>1, NoneTypes
    <2> QED  BY <1>2, <2>1, <2>2, NoneTypes DEF Restart, TypeOK, plans, publication, files
  <1>3. CASE DistributionNext
    BY <1>2, <1>3, AdministerType, PrepareType, BuildType, FormType, PublishType, TimeType
       DEF DistributionNext
  <1> QED  BY <1>1, <1>3

LEMMA DistributionInitType == DistributionInit => TypeOK
  BY NoneTypes DEF DistributionInit, TypeOK, PlanSteps, PromotionSteps, FileStates

---------------------------------------------------------------------------
(* Builds.                                                                   *)

(* One more attempt counts if no request was consumed by it.                *)
Unprompted(s) == {k \in DOMAIN s : s[k].retry = 0}

LEMMA AutomaticGrows ==
    ASSUME NEW s \in Seq(Attempt), NEW x \in Attempt,
           NEW t, t = Append(s, x)
    PROVE  /\ Cardinality(Unprompted(s)) \in Nat
           /\ Cardinality(Unprompted(t))
                = Cardinality(Unprompted(s)) + IF x.retry = 0 THEN 1 ELSE 0
  <1> DEFINE A == Unprompted(s)
             B == Unprompted(t)
             n == Len(s) + 1
  <1>1. /\ DOMAIN s = 1 .. Len(s) /\ Len(s) \in Nat /\ DOMAIN t = 1 .. n
        /\ \A k \in DOMAIN s : t[k] = s[k]
        /\ t[n] = x
    OBVIOUS
  <1>2. IsFiniteSet(A) /\ Cardinality(A) \in Nat
    <2>1. IsFiniteSet(1 .. Len(s))  BY <1>1, FS_Interval
    <2>2. A \in SUBSET (1 .. Len(s))  BY <1>1 DEF Unprompted
    <2> HIDE DEF A
    <2>3. IsFiniteSet(A)  BY <2>1, <2>2, FS_Subset
    <2> QED  BY <2>3, FS_CardinalityType
  <1>3. CASE x.retry = 0
    <2>1. B = A \cup {n} /\ n \notin A  BY <1>1, <1>3 DEF Unprompted
    <2>2. Cardinality(B) = Cardinality(A) + 1
      <3> HIDE DEF A, B, n
      <3> QED  BY <1>2, <2>1, FS_AddElement
    <2> QED  BY <1>2, <1>3, <2>2
  <1>4. CASE x.retry # 0
    <2>1. B = A  BY <1>1, <1>4 DEF Unprompted
    <2>2. Cardinality(B) = Cardinality(A) + 0
      <3> HIDE DEF A, B
      <3> QED  BY <1>2, <2>1
    <2> QED  BY <1>2, <1>4, <2>2
  <1> QED  BY <1>3, <1>4

LEMMA AutomaticEmpty ==
    ASSUME NEW p \in Plans, attempts[p] = <<>>
    PROVE  Automatic(p) < MaxAutomatic
  <1>1. {k \in DOMAIN attempts[p] : attempts[p][k].retry = 0} = {}  OBVIOUS
  <1> QED  BY <1>1, FS_EmptySet DEF Automatic

LEMMA BuildUnchanged ==
    ASSUME BuildInv, TypeOK', UNCHANGED <<attempts, requests, artifact, builder, form>>
    PROVE  BuildInv'
  BY Zenon DEF BuildInv, RequestsName, WorkerAllowed, Allowed, Working, Unsuccessful,
               AttemptsAllowed, Automatic

(* The builder moves, or looks at another plan, and nothing is recorded.    *)
LEMMA BuilderOnly ==
    ASSUME BuildInv, TypeOK', UNCHANGED <<attempts, requests, artifact>>,
           UNCHANGED form \/ form' = [h \in RetryHandlers |-> NoForm],
           \A p \in Plans : builder'.seen[p] <= Len(requests[p]),
           Working' => /\ Allowed(builder'.plan, builder'.retry)
                       /\ Unsuccessful(attempts[builder'.plan])
                       /\ builder'.at = "built" => artifact[builder'.plan]
    PROVE  BuildInv'
  <1>1. WorkerAllowed'
    BY Zenon DEF WorkerAllowed, Allowed, Unsuccessful, Automatic
  <1>2. \A p \in Plans : AttemptsAllowed(p)'
    BY DEF BuildInv, AttemptsAllowed, Automatic, Unsuccessful
  <1>3. RequestsName'
    BY DEF BuildInv, RequestsName, NoForm
  <1> QED  BY <1>1, <1>2, <1>3 DEF BuildInv

LEMMA SeenNothing == \A p \in Plans : requests \in [Plans -> Seq(Nat)] =>
                        NoPass.seen[p] <= Len(requests[p])
  BY DEF NoPass

(* A plan is taken when it was never built, for a retry that names its last *)
(* attempt, or by the clock when there is an attempt left.                  *)
LEMMA TakenIsAllowed ==
    ASSUME BuildInv, NEW p \in Plans, MayRun(p)
    PROVE  Allowed(p, Manual(p)) /\ Unsuccessful(attempts[p])
  <1>1. Unsuccessful(attempts[p])
    BY DEF BuildInv, AttemptsAllowed, MayRun
  <1>2. CASE Manual(p) # 0
    <2> DEFINE r == Newest(attempts[p], builder.seen[p])
    <2>1. builder.seen[p] \in Nat /\ builder.seen[p] <= Len(requests[p])
          /\ requests[p] \in Seq(Nat)
      BY DEF BuildInv, TypeOK, RequestsName
    <2>2. Manual(p) = r /\ r # 0 /\ requests[p][r] = Len(attempts[p])
      BY <1>2 DEF Manual
    <2>3. r \in 0 .. builder.seen[p]  BY <2>1, NewestType
    <2> HIDE DEF r
    <2>4. r \in DOMAIN requests[p]  BY <2>1, <2>2, <2>3
    <2> QED  BY <1>1, <2>2, <2>4 DEF Allowed
  <1>3. CASE Manual(p) = 0
    <2>1. attempts[p] = <<>> \/ Automatic(p) < MaxAutomatic
      BY <1>3 DEF MayRun
    <2>2. Automatic(p) < MaxAutomatic  BY <2>1, AutomaticEmpty
    <2> QED  BY <1>1, <1>3, <2>2 DEF Allowed
  <1> QED  BY <1>2, <1>3

(* The end of a build is recorded.                                          *)
LEMMA RecordAllowed ==
    ASSUME BuildInv, TypeOK', Working, NEW ok \in BOOLEAN, builder' = Goes,
           NEW p, p = builder.plan, NEW r, r = builder.retry, Record(p, ok),
           NEW x, x = [ok |-> ok, retry |-> r], NEW s, s = attempts[p], NEW t, t = attempts'[p],
           ok => builder.at = "built", UNCHANGED <<requests, artifact, form>>
    PROVE  BuildInv'
  <1>1. p \in Plans /\ r \in Nat  BY WorkingPlan DEF BuildInv
  <1>2. /\ s \in Seq(Attempt) /\ x \in Attempt /\ t = Append(s, x)
        /\ \A q \in Plans : q # p => attempts'[q] = attempts[q]
    BY <1>1 DEF BuildInv, TypeOK, Record, Attempt
  <1>3. x.ok = ok /\ x.retry = r  OBVIOUS
  <1>4. /\ Allowed(p, r) /\ Unsuccessful(s)
        /\ ok => artifact[p]
    BY DEF BuildInv, WorkerAllowed
  <1>5. Automatic(p) \in Nat /\ Automatic(p)' = Automatic(p) + IF r = 0 THEN 1 ELSE 0
    <2>1. /\ Cardinality(Unprompted(s)) \in Nat
          /\ Cardinality(Unprompted(t))
                = Cardinality(Unprompted(s)) + IF x.retry = 0 THEN 1 ELSE 0
      BY ONLY <1>2, AutomaticGrows
    <2>2. x.retry = r  BY <1>3
    <2> QED  BY <2>1, <2>2 DEF Automatic, Unprompted
  <1>6. /\ Len(s) \in Nat /\ DOMAIN s = 1 .. Len(s) /\ Len(t) = Len(s) + 1
        /\ DOMAIN t = 1 .. Len(s) + 1 /\ t[Len(s) + 1] = x
        /\ \A k \in DOMAIN s : t[k] = s[k]
    BY <1>2
  <1>7. /\ artifact[p] \in BOOLEAN /\ requests[p] \in Seq(Nat)
        /\ attempts[p] = s /\ attempts'[p] = t
    BY <1>1 DEF BuildInv, TypeOK
  <1>8. AttemptsAllowed(p)'
    <2>1. Automatic(p)' <= MaxAutomatic
      <3>1. CASE r = 0
        BY <1>4, <1>5, <3>1 DEF Allowed
      <3>2. CASE r # 0
        BY <1>1, <1>5, <3>2 DEF BuildInv, AttemptsAllowed
      <3> QED  BY <3>1, <3>2
    <2>2. ASSUME NEW k \in DOMAIN t
          PROVE  /\ t[k].retry # 0 => /\ t[k].retry \in DOMAIN requests[p]
                                      /\ requests[p][t[k].retry] = k - 1
                 /\ t[k].ok => k = Len(t)
      <3>1. CASE k = Len(s) + 1
        <4>1. t[k] = x /\ k = Len(t) /\ k - 1 = Len(s)  BY <1>6, <3>1
        <4>2. r # 0 => r \in DOMAIN requests[p] /\ requests[p][r] = Len(s)
          BY <1>4, <1>7 DEF Allowed
        <4>3. x.retry = r  BY <1>3
        <4> QED  BY ONLY <4>1, <4>2, <4>3
      <3>2. CASE k # Len(s) + 1
        <4>1. k \in DOMAIN s /\ t[k] = s[k]  BY <1>6, <3>2
        <4>2. ~s[k].ok  BY <1>4, <4>1 DEF Unsuccessful
        <4> QED  BY <1>1, <1>7, <4>1, <4>2 DEF BuildInv, AttemptsAllowed
      <3> QED  BY <3>1, <3>2
    <2>3. ~artifact[p] => Unsuccessful(t)
      <3> SUFFICES ASSUME ~artifact[p], NEW k \in DOMAIN t
                   PROVE  ~t[k].ok
        BY DEF Unsuccessful
      <3>1. CASE k = Len(s) + 1
        BY <1>3, <1>4, <1>6, <3>1
      <3>2. CASE k # Len(s) + 1
        BY <1>4, <1>6, <3>2 DEF Unsuccessful
      <3> QED  BY <3>1, <3>2
    <2> QED  BY <1>7, <2>1, <2>2, <2>3 DEF AttemptsAllowed, Unsuccessful
  <1>9. ASSUME NEW q \in Plans
        PROVE  AttemptsAllowed(q)'
    <2>1. CASE q = p  BY <1>8, <2>1
    <2>2. CASE q # p
      <3>1. attempts'[q] = attempts[q]  BY <1>2, <2>2
      <3> QED  BY <3>1 DEF BuildInv, AttemptsAllowed, Automatic, Unsuccessful
    <2> QED  BY <2>1, <2>2
  <1>10. WorkerAllowed'  BY DEF WorkerAllowed, Working, Goes, BuildInv, TypeOK
  <1>11. RequestsName'
    <2>1. \A q \in Plans : Len(attempts[q]) \in Nat /\ Len(attempts'[q]) \in Nat
                           /\ Len(attempts[q]) <= Len(attempts'[q])
      <3>1. \A q \in Plans : Len(attempts[q]) \in Nat  BY DEF BuildInv, TypeOK
      <3>2. Len(s) \in Nat /\ Len(t) \in Nat /\ Len(s) <= Len(t)  BY <1>6
      <3>3. \A q \in Plans : q # p => Len(attempts[q]) <= Len(attempts'[q])
                                     /\ Len(attempts'[q]) \in Nat
        <4>1. \A q \in Plans : Len(attempts[q]) <= Len(attempts[q])  BY <3>1
        <4> QED  BY <1>2, <3>1, <4>1
      <3>4. Len(attempts[p]) <= Len(attempts'[p]) /\ Len(attempts'[p]) \in Nat
        BY <1>7, <3>2
      <3> QED  BY <3>1, <3>3, <3>4
    <2>2. \A q \in Plans : 1 .. Len(attempts[q]) \subseteq 1 .. Len(attempts'[q])
      BY <2>1
    <2>3. builder'.seen = builder.seen  BY DEF Goes, BuildInv, TypeOK
    <2>4. \A h \in RetryHandlers : form[h].plan # 0 => form[h].plan \in Plans
      BY DEF BuildInv, TypeOK
    <2> QED  BY <2>2, <2>3, <2>4 DEF RequestsName, BuildInv
  <1> QED  BY <1>9, <1>10, <1>11 DEF BuildInv

LEMMA BuildAllowed ==
    ASSUME BuildInv, TypeOK', Build
    PROVE  BuildInv'
  <1>0. /\ \A q \in Plans : builder.seen[q] <= Len(requests[q])
        /\ \A q \in Plans : NoPass.seen[q] <= Len(requests[q])
    BY SeenNothing DEF BuildInv, RequestsName, TypeOK
  <1>1. CASE List
    <2>1. builder'.at = "pass" /\ builder'.seen = [q \in Plans |-> Len(requests[q])]
      BY <1>1 DEF List, NoPass
    <2>2. \A q \in Plans : builder'.seen[q] <= Len(requests[q])
      BY <2>1 DEF BuildInv, TypeOK
    <2>3. ~Working'  BY <2>1 DEF Working
    <2> QED  BY <1>1, <2>2, <2>3, BuilderOnly DEF List
  <1>2. ASSUME NEW p \in Plans, Take(p)
        PROVE  BuildInv'
    <2>1. builder'.seen = builder.seen /\ UNCHANGED <<attempts, requests, artifact, form>>
      BY <1>2 DEF Take, BuildInv, TypeOK
    <2>2. CASE MayRun(p)
      <3>1. builder'.at = "building" /\ builder'.plan = p /\ builder'.retry = Manual(p)
        BY <1>2, <2>2 DEF Take, BuildInv, TypeOK
      <3>2. Allowed(p, Manual(p)) /\ Unsuccessful(attempts[p])  BY <2>2, TakenIsAllowed
      <3>3. \A q \in Plans : builder'.seen[q] <= Len(requests[q])  BY <1>0, <2>1
      <3>4. Allowed(builder'.plan, builder'.retry) /\ Unsuccessful(attempts[builder'.plan])
        BY <3>1, <3>2
      <3>5. builder'.at # "built"  BY <3>1
      <3> QED  BY <2>1, <3>3, <3>4, <3>5, BuilderOnly
    <2>3. CASE ~MayRun(p)
      <3>1. builder'.at = "pass"  BY <1>2, <2>3 DEF Take, BuildInv, TypeOK
      <3>2. ~Working'  BY <3>1 DEF Working
      <3> QED  BY <1>0, <2>1, <3>2, BuilderOnly
    <2> QED  BY <2>2, <2>3
  <1>3. CASE BuildFails
    <2>1. Working /\ Record(builder.plan, FALSE) /\ builder' = Goes
          /\ UNCHANGED <<requests, artifact, form>>
      BY <1>3 DEF BuildFails, Working
    <2> QED  BY <2>1, RecordAllowed
  <1>4. CASE WriteFile
    <2>1. /\ builder'.plan = builder.plan /\ builder'.retry = builder.retry
          /\ builder'.at = "written" /\ builder'.seen = builder.seen /\ Working
      BY <1>4 DEF WriteFile, Working, BuildInv, TypeOK
    <2>2. UNCHANGED <<attempts, requests, artifact, form>>  BY <1>4 DEF WriteFile
    <2>3. Allowed(builder'.plan, builder'.retry) /\ Unsuccessful(attempts[builder'.plan])
      BY <2>1 DEF BuildInv, WorkerAllowed
    <2>4. builder'.at # "built"  BY <2>1
    <2> QED  BY <1>0, <2>1, <2>2, <2>3, <2>4, BuilderOnly
  <1>5. CASE BuildSucceeds
    <2>1. /\ builder'.plan = builder.plan /\ builder'.retry = builder.retry
          /\ builder'.seen = builder.seen /\ Working
          /\ artifact' = [artifact EXCEPT ![builder.plan] = TRUE]
          /\ UNCHANGED <<attempts, requests, form>>
      BY <1>5 DEF BuildSucceeds, Working, BuildInv, TypeOK
    <2>2. builder.plan \in Plans  BY <2>1, WorkingPlan DEF BuildInv
    <2>3. artifact'[builder'.plan] = TRUE /\ \A q \in Plans : artifact[q] => artifact'[q]
      BY <2>1, <2>2 DEF BuildInv, TypeOK
    <2>4. \A q \in Plans : AttemptsAllowed(q)'
      BY <2>1, <2>3 DEF BuildInv, AttemptsAllowed, Automatic, Unsuccessful
    <2>5. WorkerAllowed'
      BY <2>1, <2>3 DEF BuildInv, WorkerAllowed, Allowed, Automatic, Unsuccessful
    <2>6. RequestsName'  BY <2>1 DEF BuildInv, RequestsName
    <2> QED  BY <2>4, <2>5, <2>6 DEF BuildInv
  <1>6. CASE RecordSuccess
    <2>1. Working /\ Record(builder.plan, TRUE) /\ builder' = Goes /\ builder.at = "built"
          /\ UNCHANGED <<requests, artifact, form>>
      BY <1>6 DEF RecordSuccess, Working
    <2> QED  BY <2>1, RecordAllowed
  <1>7. CASE EndPass
    <2>1. ~Working'  BY <1>7, NoneTypes DEF EndPass, Working
    <2> QED  BY <1>0, <1>7, <2>1, BuilderOnly DEF EndPass
  <1> QED  BY <1>1, <1>2, <1>3, <1>4, <1>5, <1>6, <1>7 DEF Build

(* A request names an attempt that was made; a later one changes neither    *)
(* the requests before it nor what they allowed.                            *)
LEMMA FormAllowed ==
    ASSUME BuildInv, TypeOK', NEW h \in RetryHandlers,
           CreateRetry(h) \/ \E p \in Plans : ReadLatest(h, p)
    PROVE  BuildInv'
  <1>1. ASSUME NEW p \in Plans, ReadLatest(h, p)
        PROVE  BuildInv'
    <2>1. /\ attempts[p] # <<>> /\ form' = [form EXCEPT ![h] = [plan |-> p, number |-> Len(attempts[p])]]
          /\ UNCHANGED <<attempts, requests, artifact, builder>>
      BY <1>1 DEF ReadLatest
    <2>2. Len(attempts[p]) \in 1 .. Len(attempts[p])
      <3>1. attempts[p] \in Seq(Attempt)  BY DEF BuildInv, TypeOK
      <3> QED  BY <2>1, <3>1
    <2>3. RequestsName'
      BY <2>1, <2>2 DEF BuildInv, TypeOK, RequestsName
    <2>4. WorkerAllowed' /\ \A q \in Plans : AttemptsAllowed(q)'
      BY Zenon, <2>1 DEF BuildInv, WorkerAllowed, Allowed, Working, Unsuccessful,
                         AttemptsAllowed, Automatic
    <2> QED  BY <2>3, <2>4 DEF BuildInv
  <1>2. CASE CreateRetry(h)
    <2>1. PICK p, n : /\ p = form[h].plan /\ n = form[h].number
      OBVIOUS
    <2>2. /\ requests' \in {requests, [requests EXCEPT ![p] = Append(@, n)]}
          /\ form' = [form EXCEPT ![h] = NoForm]
          /\ UNCHANGED <<attempts, artifact, builder>>
      BY <1>2, <2>1 DEF CreateRetry
    <2>3. /\ requests \in [Plans -> Seq(Nat)] /\ n \in Nat
          /\ p \in Plans => n \in 1 .. Len(attempts[p])
      <3>1. p \in Plans => p # 0  BY DEF Plans
      <3>2. p # 0 => n \in 1 .. Len(attempts[p])  BY <2>1 DEF BuildInv, RequestsName
      <3> QED  BY <2>1, <3>1, <3>2 DEF BuildInv, TypeOK
    <2>4. ASSUME NEW q \in Plans
          PROVE  /\ Len(requests[q]) <= Len(requests'[q])
                 /\ DOMAIN requests[q] \subseteq DOMAIN requests'[q]
                 /\ \A i \in DOMAIN requests[q] : requests'[q][i] = requests[q][i]
                 /\ \A i \in DOMAIN requests'[q] : requests'[q][i] \in 1 .. Len(attempts[q])
      <3>1. \A i \in DOMAIN requests[q] : requests[q][i] \in 1 .. Len(attempts[q])
        BY DEF BuildInv, RequestsName
      <3>2. CASE requests'[q] = requests[q]
        BY <2>3, <3>1, <3>2
      <3>3. CASE q = p /\ requests'[q] = Append(requests[q], n)
        BY <2>3, <3>1, <3>3
      <3> QED  BY <2>2, <2>3, <3>2, <3>3
    <2>5. RequestsName'
      <3>1. \A q \in Plans : builder.seen[q] \in Nat /\ Len(requests[q]) \in Nat
                             /\ Len(requests'[q]) \in Nat
        BY DEF BuildInv, TypeOK
      <3>2. \A q \in Plans : builder'.seen[q] <= Len(requests'[q])
        BY <2>2, <2>4, <3>1 DEF BuildInv, RequestsName
      <3>3. \A k \in RetryHandlers : form'[k].plan # 0 =>
                form'[k].number \in 1 .. Len(attempts'[form'[k].plan])
        BY <2>2 DEF BuildInv, RequestsName, NoForm, TypeOK
      <3> QED  BY <2>2, <2>4, <3>2, <3>3 DEF RequestsName
    <2>6. ASSUME NEW q \in Plans
          PROVE  AttemptsAllowed(q)'
      <3>1. AttemptsAllowed(q)  BY DEF BuildInv
      <3>2. Automatic(q)' = Automatic(q)  BY <2>2 DEF Automatic
      <3>3. ASSUME NEW k \in DOMAIN attempts[q], attempts[q][k].retry # 0
            PROVE  /\ attempts[q][k].retry \in DOMAIN requests'[q]
                   /\ requests'[q][attempts[q][k].retry] = k - 1
        BY <2>4, <3>1, <3>3 DEF AttemptsAllowed
      <3> QED  BY <2>2, <3>1, <3>2, <3>3 DEF AttemptsAllowed, Unsuccessful
    <2>7. WorkerAllowed'
      <3>1. Working => builder.plan \in Plans  BY WorkingPlan DEF BuildInv
      <3> QED  BY <2>2, <2>4, <3>1 DEF BuildInv, WorkerAllowed, Allowed, Automatic, Unsuccessful, Working
    <2> QED  BY <2>5, <2>6, <2>7 DEF BuildInv
  <1> QED  BY <1>1, <1>2

LEMMA BuildStep == BuildInv /\ [DistributionNext]_distributionVars => BuildInv'
  <1> SUFFICES ASSUME BuildInv, [DistributionNext]_distributionVars
               PROVE  BuildInv'
    OBVIOUS
  <1>0. TypeOK'  BY DistributionNextType DEF BuildInv
  <1>1. CASE UNCHANGED build
    BY <1>0, <1>1, BuildUnchanged DEF build
  <1>2. CASE Build
    BY <1>0, <1>2, BuildAllowed
  <1>3. ASSUME NEW h \in RetryHandlers, CreateRetry(h) \/ \E p \in Plans : ReadLatest(h, p)
        PROVE  BuildInv'
    BY <1>0, <1>3, FormAllowed
  <1>4. CASE Restart
    <2>1. \A q \in Plans : NoPass.seen[q] <= Len(requests[q])
      BY SeenNothing DEF BuildInv, TypeOK
    <2>2. ~Working'  BY <1>4, NoneTypes DEF Restart, Working
    <2> QED  BY <1>0, <1>4, <2>1, <2>2, BuilderOnly DEF Restart
  <1>5. ASSUME NEW p \in Plans, BackoffElapses(p)
        PROVE  BuildInv'
    BY <1>0, <1>5, BuildUnchanged DEF BackoffElapses
  <1>6. ASSUME NEW p \in Plans,
               \/ \E a \in Admins : Administer(a, p)
               \/ Prepare(p) \/ QueuePublication(p) \/ PreflightPublication(p)
               \/ AuthorizeRetry(p) \/ Release(p) \/ LeaseExpires(p)
               \/ DamageArchive(p) \/ DamageFile(p)
        PROVE  UNCHANGED build
    <2>1. CASE \E a \in Admins : Administer(a, p)
      BY Zenon, <2>1 DEF Administer, CreatePlan, ReviewPlan, ProposePromotion, ReviewPromotion,
                         NextStage, Promote
    <2>2. CASE Prepare(p) \/ QueuePublication(p) \/ PreflightPublication(p)
      BY Zenon, <2>2 DEF Prepare, QueueBuild, Preflight, DryRun, Resolve, Acquire, Inspect,
                         QueuePublication, PreflightPublication, NextStage, Promote
    <2>3. CASE \/ AuthorizeRetry(p) \/ Release(p) \/ LeaseExpires(p)
               \/ DamageArchive(p) \/ DamageFile(p)
      BY Zenon, <2>3 DEF AuthorizeRetry, Release, LeaseExpires, DamageArchive, DamageFile
    <2> QED  BY <1>6, <2>1, <2>2, <2>3
  <1>7. ASSUME NEW w \in Publishers, Publish(w) \/ PublisherCrashes(w)
        PROVE  UNCHANGED build
    BY Zenon, <1>7 DEF Publish, Claim, Count, Push, Complete, PublisherCrashes
  <1>8. UNCHANGED distributionVars => UNCHANGED build
    BY DEF distributionVars
  <1> QED  BY <1>1, <1>2, <1>3, <1>4, <1>5, <1>6, <1>7, <1>8 DEF DistributionNext

(* Builds are made again only as allowed, for any number of plans, retry    *)
(* forms and attempts, through restarts of the process                      *)
(* (distribution_ocb_worker.go).                                            *)
THEOREM AuthorisedBuilds == DistributionSpec => []BuildsAreAuthorised
  <1>1. DistributionInit => BuildInv
    <2> SUFFICES ASSUME DistributionInit
                 PROVE  BuildInv
      OBVIOUS
    <2>1. TypeOK  BY DistributionInitType
    <2>2. ~Working  BY NoneTypes DEF DistributionInit, Working
    <2>3. RequestsName
      BY SeenNothing, <2>1 DEF DistributionInit, RequestsName, TypeOK, NoForm
    <2>4. ASSUME NEW p \in Plans
          PROVE  AttemptsAllowed(p)
      <3>1. attempts[p] = <<>>  BY DEF DistributionInit
      <3>2. Automatic(p) = 0
        <4>1. {k \in DOMAIN attempts[p] : attempts[p][k].retry = 0} = {}  BY <3>1
        <4> QED  BY <4>1, FS_EmptySet DEF Automatic
      <3> QED  BY <3>1, <3>2 DEF AttemptsAllowed, Unsuccessful
    <2> QED  BY <2>1, <2>2, <2>3, <2>4 DEF BuildInv, WorkerAllowed
  <1>2. BuildInv => BuildsAreAuthorised
    BY DEF BuildInv, AttemptsAllowed, BuildsAreAuthorised
  <1> QED  BY <1>1, <1>2, BuildStep, PTL DEF DistributionSpec

---------------------------------------------------------------------------
(* Publications.                                                             *)

(* A job that is claimed, or whose lease ends, agrees with its receipts as  *)
(* it did before.                                                           *)
LEMMA JobMoves ==
    ASSUME PublicationInv, TypeOK', NEW p \in Plans, job'[p].status = "running",
           job[p].status \in {"none", "queued", "running"},
           \A q \in Plans : q # p => job'[q] = job[q],
           UNCHANGED <<executions, retries, registry>>,
           \A w \in Publishers : Numbered(publisher'[w])
    PROVE  PublicationInv'
  <1>1. ASSUME NEW q \in Plans
        PROVE  ReceiptsAgree(q)'
    <2>0. ReceiptsAgree(q)  BY DEF PublicationInv
    <2>1. CASE q # p
      <3>1. job'[q] = job[q]  BY <2>1
      <3> QED  BY <2>0, <3>1 DEF ReceiptsAgree, Unsuccessful
    <2>2. CASE q = p
      <3>1. Len(executions[p]) = Len(retries[p]) /\ Unsuccessful(executions[p])
        BY <2>0, <2>2 DEF ReceiptsAgree, Unsuccessful
      <3> QED  BY <2>0, <2>2, <3>1 DEF ReceiptsAgree, Unsuccessful
    <2> QED  BY <2>1, <2>2
  <1> QED  BY <1>1 DEF PublicationInv

(* A worker moves, and no row changes.                                      *)
LEMMA WorkerMoves ==
    ASSUME PublicationInv, TypeOK', NEW w \in Publishers, NEW x,
           publisher' = [publisher EXCEPT ![w] = x],
           Numbered(x)
    PROVE  \A v \in Publishers : Numbered(publisher'[v])
  <1>1. DOMAIN publisher = Publishers  BY DEF PublicationInv, TypeOK
  <1> QED  BY <1>1 DEF PublicationInv

LEMMA RowsStay ==
    ASSUME PublicationInv, TypeOK', UNCHANGED <<executions, retries, registry, job>>,
           \A w \in Publishers : Numbered(publisher'[w])
    PROVE  PublicationInv'
  BY DEF PublicationInv, ReceiptsAgree, Unsuccessful

(* The retry that a later attempt consumes is the last one authorised, and  *)
(* it names the attempt before.                                             *)
LEMMA NewestRetry ==
    ASSUME PublicationInv, NEW p \in Plans, NEW e, e = executions[p], e # <<>>,
           NEW n, n = Len(retries[p]), NEW r, r = Newest(e, n), r # 0
    PROVE  r = Len(e)
  <1> DEFINE open == {i \in 1 .. n : \A k \in DOMAIN e : e[k].retry # i}
  <1>1. /\ e \in Seq(Attempt) /\ retries[p] \in Seq(Nat)
        /\ Len(e) \in Nat /\ n \in Nat /\ DOMAIN e = 1 .. Len(e)
        /\ job[p].status \in {"none", "queued", "running", "succeeded", "failed"}
    BY DEF PublicationInv, TypeOK
  <1>2. n <= Len(e) /\ \A k \in DOMAIN e : e[k].retry = k - 1
    BY <1>1 DEF PublicationInv, ReceiptsAgree
  <1>3. \A i \in open : i = Len(e)
    <2> SUFFICES ASSUME NEW i \in 1 .. n, i # Len(e), \A k \in DOMAIN e : e[k].retry # i
                 PROVE  FALSE
      OBVIOUS
    <2>1. i + 1 \in DOMAIN e /\ (i + 1) - 1 = i  BY ONLY <1>1, <1>2, i \in 1 .. n, i # Len(e)
    <2> QED  BY <1>2, <2>1
  <1>4. open # {} /\ r = CHOOSE i \in open : \A j \in open : j <= i
    BY DEF Newest
  <1>5. \E i \in open : \A j \in open : j <= i
    <2> HIDE DEF open
    <2>1. open \subseteq 1 .. n  BY DEF open
    <2> QED  BY <1>1, <1>4, <2>1, LargestExists
  <1>6. r \in open
    <2> HIDE DEF open
    <2> QED  BY <1>4, <1>5
  <1> QED  BY <1>3, <1>6

(* The receipt of an attempt and the status of its job are written together *)
(* by the worker that owns the job.                                         *)
LEMMA ReceiptAgrees ==
    ASSUME PublicationInv, TypeOK', NEW p \in Plans, NEW ok \in BOOLEAN,
           NEW n, n \in Nat \ {0}, NEW x, x.ok = ok, x.retry = n - 1, x \in Attempt,
           job[p].status = "running", n = Len(executions[p]) + 1,
           executions' = [executions EXCEPT ![p] = Append(@, x)],
           \A q \in Plans : q # p => job'[q] = job[q],
           job'[p].status = IF ok THEN "succeeded" ELSE "failed",
           UNCHANGED <<retries, registry>>, \A w \in Publishers : Numbered(publisher'[w])
    PROVE  PublicationInv'
  <1>1. PICK s, t : /\ s = executions[p] /\ t = executions'[p]
    OBVIOUS
  <1>2. /\ s \in Seq(Attempt) /\ t = Append(s, x)
        /\ \A q \in Plans : q # p => executions'[q] = executions[q]
    BY <1>1 DEF PublicationInv, TypeOK
  <1>3. /\ Len(s) \in Nat /\ DOMAIN s = 1 .. Len(s) /\ DOMAIN t = 1 .. n /\ Len(t) = n
        /\ t[n] = x /\ n = Len(s) + 1 /\ \A k \in DOMAIN s : t[k] = s[k]
    BY ONLY <1>1, <1>2, n = Len(executions[p]) + 1
  <1>4. /\ Len(s) = Len(retries[p]) /\ Unsuccessful(s)
        /\ \A k \in DOMAIN s : s[k].retry = k - 1
        /\ \A i \in DOMAIN retries[p] : retries[p][i] = i
        /\ registry[p] \subseteq {"whole"}
    BY <1>1 DEF PublicationInv, ReceiptsAgree
  <1>5. \A k \in DOMAIN t : k = n \/ k \in DOMAIN s
    BY ONLY <1>3
  <1>6. \A k \in DOMAIN t : t[k].retry = k - 1
    BY <1>3, <1>4, <1>5
  <1>7. \A k \in DOMAIN t : t[k].ok => k = Len(t)
    BY <1>3, <1>4, <1>5 DEF Unsuccessful
  <1>8. Len(t) = Len(retries[p]) + 1 /\ Last(t).ok = ok
    BY <1>3, <1>4 DEF Last
  <1>9. ReceiptsAgree(p)'
    <2>1. job'[p].status \in {"succeeded", "failed"} /\ ok = (job'[p].status = "succeeded")
      OBVIOUS
    <2> QED  BY <1>1, <1>4, <1>6, <1>7, <1>8, <2>1 DEF ReceiptsAgree
  <1>10. ASSUME NEW q \in Plans, q # p
         PROVE  ReceiptsAgree(q)'
    <2>1. executions'[q] = executions[q] /\ job'[q] = job[q]  BY <1>2, <1>10
    <2>2. ReceiptsAgree(q)  BY DEF PublicationInv
    <2> QED  BY <2>1, <2>2 DEF ReceiptsAgree, Unsuccessful
  <1> QED  BY <1>9, <1>10 DEF PublicationInv

LEMMA PublishAgrees ==
    ASSUME PublicationInv, TypeOK', NEW w \in Publishers, Publish(w) \/ PublisherCrashes(w)
    PROVE  PublicationInv'
  <1>0. Numbered(publisher[w]) /\ TypeOK  BY DEF PublicationInv
  <1>1. ASSUME NEW p \in Plans, Claim(w, p)
        PROVE  PublicationInv'
    <2>1. PICK x : x = [NoWork EXCEPT !.at = "claimed", !.plan = p]  OBVIOUS
    <2>2. x.at = "claimed" /\ x.retry = 0 /\ publisher' = [publisher EXCEPT ![w] = x]
      BY <1>1, <2>1 DEF Claim, NoWork
    <2>3. \A v \in Publishers : Numbered(publisher'[v])
      BY <2>2, WorkerMoves DEF Numbered
    <2>4. job[p].status \in {"none", "queued", "running"}  BY <1>1 DEF Claim, Free
    <2>5. job'[p].status = "running" /\ \A q \in Plans : q # p => job'[q] = job[q]
      BY <1>0, <1>1 DEF Claim, TypeOK
    <2>6. UNCHANGED <<executions, retries, registry>>  BY <1>1 DEF Claim, files
    <2> QED  BY <2>3, <2>4, <2>5, <2>6, JobMoves
  <1>2. CASE Count(w)
    <2>1. PICK p, r : /\ p = publisher[w].plan
                      /\ r = Newest(executions[p], Len(retries[p]))
      OBVIOUS
    <2>2. p \in Plans  BY <1>0, <1>2, <2>1 DEF Count, TypeOK
    <2>3. PICK x : /\ publisher' = [publisher EXCEPT ![w] = x]
                   /\ \/ x = NoWork
                      \/ /\ executions[p] = <<>>
                         /\ x = [publisher[w] EXCEPT !.at = "publishing", !.number = 1]
                      \/ /\ executions[p] # <<>> /\ r # 0
                         /\ x = [publisher[w] EXCEPT !.at = "publishing",
                                    !.number = Len(executions[p]) + 1, !.retry = r]
      BY <1>0, <1>2, <2>1 DEF Count, TypeOK
    <2>4. Numbered(x)
      <3>1. CASE x = NoWork  BY <3>1, NoneTypes DEF Numbered
      <3>2. CASE x = [publisher[w] EXCEPT !.at = "publishing", !.number = 1]
        BY <1>0, <1>2, <3>2 DEF Count, TypeOK, Numbered
      <3>3. CASE /\ executions[p] # <<>> /\ r # 0
                 /\ x = [publisher[w] EXCEPT !.at = "publishing",
                            !.number = Len(executions[p]) + 1, !.retry = r]
        <4>1. r = Len(executions[p])  BY <2>1, <2>2, <3>3, NewestRetry
        <4>2. Len(executions[p]) \in Nat  BY <1>0, <2>2 DEF TypeOK
        <4>3. x.at = "publishing" /\ x.number = Len(executions[p]) + 1 /\ x.retry = r
          BY <1>0, <3>3 DEF TypeOK
        <4> QED  BY <4>1, <4>2, <4>3 DEF Numbered
      <3> QED  BY <2>3, <3>1, <3>2, <3>3
    <2>5. \A v \in Publishers : Numbered(publisher'[v])  BY <2>3, <2>4, WorkerMoves
    <2> QED  BY <1>2, <2>5, RowsStay DEF Count, files
  <1>3. CASE Push(w)
    <2>1. PICK p, x : p = publisher[w].plan /\ x = [publisher[w] EXCEPT !.at = "pushed"]
      OBVIOUS
    <2>2. publisher' = [publisher EXCEPT ![w] = x] /\ publisher[w].at = "publishing"
      BY <1>3, <2>1 DEF Push
    <2>3. x.at = "pushed" /\ x.number = publisher[w].number /\ x.retry = publisher[w].retry
      BY <1>0, <2>1 DEF TypeOK
    <2>4. \A v \in Publishers : Numbered(publisher'[v])
      BY <1>0, <2>2, <2>3, WorkerMoves DEF Numbered
    <2>5. registry' = [registry EXCEPT ![p] = @ \cup {"whole"}]
      BY <1>3, <2>1 DEF Push, Staged
    <2>6. \A q \in Plans : ReceiptsAgree(q)'
      <3>1. \A q \in Plans : registry'[q] \subseteq {"whole"}
        BY <1>0, <2>5 DEF PublicationInv, ReceiptsAgree, TypeOK
      <3>2. UNCHANGED <<executions, retries, job>>  BY <1>3 DEF Push
      <3> QED  BY <3>1, <3>2 DEF PublicationInv, ReceiptsAgree, Unsuccessful
    <2> QED  BY <2>4, <2>6 DEF PublicationInv
  <1>4. ASSUME NEW ok \in BOOLEAN, Complete(w, ok)
        PROVE  PublicationInv'
    <2>1. PICK p, n, x : /\ p = publisher[w].plan /\ n = publisher[w].number
                         /\ x = [ok |-> ok, retry |-> publisher[w].retry]
      OBVIOUS
    <2>2. publisher' = [publisher EXCEPT ![w] = NoWork] /\ UNCHANGED <<retries, registry>>
      BY <1>4 DEF Complete, files
    <2>3. Numbered(NoWork)  BY NoneTypes DEF Numbered
    <2>4. \A v \in Publishers : Numbered(publisher'[v])  BY <2>2, <2>3, WorkerMoves
    <2>5. CASE Owns(w, p) /\ n = Len(executions[p]) + 1
      <3>1. p \in Plans  BY <1>0, <1>4, <2>1 DEF Complete, TypeOK
      <3>2. publisher[w].retry \in Nat /\ n \in Nat /\ n # 0 /\ publisher[w].retry = n - 1
        BY <1>0, <1>4, <2>1 DEF Complete, TypeOK, Numbered
      <3>3. x.ok = ok /\ x.retry = n - 1 /\ x \in Attempt
        BY <2>1, <3>2 DEF Attempt
      <3>4. /\ executions' = [executions EXCEPT ![p] = Append(@, x)]
            /\ job' = [job EXCEPT ![p] = [NoJob EXCEPT !.status = IF ok THEN "succeeded" ELSE "failed"]]
        BY <1>4, <2>1, <2>5 DEF Complete
      <3>5. /\ \A q \in Plans : q # p => job'[q] = job[q]
            /\ job'[p].status = IF ok THEN "succeeded" ELSE "failed"
        BY <1>0, <3>1, <3>4 DEF TypeOK, NoJob
      <3>6. job[p].status = "running"  BY <2>5 DEF Owns
      <3> QED  BY <2>2, <2>4, <2>5, <3>1, <3>2, <3>3, <3>4, <3>5, <3>6, ReceiptAgrees
    <2>6. CASE ~(Owns(w, p) /\ n = Len(executions[p]) + 1)
      <3>1. UNCHANGED <<executions, job>>  BY <1>4, <2>1, <2>6 DEF Complete
      <3> QED  BY <2>2, <2>4, <3>1, RowsStay
    <2> QED  BY <2>5, <2>6
  <1>5. CASE PublisherCrashes(w)
    <2>1. publisher' = [publisher EXCEPT ![w] = NoWork]  BY <1>5 DEF PublisherCrashes
    <2>2. Numbered(NoWork)  BY NoneTypes DEF Numbered
    <2>3. \A v \in Publishers : Numbered(publisher'[v])  BY <2>1, <2>2, WorkerMoves
    <2> QED  BY <1>5, <2>3, RowsStay DEF PublisherCrashes, files
  <1> QED  BY <1>1, <1>2, <1>3, <1>4, <1>5 DEF Publish

(* The retry is the next in number, and names the attempt that failed.      *)
LEMMA AuthorizeAgrees ==
    ASSUME PublicationInv, TypeOK', NEW p \in Plans, AuthorizeRetry(p)
    PROVE  PublicationInv'
  <1>0. ReceiptsAgree(p) /\ TypeOK  BY DEF PublicationInv
  <1>1. PICK s, e : s = retries[p] /\ e = executions[p]  OBVIOUS
  <1>2. /\ s \in Seq(Nat) /\ e \in Seq(Attempt) /\ Len(e) = Len(s) + 1
        /\ ~Last(e).ok /\ e # <<>>
        /\ retries' = [retries EXCEPT ![p] = Append(s, Len(e))]
        /\ job' = [job EXCEPT ![p] = [NoJob EXCEPT !.status = "queued"]]
        /\ UNCHANGED <<executions, registry, publisher>>
    BY <1>0, <1>1 DEF AuthorizeRetry, TypeOK, ReceiptsAgree, files
  <1>3. /\ retries'[p] = Append(s, Len(e)) /\ job'[p].status = "queued"
        /\ \A q \in Plans : q # p => retries'[q] = retries[q] /\ job'[q] = job[q]
    BY <1>0, <1>2 DEF TypeOK, NoJob
  <1>4. Unsuccessful(e)
    BY <1>0, <1>1, <1>2 DEF Unsuccessful, ReceiptsAgree, Last
  <1>5. /\ Len(Append(s, Len(e))) = Len(e)
        /\ \A i \in DOMAIN Append(s, Len(e)) : Append(s, Len(e))[i] = i
    <2>1. \A i \in DOMAIN s : s[i] = i  BY <1>0, <1>1 DEF ReceiptsAgree
    <2> QED  BY ONLY <1>2, <2>1
  <1>6. ReceiptsAgree(p)'
    BY <1>0, <1>1, <1>2, <1>3, <1>4, <1>5 DEF ReceiptsAgree, Unsuccessful
  <1>7. ASSUME NEW q \in Plans, q # p
        PROVE  ReceiptsAgree(q)'
    <2>1. retries'[q] = retries[q] /\ job'[q] = job[q]  BY <1>3, <1>7
    <2>2. ReceiptsAgree(q)  BY DEF PublicationInv
    <2> QED  BY <1>2, <2>1, <2>2 DEF ReceiptsAgree, Unsuccessful
  <1>8. \A w \in Publishers : Numbered(publisher'[w])
    BY <1>2 DEF PublicationInv, Numbered
  <1> QED  BY <1>6, <1>7, <1>8 DEF PublicationInv

LEMMA PublicationStep ==
    PublicationInv /\ [DistributionNext]_distributionVars => PublicationInv'
  <1> SUFFICES ASSUME PublicationInv, [DistributionNext]_distributionVars
               PROVE  PublicationInv'
    OBVIOUS
  <1>0. TypeOK /\ TypeOK'  BY DistributionNextType DEF PublicationInv
  <1>1. CASE UNCHANGED <<publication, registry>>
    <2>1. \A w \in Publishers : Numbered(publisher'[w])
      BY <1>1 DEF PublicationInv, Numbered, publication
    <2> QED  BY <1>0, <1>1, <2>1, RowsStay DEF publication
  <1>2. ASSUME NEW w \in Publishers, Publish(w) \/ PublisherCrashes(w)
        PROVE  PublicationInv'
    BY <1>0, <1>2, PublishAgrees
  <1>3. ASSUME NEW p \in Plans, AuthorizeRetry(p)
        PROVE  PublicationInv'
    BY <1>0, <1>3, AuthorizeAgrees
  <1>4. ASSUME NEW p \in Plans, LeaseExpires(p)
        PROVE  PublicationInv'
    <2>1. /\ job[p].status = "running" /\ job' = [job EXCEPT ![p].expired = TRUE]
          /\ UNCHANGED <<executions, retries, registry, publisher>>
      BY <1>4 DEF LeaseExpires, files
    <2>2. job'[p].status = "running" /\ \A q \in Plans : q # p => job'[q] = job[q]
      BY <1>0, <2>1 DEF TypeOK
    <2>3. \A w \in Publishers : Numbered(publisher'[w])
      BY <2>1 DEF PublicationInv, Numbered
    <2> QED  BY <1>0, <2>1, <2>2, <2>3, JobMoves
  <1>5. ASSUME NEW p \in Plans,
               \/ \E a \in Admins : Administer(a, p)
               \/ Prepare(p) \/ QueuePublication(p) \/ PreflightPublication(p)
               \/ BackoffElapses(p) \/ Release(p) \/ DamageArchive(p) \/ DamageFile(p)
        PROVE  UNCHANGED <<publication, registry>>
    <2>1. CASE \E a \in Admins : Administer(a, p)
      BY Zenon, <2>1 DEF Administer, CreatePlan, ReviewPlan, ProposePromotion, ReviewPromotion,
                         NextStage, Promote, files
    <2>2. CASE Prepare(p) \/ QueuePublication(p) \/ PreflightPublication(p)
      BY Zenon, <2>2 DEF Prepare, QueueBuild, Preflight, DryRun, Resolve, Acquire, Inspect,
                         QueuePublication, PreflightPublication, NextStage, Promote, files
    <2>3. CASE BackoffElapses(p) \/ Release(p) \/ DamageArchive(p) \/ DamageFile(p)
      BY Zenon, <2>3 DEF BackoffElapses, Release, DamageArchive, DamageFile, files
    <2> QED  BY <1>5, <2>1, <2>2, <2>3
  <1>6. ASSUME NEW h \in RetryHandlers, CreateRetry(h) \/ \E p \in Plans : ReadLatest(h, p)
        PROVE  UNCHANGED <<publication, registry>>
    BY Zenon, <1>6 DEF CreateRetry, ReadLatest, files
  <1>7. Build \/ Restart => UNCHANGED <<publication, registry>>
    BY Zenon DEF Build, List, Take, BuildFails, WriteFile, BuildSucceeds, RecordSuccess,
                 EndPass, Restart, files
  <1>8. UNCHANGED distributionVars => UNCHANGED <<publication, registry>>
    BY DEF distributionVars, files
  <1> QED  BY <1>1, <1>2, <1>3, <1>4, <1>5, <1>6, <1>7, <1>8 DEF DistributionNext

(* No artifact is published again but by a retry that was authorised for    *)
(* the attempt before, jobs agree with their receipts, and what reaches the *)
(* registry is what was built, for any number of publishers that stall past *)
(* a lease or crash (distribution_artifact_publication_execution_store.go). *)
THEOREM AuthorisedPublications == DistributionSpec => []PublicationsAreAuthorised
  <1>1. DistributionInit => PublicationInv
    <2> SUFFICES ASSUME DistributionInit
                 PROVE  PublicationInv
      OBVIOUS
    <2>1. TypeOK  BY DistributionInitType
    <2>2. \A p \in Plans : ReceiptsAgree(p)
      BY DEF DistributionInit, ReceiptsAgree, NoJob
    <2>3. \A w \in Publishers : Numbered(publisher[w])
      BY NoneTypes DEF DistributionInit, Numbered
    <2> QED  BY <2>1, <2>2, <2>3 DEF PublicationInv
  <1>2. PublicationInv => PublicationsAreAuthorised
    <2> SUFFICES ASSUME PublicationInv, NEW p \in Plans
                 PROVE  /\ \A k \in DOMAIN executions[p] :
                              /\ IF k = 1 THEN executions[p][k].retry = 0
                                 ELSE /\ executions[p][k].retry # 0
                                      /\ retries[p][executions[p][k].retry] = k - 1
                              /\ executions[p][k].ok => k = Len(executions[p])
                        /\ job[p].status \in {"succeeded", "failed"} =>
                              /\ executions[p] # <<>>
                              /\ Last(executions[p]).ok = (job[p].status = "succeeded")
                        /\ job[p].status \in {"queued", "running"} =>
                              Len(executions[p]) = Len(retries[p])
                        /\ registry[p] \subseteq {"whole"}
      BY DEF PublicationsAreAuthorised
    <2>1. ReceiptsAgree(p)  BY DEF PublicationInv
    <2>2. /\ executions[p] \in Seq(Attempt) /\ retries[p] \in Seq(Nat)
          /\ job[p].status \in {"none", "queued", "running", "succeeded", "failed"}
      BY DEF PublicationInv, TypeOK
    <2>3. Len(executions[p]) <= Len(retries[p]) + 1
      BY <2>1, <2>2 DEF ReceiptsAgree
    <2>4. ASSUME NEW k \in DOMAIN executions[p]
          PROVE  /\ executions[p][k].retry = k - 1 /\ k \in Nat \ {0}
                 /\ k # 1 => k - 1 \in DOMAIN retries[p] /\ retries[p][k - 1] = k - 1
      <3>1. executions[p][k].retry = k - 1 /\ k \in 1 .. Len(executions[p])
        BY <2>1, <2>2 DEF ReceiptsAgree
      <3>2. k # 1 => k - 1 \in 1 .. Len(retries[p])  BY <2>2, <2>3, <3>1
      <3> QED  BY <2>1, <2>2, <3>1, <3>2 DEF ReceiptsAgree
    <2>5. \A k \in DOMAIN executions[p] :
              IF k = 1 THEN executions[p][k].retry = 0
              ELSE /\ executions[p][k].retry # 0
                   /\ retries[p][executions[p][k].retry] = k - 1
      BY <2>4
    <2>6. job[p].status \in {"succeeded", "failed"} => executions[p] # <<>>
      BY <2>1, <2>2 DEF ReceiptsAgree
    <2> QED  BY <2>1, <2>5, <2>6 DEF ReceiptsAgree
  <1> QED  BY <1>1, <1>2, PublicationStep, PTL DEF DistributionSpec

=============================================================================
