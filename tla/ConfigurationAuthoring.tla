---------------------- MODULE ConfigurationAuthoring ----------------------
(***************************************************************************)
(* How versions of a group's configuration come to be (groups.go,          *)
(* section_editor.go, configuration_templates.go, blueprints.go,           *)
(* migration*.go and group_secrets.go): written in the section editor,     *)
(* made from a template, generated from the catalog of the Builder, or     *)
(* migrated from a running collector through the pages of a wizard.        *)
(*                                                                         *)
(* The wizard keeps nothing on the server: every request brings the page   *)
(* that the one before answered, however old.  The editor and the last     *)
(* request of the wizard read versions, policies and reports in one step   *)
(* and write in another.  Meanwhile administrators delegate sections and   *)
(* take them back, secrets and the catalog change, collectors report.      *)
(***************************************************************************)
EXTENDS ConfigurationDocument, Authorization

CONSTANTS
    Users, Role,         \* the users and the role of each one's session
    Groups, RolesIn,     \* the groups, the roles of each user in each
    Enabled,             \* the groups that are enabled
    Agents, Reports,     \* collectors and what one may report
    Default,             \* the document of a group without versions
    Edits, Texts,        \* what a user types: in the editor, in a template
    ConfigNames, Versions,  \* names and versions a user enters
    Keys, Value,         \* the secrets a document may refer to, what each stands for
    Shipped,             \* the patterns and blocks that come with FleetAMP
    Offered, Publishable,  \* the catalog at first, what may be published in it
    Handlers,            \* HTTP requests that run at once
    Migrants,            \* the users that open the wizard: a bound
    Policed,             \* the sections whose policy changes: a bound
    MaxRows,             \* bounds the versions and templates
    MaxChanges           \* bounds the changes of the world

None == "none"
Custom == "custom"
NoBase == [group |-> None, name |-> None, version |-> 0, content |-> Default]
NoDocument == [s \in {} |-> {}]

Catalogued == Offered \cup Publishable \cup Shipped

IsItem(i) ==
    /\ IsFiniteSet(i.setting)
    /\ i.kind = "pattern" => IsFiniteSet(i.signals)
    /\ i.kind = "block" => Number(i.name) \in Nat
    /\ i.kind = "destination" => Number(i.exporter) \in Nat

(* The fragments of a form that is not refused are sections of a document.  *)
IsForm(form) ==
    /\ DOMAIN form \subseteq Sections
    /\ WellPlaced(form) =>
          \A s \in DOMAIN form : form[s] # Blank => IsSection(s, form[s].value)

ASSUME AuthoringAssumption ==
    /\ Role \in [Users -> SessionRoles]
    /\ RolesIn \in [Users -> [Groups -> SUBSET STRING]] /\ Enabled \subseteq Groups
    /\ Migrants \subseteq Users /\ Policed \subseteq Sections
    /\ \A r \in Reports : "effective" \in DOMAIN r /\ IsDocument(r.effective)
    /\ IsDocument(Default) /\ \A d \in Texts : IsDocument(d)
    /\ \A edit \in Edits : IsForm(edit)
    /\ \A i \in Catalogued : IsItem(i)
    /\ \A i \in Shipped : i.kind # "destination"
    /\ MaxRows \in Nat /\ MaxChanges \in Nat

VARIABLES
    configurations, templates, history,   \* the tables
    policies,    \* the sections delegated to others than administrators
    secrets,     \* the secrets of each group
    catalog,     \* the patterns, blocks and destinations of the Builder
    reported,    \* the last report of each collector
    page,        \* the page of the wizard that each user has in front of them
    task,        \* what each handler is about to write
    delegated,   \* history: the sections that were ever delegated
    known,       \* history: the sections that nobody's policy stands between
    changes

vars  == <<configurations, templates, history, policies, secrets, catalog, reported, page,
           task, delegated, known, changes>>
world == <<policies, secrets, catalog, reported, delegated, changes>>

Idle == [does |-> "idle"]
Closed == [tab |-> "closed"]

---------------------------------------------------------------------------
(* Who may do what: the role of the session, then the roles in the group.   *)
(* A user whose session is an operator's may own groups.                    *)

May(u, area, action) == Authorized(Role[u], area, action)
Admin(u)        == Role[u] = "admin"
Visible(u)      == IF Admin(u) THEN Groups ELSE {g \in Groups : RolesIn[u][g] # {}}
HasRole(u, g, R) == Admin(u) \/ RolesIn[u][g] \cap R # {}
CanManage(u, g) == HasRole(u, g, OwningRoles)
MayEdit(u, g)   == May(u, "groups", "create_configuration") /\ HasRole(u, g, EditingRoles)

PermittedToOperators(u, before, after) ==                          \* mutant
    Role[u] \in {"admin", "operator"} \/ Changed(before, after) \subseteq policies
Permitted(u, before, after) ==
    \/ Admin(u)
    \/ /\ Role[u] \in {"group_owner", "operator"}
       /\ Changed(before, after) \subseteq policies

(* Secrets are referred to by features of settings.  A validation asks that *)
(* each exists and the pipelines resolve; a delivery puts their values in.  *)
References(d)  == Features(d) \cap Keys
Configured(g, d) == References(d) \subseteq secrets[g]
ConfiguredOnly(g, d) == Configured(g, d)                           \* mutant
Valid(g, d)    == Configured(g, d) /\ Resolves(d)

Materialize(d) ==
    LET resolved(setting) == {IF f \in Keys THEN Value[f] ELSE f : f \in setting}
    IN [s \in DOMAIN d |->
          IF s \in Components
          THEN [d[s] EXCEPT !.of = [n \in DOMAIN @ |-> resolved(@[n])]]
          ELSE d[s]]

---------------------------------------------------------------------------
(* Versions: rows that never change, identified by all they hold.           *)

Version(g, n, v, d) == [group |-> g, name |-> n, version |-> v, content |-> d]
Taken(g, n, v) ==
    \E c \in configurations : c.group = g /\ c.name = n /\ c.version = v

Room == Cardinality(configurations) + Cardinality(templates)
            + Cardinality({h \in Handlers : task[h] # Idle}) < MaxRows
Introduce(u, d) == known' = IF Admin(u) THEN known \cup Values(d) ELSE known
Becomes(h, v) == task[h] = Idle /\ task' = [task EXCEPT ![h] = v]

FormOf(d, edit) ==
    [s \in Sections |-> IF s \in DOMAIN edit THEN edit[s] ELSE Fragment(d, s)]

CreateConfiguration(h, u, g, base, n, v, edit) ==
    /\ MayEdit(u, g) /\ Room
    /\ base # NoBase => base \in configurations /\ base.group = g
    /\ LET baseline == base.content
           form     == FormOf(baseline, edit)
           content  == Compose(baseline, form)
       IN /\ WellPlaced(form)
          /\ base # NoBase => Changed(baseline, content) # {} /\ v # base.version
          /\ ~Taken(g, n, v)
          /\ Permitted(u, baseline, content) /\ Valid(g, content)
          /\ Becomes(h, [does |-> "put", row |-> Version(g, n, v, content)])
          /\ Introduce(u, content)
    /\ UNCHANGED <<configurations, templates, history, page, world>>

Put(h) ==
    /\ task[h].does = "put" /\ task' = [task EXCEPT ![h] = Idle]
    /\ configurations' = configurations \cup {task[h].row}
    /\ UNCHANGED <<templates, history, page, known, world>>

---------------------------------------------------------------------------
(* Templates (configuration_templates.go).  What their handlers read never  *)
(* changes, so that each is one step.                                       *)

AllowsGroup(t, g) == t.organization \/ g \in t.groups

KeepsTemplates(u) == May(u, "blueprints", "create") /\ Role[u] \in {"admin", "group_owner"}

CreateTemplate(u, content, organization, groups) ==
    /\ KeepsTemplates(u)
    /\ Room
    /\ \/ content \in Texts
       \/ \E c \in configurations : c.group \in Visible(u) /\ c.content = content
    /\ Resolves(content)
    /\ IF organization THEN Admin(u) /\ groups = {} ELSE groups # {} /\ groups \subseteq Visible(u)
    /\ templates' = templates \cup {[content |-> content, organization |-> organization,
                                     groups |-> groups]}
    /\ known' = known \cup Values(content)
    /\ UNCHANGED <<configurations, history, page, task, world>>

Instantiate(u, t, g, n, v) ==
    /\ KeepsTemplates(u)
    /\ Room /\ t \in templates /\ g \in Visible(u) /\ AllowsGroup(t, g)
    /\ Resolves(t.content)
    /\ configurations' = configurations \cup {Version(g, n, v, t.content)}
    /\ UNCHANGED <<templates, history, page, task, known, world>>

---------------------------------------------------------------------------
(* The Builder (blueprints.go).  No policy stands between it and a version: *)
(* an administrator published its exporters, the rest is the user's choice. *)

Kind(items, kind) == {i \in items : i.kind = kind}
Exports(items) ==
    {<<"exporters", [of |-> [n \in {i.exporter} |-> i.setting], layout |-> "canonical"]>> :
        i \in Kind(items, "destination")}

Generate(h, u, g, p, destination, asked, blocks, n, v) ==
    /\ May(u, "blueprints", "generate") /\ g \in Visible(u) \cap Enabled /\ Room
    /\ destination \in Kind(catalog, "destination") /\ AllowsGroup(destination, g)
    /\ p \in Kind(catalog, "pattern") /\ Wanted(p, asked) # {}
    /\ LET chosen  == {b \in Kind(catalog, "block") : b.required \/ b \in blocks}
           content == Generated(p, Wanted(p, asked), chosen, destination)
       IN /\ Valid(g, content)
          /\ Becomes(h, [does |-> "put", row |-> Version(g, n, v, content)])
          /\ known' = known \cup {x \in Values(content) : x[1] # "exporters"}
    /\ UNCHANGED <<configurations, templates, history, page, world>>

---------------------------------------------------------------------------
(* The wizard (migration.go).                                               *)

Collectors(u) ==
    {a \in Agents : /\ reported[a].collector
                    /\ Admin(u) \/ \E g \in Visible(u) \cap Enabled : g \in reported[a].identity}
Effective(a) == reported[a].effective

MayMigrate(u, g) == May(u, "migration", "post") /\ g \in Visible(u) \cap Enabled
Turn(u, p) == page' = [page EXCEPT ![u] = p]
              /\ UNCHANGED <<configurations, templates, history, task, known, world>>

(* A bound: each user opens the wizard once.                                *)
Import(u, g, a, n, v, pasted) ==
    /\ page[u] = Closed /\ MayMigrate(u, g)
    /\ IF a = None THEN pasted # NoDocument
       ELSE a \in Collectors(u) /\ pasted = NoDocument /\ Effective(a) # NoDocument
    /\ LET content == IF a = None THEN pasted ELSE Effective(a) IN
       Turn(u, [tab |-> "standardize", group |-> g, agent |-> a, name |-> n, version |-> v,
                imported |-> content, content |-> content, baseline |-> FALSE,
                pattern |-> None, adopted |-> {}])

StandardizePage(u, baseline) ==
    /\ page[u].tab = "standardize" /\ MayMigrate(u, page[u].group)
    /\ baseline => Names(page[u].content, "service_pipelines") # {}
    /\ Turn(u, [page[u] EXCEPT !.tab = "adoption", !.baseline = baseline,
                               !.content = Standardize(@, baseline)])

Ready(a, g) ==
    LET r == reported[a] IN
    /\ r.stable /\ r.accepts /\ r.reports
    /\ r.effective # NoDocument /\ g \in r.matches /\ g \in Enabled

ReviewAdoption(u) ==
    /\ page[u].tab = "adoption" /\ MayMigrate(u, page[u].group)
    /\ page[u].agent # None /\ page[u].agent \in Collectors(u)
    /\ Turn(u, [page[u] EXCEPT !.tab = "pattern-match"])

(* The patterns to match: those that are shipped if all were deleted.  One  *)
(* can be selected if its receiver is in the document.                      *)
Patterns == LET published == Kind(catalog, "pattern")
            IN IF published = {} THEN Kind(Shipped, "pattern") ELSE published
PatternIDs == {p.id : p \in Patterns}
PatternOf(id) == CHOOSE p \in Patterns : p.id = id
Selectable(id, d) == id = Custom \/ (id \in PatternIDs /\ Fits(d, PatternOf(id)))

Assessed(u, tab) ==
    /\ page[u].tab = tab /\ MayMigrate(u, page[u].group)
    /\ page[u].agent \in Collectors(u) /\ Ready(page[u].agent, page[u].group)

MatchPattern(u, id) ==
    /\ Assessed(u, "pattern-match") /\ Selectable(id, page[u].content)
    /\ Turn(u, [page[u] EXCEPT !.tab = "pattern-adopt", !.pattern = id])

(* The proposal is computed from the page and the pattern as it is now.     *)
Adopted(pg) == IF pg.pattern = Custom THEN {} ELSE {PatternOf(pg.pattern)}
Proposal(pg) ==
    IF pg.pattern = Custom THEN pg.content ELSE Adopt(pg.content, PatternOf(pg.pattern))

AdoptPattern(u) ==
    /\ Assessed(u, "pattern-adopt") /\ Selectable(page[u].pattern, page[u].content)
    /\ Turn(u, [tab |-> "confirm", of |-> page[u], proposal |-> Proposal(page[u])])

(* Confirmation computes it again: another proposal than the one on the     *)
(* page is shown instead, and must be confirmed in turn.                    *)
ConfirmAdoption(u) ==
    /\ page[u].tab = "confirm"
    /\ LET of == page[u].of IN
       /\ MayMigrate(u, of.group) /\ of.agent \in Collectors(u) /\ Ready(of.agent, of.group)
       /\ Selectable(of.pattern, of.content)
       /\ IF Proposal(of) = page[u].proposal
          THEN Turn(u, [of EXCEPT !.tab = "validate", !.content = Proposal(of),
                                  !.adopted = Adopted(of)])
          ELSE Turn(u, [page[u] EXCEPT !.proposal = Proposal(of)])

Candidate(u, pg) ==
    /\ Valid(pg.group, pg.content)
    /\ pg.agent \in Collectors(u) /\ Effective(pg.agent) # NoDocument
    /\ Permitted(u, Effective(pg.agent), pg.content)

Advance(u, from, to) ==
    /\ page[u].tab = from /\ MayMigrate(u, page[u].group) /\ Candidate(u, page[u])
    /\ Turn(u, [page[u] EXCEPT !.tab = to])

SaveMigration(h, u) ==
    /\ page[u].tab = "history" /\ Room
    /\ LET pg == page[u] IN
       /\ MayMigrate(u, pg.group) /\ CanManage(u, pg.group) /\ Candidate(u, pg)
       /\ pg.pattern \in PatternIDs \cup {Custom}
       /\ ~Taken(pg.group, pg.name, pg.version)
       /\ Becomes(h, [does |-> "save", page |-> pg,
                      row |-> Version(pg.group, pg.name, pg.version, pg.content)])
       /\ Introduce(u, pg.content)
    /\ UNCHANGED <<configurations, templates, history, page, world>>

(* One transaction, refused if the version is there already.                *)
Save(h) ==
    /\ task[h].does = "save" /\ task' = [task EXCEPT ![h] = Idle]
    /\ IF task[h].row \in configurations THEN UNCHANGED <<configurations, history>>
       ELSE /\ configurations' = configurations \cup {task[h].row}
            /\ history' = history \cup {[version |-> task[h].row, page |-> task[h].page]}
    /\ UNCHANGED <<templates, page, known, world>>

---------------------------------------------------------------------------
(* The rest of the world, each step counted against MaxChanges: policies,   *)
(* secrets and patterns are edited, collectors report; one that runs a      *)
(* version that was delivered reports its document.  A request that a       *)
(* restart cuts off is one whose last step is never taken.                  *)

Change == changes < MaxChanges /\ changes' = changes + 1
tables == <<configurations, templates, history, page, task>>

Delegation(s) == IF s \in policies THEN policies \ {s} ELSE policies \cup {s}
SetPolicy(s) ==
    /\ Change /\ policies' = Delegation(s)
    /\ delegated' = delegated \cup policies'
    /\ UNCHANGED <<secrets, catalog, reported, known, tables>>

SetSecret(g, k) ==
    /\ Change
    /\ secrets' = [secrets EXCEPT ![g] = IF k \in @ THEN @ \ {k} ELSE @ \cup {k}]
    /\ UNCHANGED <<policies, catalog, reported, delegated, known, tables>>

(* Rows are inserted, refused if the identity is taken, and deleted, never  *)
(* updated.  A visit to the page, which is not counted, inserts what is     *)
(* shipped and missing.                                                     *)
PublishItem(i) ==
    /\ Change /\ i.id \notin {j.id : j \in catalog}
    /\ catalog' = catalog \cup {i}
    /\ known' = known \cup Exports({i})
    /\ UNCHANGED <<policies, secrets, reported, delegated, tables>>

DeleteItem(i) ==
    /\ Change /\ catalog' = catalog \ {i}
    /\ UNCHANGED <<policies, secrets, reported, delegated, known, tables>>

Missing == {i \in Shipped : i.id \notin {j.id : j \in catalog}}
VisitCatalog ==
    /\ Missing # {} /\ catalog' = catalog \cup Missing
    /\ UNCHANGED <<policies, secrets, reported, delegated, known, changes, tables>>

CollectorReports(a, r) ==
    /\ Change /\ reported' = [reported EXCEPT ![a] = r]
    /\ known' = known \cup Values(r.effective)
    /\ UNCHANGED <<policies, secrets, catalog, delegated, tables>>

RunsVersion(a, c) ==
    /\ Change /\ c \in configurations /\ Configured(c.group, c.content)
    /\ reported' = [reported EXCEPT ![a].effective = Materialize(c.content)]
    /\ known' = known \cup Values(reported'[a].effective)
    /\ UNCHANGED <<policies, secrets, catalog, delegated, tables>>

Init ==
    /\ configurations = {} /\ templates = {} /\ history = {}
    /\ policies = DefaultDelegated /\ delegated = DefaultDelegated
    /\ secrets = [g \in Groups |-> Keys]
    /\ catalog = Offered
    /\ reported \in [Agents -> Reports]
    /\ page = [u \in Migrants |-> Closed]
    /\ task = [h \in Handlers |-> Idle]
    /\ known = Values(Default) \cup Exports(Offered)
               \cup UNION {Values(Effective(a)) : a \in Agents}
    /\ changes = 0

Writes(u) ==
    \E g \in Groups, n \in ConfigNames, v \in Versions :
        \/ \E h \in Handlers, base \in configurations \cup {NoBase}, edit \in Edits :
              CreateConfiguration(h, u, g, base, n, v, edit)
        \/ \E h \in Handlers, p \in Kind(catalog, "pattern"), d \in Kind(catalog, "destination") :
              \E asked \in SUBSET p.signals, blocks \in SUBSET Kind(catalog, "block") :
                  Generate(h, u, g, p, d, asked, blocks, n, v)
        \/ \E t \in templates : Instantiate(u, t, g, n, v)

Proceeds(u) ==
    \/ \E g \in Groups, n \in ConfigNames, v \in Versions :
          \/ \E a \in Agents : Import(u, g, a, n, v, NoDocument)
          \/ \E d \in Texts : Import(u, g, None, n, v, d)
    \/ \E baseline \in BOOLEAN : StandardizePage(u, baseline)
    \/ \E id \in PatternIDs \cup {Custom} : MatchPattern(u, id)
    \/ ReviewAdoption(u) \/ AdoptPattern(u) \/ ConfirmAdoption(u)
    \/ Advance(u, "validate", "preview") \/ Advance(u, "preview", "history")
    \/ \E h \in Handlers : SaveMigration(h, u)

Publishes(u) ==
    \E content \in Texts \cup {c.content : c \in configurations}, groups \in SUBSET Groups :
        \E organization \in BOOLEAN : CreateTemplate(u, content, organization, groups)

Changes ==
    \/ \E s \in Policed : SetPolicy(s)
    \/ \E g \in Groups, k \in Keys : SetSecret(g, k)
    \/ \E i \in Publishable : PublishItem(i)
    \/ \E i \in catalog : DeleteItem(i)
    \/ VisitCatalog
    \/ \E a \in Agents : \/ \E r \in Reports : CollectorReports(a, r)
                         \/ \E c \in configurations : RunsVersion(a, c)

Next ==
    \/ \E u \in Users : Writes(u) \/ Publishes(u)
    \/ \E u \in Migrants : Proceeds(u)
    \/ \E h \in Handlers : Put(h) \/ Save(h)
    \/ Changes

Spec == Init /\ [][Next]_vars

---------------------------------------------------------------------------
(* Properties.                                                              *)

(* A section that was never delegated is, in every version of every group,  *)
(* one that an administrator wrote, a collector reported, a template        *)
(* brought, the Builder filled in from the catalog or the default document  *)
(* has: no chain of edits and migrations by others makes a new one,         *)
(* whatever is delegated meanwhile.                                         *)
LockedSectionsStand ==
    \A c \in configurations : \A s \in Sections \ delegated : <<s, Section(c.content, s)>> \in known

(* Every version and every template is one that a collector can load.       *)
VersionsResolve ==
    /\ \A c \in configurations : Resolves(c.content)
    /\ \A t \in templates : Resolves(t.content)

(* A migrated version is the imported document but for what its user asked  *)
(* for: the one receiver that the pattern owns, which has the pattern's     *)
(* setting as it was confirmed and fits it no worse than before, and, if    *)
(* asked for, the processors of the baseline, first and last in their       *)
(* pipelines.                                                               *)
BaselineOnly(before, after) ==
    \A n \in DOMAIN before :
        /\ after[n].receivers = before[n].receivers /\ after[n].exporters = before[n].exporters
        /\ \E front \in {<<>>, <<Limiter>>}, back \in {<<>>, <<Batch>>} :
              after[n].processors = front \o before[n].processors \o back

MigrationKeeps ==
    \A r \in history :
        LET old == r.page.imported  new == r.version.content
            adopted == {<<"receivers", Target(old, p)>> : p \in r.page.adopted}
            lines == {<<"service_pipelines", n>> : n \in Names(old, "service_pipelines")}
            asked == adopted \cup IF r.page.baseline THEN lines ELSE {}
            added == IF r.page.baseline THEN {<<"processors", Limiter>>, <<"processors", Batch>>}
                     ELSE {}
        IN /\ Differences(old, new) \subseteq asked
           /\ Differences(new, old) \subseteq asked \cup added
           /\ IF r.page.baseline
              THEN BaselineOnly(Mapping(old, "service_pipelines"), Mapping(new, "service_pipelines"))
              ELSE Mapping(old, "service_pipelines") = Mapping(new, "service_pipelines")
           /\ \A p \in r.page.adopted :
                 /\ Mapping(new, "receivers")[Target(old, p)] = p.setting
                 /\ Score(new, p) >= Score(old, p)
===========================================================================
