----------------------- MODULE PackageConfiguration -----------------------
(***************************************************************************)
(* Versions of a group's configuration that come out of a collector        *)
(* package (distributions.go, distribution_previews.go and the package     *)
(* distributions), beside those of ConfigurationAuthoring.                 *)
(*                                                                         *)
(* A package is published with a baseline and the sections that groups may *)
(* edit, and never changes.  Once an artifact of it is released, a user    *)
(* composes an overlay of a group with the baseline into a preview, which  *)
(* never changes either; the preview becomes, in one transaction with the  *)
(* request to deploy it, a version of the group.  The request is read      *)
(* against previews, releases, secrets and reports in one step and written *)
(* in another.                                                             *)
(***************************************************************************)
EXTENDS ConfigurationAuthoring

CONSTANTS
    Definitions,   \* the packages an administrator may publish
    Overlays,      \* what a user types for the sections of a group
    Submitters,    \* HTTP requests that submit previews, at once
    MaxPreviews    \* a bound on the previews

ASSUME PackageAssumption ==
    /\ \A p \in Definitions :
          p.editable \subseteq Sections /\ p.artifact \in BOOLEAN /\ IsDocument(p.baseline)
    /\ \A overlay \in Overlays : IsForm(overlay)
    /\ MaxPreviews \in Nat

VARIABLES
    packages,    \* the packages published
    released,    \* those with a release of an artifact that was built here
    previews,    \* the previews
    submitting,  \* what each submitter is about to write
    handoffs     \* the previews that became versions, with those versions

packageVars == <<packages, released, previews, submitting, handoffs>>
allVars == <<vars, packageVars>>

PackageInit ==
    /\ Init /\ packages = {} /\ released = {} /\ previews = {} /\ handoffs = {}
    /\ submitting = [h \in Submitters |-> Idle]

(* The baseline is validated, without the secrets of any group.             *)
PublishPackage(u, p) ==
    /\ May(u, "packages", "publish")
    /\ p \in Definitions \ packages /\ Resolves(p.baseline)
    /\ packages' = packages \cup {p}
    /\ known' = known \cup Values(p.baseline)
    /\ UNCHANGED <<tables, world, released, previews, submitting, handoffs>>

(* At the end of the build pipeline; one release for a package.             *)
ReleasePackage(p) ==
    /\ Change /\ p \in packages \ released
    /\ released' = released \cup {p}
    /\ UNCHANGED <<tables, policies, secrets, catalog, reported, delegated, known, packages,
                   previews, submitting, handoffs>>

(* A release counts, or else an artifact that the package was published     *)
(* with.                                                                    *)
Evidence(p) == IF p \in released THEN "released" ELSE "published"
Finalized(p) == p \in released \/ p.artifact

Filled(overlay) == {s \in DOMAIN overlay : overlay[s] # Blank}

OverlayAllowed(p, overlay) == Filled(overlay) \subseteq p.editable /\ WellPlaced(overlay)

(* A bound: the wizard and previews are not explored together.              *)
NoWizard == \A u \in Migrants : page[u] = Closed

(* An empty field of the form changes nothing.  Policies of sections are    *)
(* not asked: what a package leaves to groups is theirs.                    *)
ConfigurePackage(u, g, p, overlay) ==
    /\ May(u, "packages", "configure") /\ g \in Visible(u)
    /\ p \in packages /\ Finalized(p) /\ OverlayAllowed(p, overlay)
    /\ Cardinality(previews) < MaxPreviews /\ NoWizard
    /\ LET form    == [s \in Filled(overlay) |-> overlay[s]]
           content == Compose(p.baseline, form)
       IN /\ Resolves(content)
          /\ previews' = previews \cup
                {[package |-> p, evidence |-> Evidence(p), group |-> g, content |-> content]}
          /\ known' = known \cup {x \in Values(content) : x[1] \in p.editable}
    /\ previews' # previews
    /\ UNCHANGED <<tables, world, packages, released, submitting, handoffs>>

Reviewer(v, u, g) ==
    /\ v # u
    /\ CASE Admin(u) -> Admin(v) \/ RolesIn[v][g] \cap ReviewingRoles # {}
         [] Role[u] = "group_owner" -> Admin(v)
         [] OTHER -> FALSE

(* A target that is connected and does not run the version already is left  *)
(* to the environment: an agent of the group that takes configurations.     *)
HasTarget(g) == g \in Enabled /\ \E a \in Agents : g \in reported[a].identity /\ reported[a].accepts

SubmitPreview(h, u, w, n, v) ==
    /\ May(u, "packages", "submit") /\ w \in previews /\ w.group \in Visible(u)
    /\ w.package \in released => w.evidence = "released"
    /\ \A x \in handoffs : x.preview # w
    /\ Configured(w.group, w.content) /\ HasTarget(w.group)
    /\ \E r \in Users : Reviewer(r, u, w.group)
    /\ submitting[h] = Idle
    /\ submitting' = [submitting EXCEPT ![h] = [does |-> "handoff", preview |-> w,
                                                row |-> Version(w.group, n, v, w.content)]]
    /\ UNCHANGED <<vars, packages, released, previews, handoffs>>

(* One transaction: the version, unless it is there, the request, and the   *)
(* receipt, of which a preview and a version have one each; a second one    *)
(* takes everything back.                                                   *)
VersionReceivable(w, c) == \A x \in handoffs : x.version # c       \* mutant
Receivable(w, c) == \A x \in handoffs : x.preview # w /\ x.version # c

Handoff(h) ==
    /\ submitting[h] # Idle /\ submitting' = [submitting EXCEPT ![h] = Idle]
    /\ LET w == submitting[h].preview  c == submitting[h].row IN
       IF Receivable(w, c)
       THEN /\ configurations' = configurations \cup {c}
            /\ handoffs' = handoffs \cup {[preview |-> w, version |-> c]}
       ELSE UNCHANGED <<configurations, handoffs>>
    /\ UNCHANGED <<templates, history, page, task, known, world, packages, released, previews>>

PackageNext ==
    \/ Next /\ (previews = {} \/ NoWizard') /\ UNCHANGED packageVars
    \/ \E u \in Users :
          \/ \E p \in Definitions : PublishPackage(u, p)
          \/ \E g \in Groups, p \in packages, overlay \in Overlays :
                ConfigurePackage(u, g, p, overlay)
          \/ \E h \in Submitters, w \in previews, n \in ConfigNames, v \in Versions :
                SubmitPreview(h, u, w, n, v)
    \/ \E p \in packages : ReleasePackage(p)
    \/ \E h \in Submitters : Handoff(h)

PackageSpec == PackageInit /\ [][PackageNext]_allVars

---------------------------------------------------------------------------
(* Properties.                                                              *)

(* A preview becomes one version at most, however many requests submit it   *)
(* at once, and a version comes of one preview; it is, for good, what was   *)
(* previewed, and the sections that its package locks are the package's.    *)
HandoffsAreExact ==
    \A x \in handoffs :
        /\ x.version \in configurations /\ x.preview \in previews
        /\ x.version.content = x.preview.content /\ x.version.group = x.preview.group
        /\ \A s \in Sections \ x.preview.package.editable :
              Section(x.version.content, s) = Section(x.preview.package.baseline, s)
        /\ \A y \in handoffs : x.preview = y.preview \/ x.version = y.version => x = y
===========================================================================
