---------------------- MODULE MCPackageConfiguration ----------------------
EXTENDS PackageConfiguration, TLC

CONSTANTS ann, bob, cyn, g1

(* Bob was given the role of an operator by hand; he may use the wizard.    *)
Roles == ann :> "admin" @@ bob :> "operator" @@ cyn :> "group_owner"
MCRolesIn == [u \in Users |-> g1 :> IF u = ann THEN {} ELSE {"group_owner"}]

otlp == <<"otlp", 0>>    second == <<"otlp", 2>>    traces == <<"traces", 0>>

In(layout, f) == [of |-> f, layout |-> layout]
Pipeline(r, p, e) == [receivers |-> r, processors |-> p, exporters |-> e]
Line(r, p, e) == In("canonical", traces :> Pipeline(r, p, e))

MCDefault == "receivers" :> In("canonical", otlp :> {"grpc", "http"})
             @@ "service_pipelines" :> Line(<<otlp>>, <<>>, <<>>)

(* A collector with two receivers of one type, in an order of its own, and  *)
(* with a processor that no pipeline uses.                                  *)
Running ==
    "receivers" :> In("own", otlp :> {"grpc"} @@ second :> {"http"})
    @@ "processors" :> In("own", <<"batch", 2>> :> {"timeout=9s"})
    @@ "exporters" :> In("canonical", otlp :> {"endpoint=a"})
    @@ "service_pipelines" :> Line(<<otlp, second>>, <<>>, <<otlp>>)
    @@ Other :> [of |-> {"vendor"}, layout |-> "canonical"]

Report(d) == [collector |-> TRUE, identity |-> {g1}, matches |-> {g1}, stable |-> TRUE,
              accepts |-> TRUE, reports |-> TRUE, effective |-> d]
MCReports == {Report(Running)}

Labelled(s, v) == s :> [root |-> s, value |-> v]
MCEdits == {Labelled("receivers", In("canonical", otlp :> {"grpc"} @@ second :> {})),
            Labelled("exporters", In("canonical", otlp :> {"endpoint=b"}))
                @@ Labelled("service_pipelines", Line(<<otlp>>, <<>>, <<otlp>>)),
            "service_pipelines" :> [root |-> "receivers", value |-> MCDefault["receivers"]],
            "receivers" :> Blank}
MCTexts == {Running}
MCValue == "k1" :> "v1"

Pattern(id, setting) == [kind |-> "pattern", id |-> id, receiver |-> "otlp",
                         signals |-> {"traces"}, setting |-> setting]
Block(id, section, name, setting, required) ==
    [kind |-> "block", id |-> id, section |-> section, name |-> name, order |-> 1,
     signals |-> {"traces"}, setting |-> setting, required |-> required]
MCShipped == {Pattern("p1", {"grpc", "http"}),
              Block("b1", "processors", <<"batch", 0>>, {"timeout=5s"}, TRUE)}
MCOffered == {Pattern("p1", {"grpc"}),
              Block("b1", "processors", <<"batch", 0>>, {"timeout=5s"}, TRUE),
              [kind |-> "destination", id |-> "d1", exporter |-> otlp,
               setting |-> {"endpoint=c", "k1"}, organization |-> FALSE, groups |-> {g1}]}
MCPublishable == {Block("b2", "extensions", <<"zpages", 0>>, {}, FALSE)}

(* A package that leaves its receivers to the groups.                       *)
Baseline == [s \in DOMAIN Running \ {Other} |-> Running[s]]
MCDefinitions == {[baseline |-> Baseline, editable |-> {"receivers"}, artifact |-> TRUE]}
MCOverlays == {"receivers" :> [root |-> "none", value |-> In("own", otlp :> {} @@ second :> {})]
                   @@ "exporters" :> Blank,
               Labelled("exporters", In("canonical", otlp :> {"endpoint=b"}))}
===========================================================================
