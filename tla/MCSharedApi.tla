---------------------------- MODULE MCSharedApi ----------------------------
(* Small programs for SharedApi: what two threads do with one SearchAPI or *)
(* with one each.                                                          *)
EXTENDS SharedApi

Map(query, start, size, key, required, specific) ==
    [query |-> query, start |-> start, size |-> size, key |-> key,
     required |-> required, auto |-> TRUE, zero |-> FALSE, specific |-> specific]

PubMedProvider ==
    [name |-> "pubmed", url |-> [site |-> "ncbi", path |-> "esearch"], delay |-> 20,
     size |-> 20, env |-> "PUBMED_API_KEY",
     map |-> Map("term", "retstart", "retmax", "api_key", TRUE, "db" :> "pubmed")]
EFetchProvider ==
    [PubMedProvider EXCEPT !.name = "pubmedefetch", !.url.path = "efetch",
        !.map = Map("term", None, "retmax", "api_key", TRUE,
                    "db" :> "pubmed" @@ "id" :> None @@ "retmode" :> "xml")]
PlosProvider ==
    [name |-> "plos", url |-> [site |-> "plos", path |-> "search"], delay |-> 61,
     size |-> 50, env |-> None, map |-> Map("q", "start", "rows", None, FALSE, NoFields)]
SpringerProvider ==
    [name |-> "springernature", url |-> [site |-> "springernature", path |-> "meta"], delay |-> 20,
     size |-> 25, env |-> "SPRINGER_NATURE_API_KEY",
     map |-> Map("q", "s", "p", "api_key", TRUE, NoFields)]
Mirror == [PlosProvider EXCEPT !.url = [site |-> "mirror", path |-> "search"],
                               !.map.query = "query"]
Extra  == [Mirror EXCEPT !.name = "extra", !.url.site = "extra"]

Names == "pubmed" :> "pubmed" @@ "pubmedefetch" :> "pubmedefetch" @@ "plos" :> "plos"
         @@ "PLOS" :> "plos" @@ "springernature" :> "springernature" @@ "extra" :> "extra"
         @@ "ncbi" :> "ncbi" @@ "mirror" :> "mirror" @@ None :> None
Registry == [n \in {"pubmed", "pubmedefetch", "plos", "springernature"} |->
                CASE n = "pubmed" -> PubMedProvider [] n = "pubmedefetch" -> EFetchProvider
                  [] n = "plos" -> PlosProvider [] OTHER -> SpringerProvider]
AllProviders == Range(Registry) \cup {Mirror, Extra}
Keys  == "ncbi-key" :> "ncbi" @@ "springer-key" :> "springernature"
Env   == "SPRINGER_NATURE_API_KEY" :> "springer-key"
Two   == {"t1", "t2"}
AnyAnswer == {"found", "empty", "error"}
NoNames   == {"pubmed"}

UserApi ==
    [config |-> [provider |-> "pubmed", url |-> PubMedProvider.url, size |-> 20, delay |-> 20,
                 key |-> "ncbi-key", params |-> "db" :> "pubmed"],
     map |-> PubMedProvider.map, query |-> "q", limiter |-> None]

Search   == Page(2)
Raw(extra) == [Page(NoPage) EXCEPT !.extra = extra, !.delay = 10]
At(endpoint) == [Search EXCEPT !.endpoint = endpoint]
Close    == [op |-> "close"]
Workflow == [op |-> "workflow"]
Add      == [op |-> "add"]
With(name, over, query) ==
    [op |-> "open", how |-> "parameters", name |-> name, over |-> over, query |-> query]
Defaults(name) == [With(name, NoOverrides, None) EXCEPT !.how = "defaults"]
Temporary(p) == [op |-> "temporary", provider |-> p]
Elsewhere == [NoOverrides EXCEPT !.url = [site |-> "mirror", path |-> "other"]]
Smaller   == [NoOverrides EXCEPT !.size = 5, !.params = "db" :> "pmc"]

On(a, p, b, q) == [uses |-> "t1" :> a @@ "t2" :> b, todo |-> "t1" :> p @@ "t2" :> q]

Programs ==
    {On("shared", <<With("springernature", NoOverrides, "r"), Search, Close, Search>>,
        "shared", <<Defaults("PLOS"), Search, Close>>),
     On("shared", <<With("", Smaller, None), With("plos", NoOverrides, None), Search, Close,
                    With("", Elsewhere, None), Search, Close, Search, Close>>,
        "shared", <<[Search EXCEPT !.delay = 10], [Search EXCEPT !.extra = "db" :> "pmc"], Raw("id" :> "7")>>),
     On("t1", <<Raw(NoFields), Raw("id" :> "7"), At("einfo"), [Page(0) EXCEPT !.endpoint = "einfo"]>>,
        "t2", <<With("plos", NoOverrides, None), At("schema"), [Raw(NoFields) EXCEPT !.endpoint = "schema"], Close>>),
     On("shared", <<Workflow, Search>>,
        "shared", <<With("springernature", NoOverrides, "r"), Search, Close>>),
     On("t1", <<Workflow, Workflow>>, "t2", <<Workflow>>),
     On("t1", <<Temporary(Mirror), Search>>, "t2", <<Temporary(Mirror), With("plos", NoOverrides, None), Search, Close>>),
     On("t1", <<Temporary(Extra), Add, Search>>, "t2", <<Temporary(Extra), Add>>),
     On("t1", <<Add, Workflow>>, "shared", <<Add, Search>>)}
=============================================================================
