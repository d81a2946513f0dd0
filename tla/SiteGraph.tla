------------------------------ MODULE SiteGraph ------------------------------
(****************************************************************************)
(* The nodes that buildRegistry declares for the construction of the site   *)
(* (internal/sitegen, graphe.go and graphe_sections.go), in the order of    *)
(* their declaration, and for each what its body does that others can see:  *)
(*   deps      the declared dependencies                                    *)
(*   asks      the results it takes with dep[T]: a zero for any other node  *)
(*   sections  the sections whose pages it writes                           *)
(*   reads, writes  the data that nodes share by pointers, beside results:  *)
(*     "mandates"  Term and Terms of the persons that identite returns      *)
(*     "votes"     Votes of the same persons                                *)
(*     "topics"    the families of topics and the bodies of the documents   *)
(*     "manifest"  newCache.Sections                                        *)
(* The result of a load is not modelled.                                    *)
(****************************************************************************)
EXTENDS Sequences, SequencesExt, FiniteSets, TLC

Load(name, deps) == [name |-> name, deps |-> deps, asks |-> deps, sections |-> {},
                     reads |-> {}, writes |-> {}]
Page(name, deps, section) == [Load(name, deps) EXCEPT !.sections = {section}]

\* one section, of the name of its node
OwnPage(name, deps) == Page(name, deps, name)

identity == <<[Load("identite", {}) EXCEPT !.writes = {"mandates"}]>>

firstLoads == <<Load("territoires", {}), Load("derniers-scrutins", {}), Load("seuils", {}),
                Load("docs", {})>>

plainPages ==
    <<OwnPage("frise", {}), OwnPage("dette", {}), OwnPage("chomage", {}),
      Load("richesse-data", {}), OwnPage("richesse", {"richesse-data"}),
      OwnPage("dividendes", {}),
      Load("agriculture-data", {}), OwnPage("agriculture", {"agriculture-data"}),
      Load("social-data", {})>>

parliaments ==
    <<Load("europe", {}), Page("europe-page", {"europe"}, "europe"),
      Load("themes", {"identite"}), Page("themes-page", {"themes"}, "themes"),
      Load("senat", {"identite"}), Page("senat-page", {"senat"}, "senat")>>

\* vieillesse waits for territoires, of which it takes nothing.
agesAndSecurity ==
    <<[OwnPage("vieillesse", {"territoires"}) EXCEPT !.asks = {}],
      Page("vieillesse-carte", {"vieillesse"}, "vieillesse"),
      OwnPage("jeunesse", {}), Page("jeunesse-carte", {"jeunesse"}, "jeunesse"),
      Load("securite", {}), Page("securite-page", {"securite"}, "securite"),
      Load("securite-civile", {}),
      Page("securite-civile-page", {"securite-civile"}, "securite-civile")>>

\* loadHome weighs the families of topics.
homeAndElection ==
    <<[Load("accueil-data", {"territoires", "securite-civile"}) EXCEPT !.writes = {"topics"}],
      Load("fonctions", {"accueil-data"}),
      Load("election2027", {"identite"}), Load("echelle-candidats", {"identite"}),
      Page("election2027-page", {"election2027", "echelle-candidats"}, "election2027"),
      Load("gouvernement", {"identite"}),
      Page("gouvernement-page", {"gouvernement"}, "gouvernement")>>

\* lieux locates the mandates of the persons that identite returned.
authorities ==
    <<Load("collectivites-data", {"identite"}),
      Page("collectivites-page", {"collectivites-data", "territoires"}, "collectivites"),
      Page("collectivites-cartes", {"territoires"}, "collectivites"),
      [Load("lieux", {"identite", "collectivites-data"}) EXCEPT
          !.reads = {"mandates"}, !.writes = {"mandates"}],
      Load("fond-situation", {"lieux", "collectivites-data"}),
      Load("parrainages-maires", {"lieux", "fond-situation", "identite"})>>

municipalities ==
    [OwnPage("communes", {"lieux", "fond-situation", "identite", "collectivites-data",
                          "parrainages-maires"}) EXCEPT !.writes = {"manifest"}]

localPages ==
    <<municipalities,
      [Page("circonscriptions-data", {"lieux", "identite", "fond-situation"},
            "circonscriptions") EXCEPT !.reads = {"mandates"}],
      Page("collectivites-pages-locales",
           {"collectivites-data", "lieux", "fond-situation", "circonscriptions-data"},
           "collectivites")>>

budgetPages ==
    <<Load("budget-data", {}), Load("secteurs", {}), Load("circuit-canaux", {"identite"}),
      OwnPage("budget", {"budget-data", "secteurs", "circuit-canaux"}),
      OwnPage("social", {"social-data"})>>

whoPages ==
    <<OwnPage("qui-decide", {"identite"}),
      Load("sources-page", {}), Load("sources-stats", {}),
      OwnPage("sources", {"sources-page", "sources-stats"}),
      [OwnPage("candidats", {"identite"}) EXCEPT !.reads = {"mandates"}],
      OwnPage("partis", {"identite"}),
      OwnPage("assemblee", {"identite", "derniers-scrutins"})>>

\* declared in the random order of a map: no dependency tells one from another
htmlLoaders ==
    <<"taux-pauvrete-serie", "depense-environnementale", "emploi-total-salarie",
      "depenses-fiscales-tendance", "ports-francais", "ports-europe", "report-modal-port",
      "report-modal-conteneurs", "carte-semi-conducteurs", "ecart-prix-dom",
      "alimentaire-dom", "sipri", "historique-immigration", "age-depart-retraite",
      "taux-remplacement", "incendie-gironde">>
statsLoaders ==
    <<"contributif-non-contributif", "seuils-pauvrete", "climat-international",
      "union-europeenne", "carte-bassins", "carte-eptb-epage", "depenses-fiscales-stats",
      "carte-ifi", "appareil-productif", "francophonie", "empire-colonial",
      "seconde-guerre-mondiale", "population-guerres", "controle-fiscal",
      "carte-infrastructure-ports", "justice", "carte-musees", "carte-etudiants",
      "carte-sru", "sru-prelevement", "effort-recherche", "indochine-partition",
      "medecins-evolution">>
charts == [i \in 1..Len(htmlLoaders \o statsLoaders) |->
              Load((htmlLoaders \o statsLoaders)[i], {})]

buildTopicsData_asks ==
    {"docs", "accueil-data", "territoires", "circuit-canaux", "secteurs"}
    \union ToSet(htmlLoaders) \union ToSet(statsLoaders)
topicsDeps == buildTopicsData_asks \union {"identite"}
topicsData == <<[Load("sujets-data", topicsDeps) EXCEPT
                    !.asks = buildTopicsData_asks,
                    !.reads = {"topics"}, !.writes = {"topics"}]>>

\* a page that waits for sujets-data without taking its (empty) result
TopicsPage(name, deps) ==
    [OwnPage(name, deps) EXCEPT !.asks = deps \ {"sujets-data"}, !.reads = {"topics"}]
topicsPages_bug ==          \* the dependency that the comment on accueil is about
    <<[TopicsPage("accueil", {"accueil-data", "sujets-data", "echelle-candidats"}) EXCEPT
          !.asks = {"accueil-data", "identite", "echelle-candidats"}],
      TopicsPage("sujets", {"accueil-data", "sujets-data"}),
      TopicsPage("argent-public", {"accueil-data", "fonctions", "sujets-data"}),
      TopicsPage("comprendre", {"sujets-data", "docs", "accueil-data"})>>
topicsPages ==
    <<TopicsPage("accueil", {"accueil-data", "sujets-data", "identite", "echelle-candidats"}),
      TopicsPage("sujets", {"accueil-data", "sujets-data"}),
      TopicsPage("argent-public", {"accueil-data", "fonctions", "sujets-data"}),
      TopicsPage("comprendre", {"sujets-data", "docs", "accueil-data"})>>

buildProfilePages_asks == {"identite", "election2027", "mandats-locaux", "parrainages-maires"}
profiles_bug ==             \* fiches does not wait for the votes, of which it asks nothing
    <<Load("mandats-locaux", {"lieux"}),
      [Load("votes-bulk", {"identite"}) EXCEPT !.writes = {"votes"}],
      [OwnPage("fiches", buildProfilePages_asks) EXCEPT !.reads = {"mandates", "votes"}]>>
profiles ==
    <<Load("mandats-locaux", {"lieux"}),
      [Load("votes-bulk", {"identite"}) EXCEPT !.writes = {"votes"}],
      [OwnPage("fiches", buildProfilePages_asks \union {"votes-bulk"}) EXCEPT
          !.asks = buildProfilePages_asks, !.reads = {"mandates", "votes"}]>>

\* writeIndex reads the Term of every person, and only the titles of the documents.
search == <<[OwnPage("recherche", {"identite", "themes", "sujets-data", "docs", "senat"}) EXCEPT
                !.asks = {"identite", "themes", "docs", "senat"}, !.reads = {"mandates"}]>>

ballots == <<[OwnPage("scrutin", {"seuils"}) EXCEPT !.writes = {"manifest"}]>>

buildRegistry ==
    identity \o firstLoads \o plainPages \o parliaments \o agesAndSecurity
    \o homeAndElection \o authorities \o localPages \o budgetPages \o whoPages
    \o charts \o topicsData \o topicsPages \o profiles \o search \o ballots
----------------------------------------------------------------------------
(* What may be asked of a build                                            *)

\* The sections whose name is that of their one node, and the others.
ownSections ==
    {"frise", "dette", "chomage", "richesse", "dividendes", "agriculture", "communes",
     "budget", "social", "qui-decide", "sources", "candidats", "partis", "assemblee",
     "accueil", "sujets", "argent-public", "comprendre", "fiches", "recherche", "scrutin"}
splitSections_bug(s) ==     \* the table before the map of old age had a node of its own
    CASE s = "vieillesse" -> {"vieillesse"}
      [] s = "jeunesse" -> {"jeunesse", "jeunesse-carte"}
      [] s = "collectivites" ->
            {"collectivites-page", "collectivites-cartes", "collectivites-pages-locales"}
splitSections(s) ==
    CASE s = "vieillesse" -> {"vieillesse", "vieillesse-carte"}
      [] s = "jeunesse" -> {"jeunesse", "jeunesse-carte"}
      [] s = "collectivites" ->
            {"collectivites-page", "collectivites-cartes", "collectivites-pages-locales"}
sectionNodes ==
    [s \in ownSections |-> {s}]
    @@ [s \in {"vieillesse", "jeunesse", "collectivites"} |-> splitSections(s)]
    @@ [s \in {"europe", "themes", "senat", "securite", "securite-civile", "election2027",
               "gouvernement"} |-> {s \o "-page"}]
    @@ [s \in {"circonscriptions"} |-> {"circonscriptions-data"}]

\* The first page of data of each topic that has one, in the order of the families:
\* the node that writes it. No node writes the last one, protection-sociale/.
topicPages ==
    <<"vieillesse", "chomage", "protection-sociale", "richesse", "dividendes", "jeunesse",
      "securite-page", "securite-civile-page", "collectivites-page", "agriculture",
      "europe-page", "budget", "dette">>
============================================================================
