----------------------------- MODULE Catalogue -----------------------------
(****************************************************************************)
(* The catalogue of sources of internal/ingest: for every source its        *)
(* declared dependencies and the connectors its Executer runs, one after    *)
(* the other up to the first failure; and the graph of the default chain    *)
(* (RunAll), which adds dependencies of its own.                            *)
(****************************************************************************)
EXTENDS ParliamentConnectors, EconomyConnectors, TerritoryConnectors, FiniteSets, TLC

Source(needs, runs) == [needs |-> needs, runs |-> runs]

\* a name that only stands for its dependencies: its Executer returns nil
Alias(needs) == Source(needs, <<>>)

----------------------------------------------------------------------------
\* Blocks of several connectors.

ingest_telechargerAssemblee == <<an_Download, an_Extract, an_Extract>>
ingest_ingestPartis         == <<partis_IngestAccounts, partis_IngestPopuList, partis_IngestCHES>>
ingest_normaliserAssemblee  == <<an_Normalize, an_NormalizeDeports>>
ingest_cartographie         == <<carto_Ingest, carto_IngestPresidents, carto_IngestGouvernements>>
ingest_ingestSenat == <<senat_Ingest, senat_IngestSenateurs, senat_MergePersons,
        senat_NormalizeMandates,
                        senat_IngestCommissions, senat_NormalizePresentations>>

budget_Ingest == <<budget_IngestProtectionSociale, budget_IngestExecutionEtat,
        budget_ingestExemptions,
                   budget_ingestPayroll, budget_IngestURSSAFEncaissements,
        budget_IngestPLFDestination>>
dette_Ingest == <<dette_IngestINSEE, dette_IngestEurostat, dette_IngestFMI>> \o dette_IngestSuisse
                \o <<dette_IngestAFT>> \o dette_IngestDepensesFiscales \o <<dette_IngestBanqueDeFrance>>
dossiers_Ingest == <<dossiers_IngestFacts, dossiers_IngestActors>>
entreprises_IngestInvestment == <<entreprises_IngestFinancialFlowsSNF,
        entreprises_IngestCompanyCategory>>
fiscalite_Ingest == <<fiscalite_IngestListes, fiscalite_IngestOCDEImpotSocietes,
        fiscalite_IngestOCDEIDE,
                      fiscalite_IngestFATS, fiscalite_IngestTWZ>> \o fiscalite_IngestFiliales
                    \o <<fiscalite_IngestMarches,
        fiscalite_IngestFaits>> \o fiscalite_IngestTransparence
international_Ingest == <<international_IngestSalaireMinimum, international_IngestPIBEpargneNette,
                          international_IngestCommerceExtraUE, international_IngestSanteOCDE,
                          international_IngestDepenseSanteOCDE, international_IngestSIPRIMilex,
                          international_IngestIDEA>>
numerique_Ingest == <<numerique_IngestQualifications, numerique_IngestSanctionsCNIL,
        numerique_IngestSILL,
                      numerique_IngestMarches>>
communes_IngestCOG == <<communes_loadCOG("2025"), communes_loadCOG("current")>>
education_Ingest == <<education_IngestStaffHeadcount, education_IngestStudentHeadcount>>
geo_Ingest == <<geo_loadVintage("2025"), geo_loadVintage("current")>>
immigration_Ingest == <<immigration_IngestStatutMigratoire, immigration_IngestCSP,
        immigration_IngestOrigine,
                        immigration_IngestEurostatMigration, immigration_IngestTitresSejour,
                        immigration_IngestHistorique, immigration_IngestFlux,
        immigration_IngestAsile>>
sante_Ingest == <<sante_IngestFiness, sante_IngestSecteurConventionnel,
        sante_IngestCertificationHAS,
                  sante_IngestPMSIMCO, sante_IngestPMSISMRHAD, sante_IngestHonoraires>>
\* internal/matview (see module Matview), as one statement
matview_RefreshAll == WithoutRun(<<Read, Upsert("mv.etat")>>)

----------------------------------------------------------------------------
\* parliaments, votes, texts, national elections

CatalogueParlement ==
    "download" :> Source({}, ingest_telechargerAssemblee)
 @@ "partis" :> Source({"download"}, ingest_ingestPartis)
 @@ "normalize" :> Source({"download", "partis"}, ingest_normaliserAssemblee)
 @@ "carto" :> Source({"normalize"}, ingest_cartographie)
 @@ "senat" :> Source({"normalize"}, ingest_ingestSenat)
 @@ "senat-repertoire" :> Source({"normalize"}, <<senat_IngestSenateurs>>)
 @@ "senat-fusion" :> Source({"senat"}, <<senat_MergePersons>>)
 @@ "senat-mandats" :> Source({"senat"}, <<senat_NormalizeMandates>>)
 @@ "senat-commissions" :> Source({"senat"}, <<senat_IngestCommissions>>)
 @@ "senat-presentations" :> Source({"senat"}, <<senat_NormalizePresentations>>)
 @@ "europe" :> Source({"normalize"}, <<europe_Ingest>>)
 @@ "themes" :> Source({"senat", "europe"}, <<carto_Themes>>)
 @@ "amendements" :> Source({"normalize"}, <<an_IngestAmendements>>)
 @@ "exposes" :> Source({"amendements"}, <<an_IngestExposes>>)
 @@ "exposes-reparse" :> Source({"amendements"}, <<an_ReparseExposes>>)
 @@ "interventions" :> Source({"normalize"}, <<an_IngestInterventions>>)
 @@ "deports" :> Source({"normalize"}, <<an_NormalizeDeports>>)
 @@ "promulgation" :> Source({"normalize"}, <<an_PromulgationDossiers>>)
 @@ "campagne" :> Source({}, <<campagne_Ingest>>)
 @@ "jorf" :> Source({}, <<jorf_Ingest>>)
 @@ "jorf-complet" :> Source({}, <<jorf_IngestComplet>>)
 @@ "jorf-elus" :> Source({}, <<jorf_NormalizeElus>>)
 @@ "jorf-gouvernement" :> Source({}, <<jorf_IngestGouvernement>>)
 @@ "gouvernement-membres" :> Source({"jorf-gouvernement"}, <<jorf_NormalizeMembres>>)
 @@ "presidentielle" :> Source({}, <<presidentielle_Ingest, presidentielle_IngestPopulation,
        presidentielle_IngestTurnout>>)
 @@ "parrainages" :> Source({}, <<presidentielle_IngestParrainages>>)

----------------------------------------------------------------------------
\* communes and local authorities

CatalogueCollectivites ==
    "communes-cog" :> Source({}, communes_IngestCOG)
 @@ "communes-rne" :> Source({"communes-cog", "normalize"}, <<communes_IngestRNE>>)
 @@ "communes-municipales" :> Source({"communes-rne"}, <<communes_IngestMunicipales>>)
 @@ "communes-ofgl" :> Source({"communes-municipales"}, <<communes_IngestOFGL>>)
 @@ "communes-banatic" :> Source({"communes-ofgl"}, <<communes_IngestBANATIC>>)
 @@ "communes-municipales2020" :> Source({"communes-banatic"}, <<communes_IngestMunicipales2020>>)
 @@ "communes-collectivites" :> Source({"communes-municipales2020"},
        <<communes_IngestCollectivites>>)
 @@ "communes-ssmsi" :> Source({"communes-collectivites"}, <<communes_IngestSSMSI>>)
 @@ "communes" :> Alias({"communes-ssmsi"})
 @@ "cog" :> Source({}, communes_IngestCOG)
 @@ "rne" :> Source({"normalize"}, <<communes_IngestRNE>>)
 @@ "epci" :> Source({}, <<communes_IngestBANATIC>>)
 @@ "municipales2020" :> Source({}, <<communes_IngestMunicipales2020>>)
 @@ "collectivites" :> Source({}, <<communes_IngestCollectivites>>)
 @@ "ssmsi" :> Source({}, <<communes_IngestSSMSI>>)
 @@ "associations" :> Source({}, <<associations_Ingest>>)
 @@ "fiscalite-locale" :> Source({}, <<communes_IngestFiscaliteDirecteLocale>>)
 @@ "sdis" :> Source({}, <<securitecivile_IngestSDIS>>)
 @@ "population-age" :> Source({}, <<communes_IngestPopulationAgeDepartement>>)
 @@ "population-historique" :> Source({}, <<communes_IngestPopulationHistorique>>)

----------------------------------------------------------------------------
\* public finance, aid to companies, payslip

\* aides-nominatives runs no loader of its own, so that this work exists once
aidesNominatives == Alias({"ademe", "minimis", "tam"})

CatalogueBudget ==
    "budget" :> Source({}, budget_Ingest)
 @@ "macro-eurostat" :> Source({}, <<macro_Ingest>>)
 @@ "macro-rsa" :> Source({}, <<macro_IngestRSA>>)
 @@ "macro-prestations-solidarite" :> Source({}, <<macro_IngestSolidarityBenefits>>)
 @@ "macro-recettes-fiscales" :> Source({}, <<macro_IngestTaxRevenue>>)
 @@ "macro-chomage-insee" :> Source({}, <<macro_IngestUnemploymentINSEE>>)
 @@ "macro-minima-sociaux" :> Source({}, <<macro_IngestSocialMinima>>)
 @@ "macro-age-retraite" :> Source({}, <<macro_IngestRetirementAge>>)
 @@ "macro-demandeurs-emploi" :> Source({}, <<macro_IngestJobSeekers>>)
 @@ "macro-prime-activite" :> Source({}, <<macro_IngestPrimeActivite>>)
 @@ "macro-taux-remplacement" :> Source({}, <<macro_IngestReplacementRate>>)
 @@ "macro-cotisants-retraites" :> Source({}, <<macro_IngestPensionContributorsRatio>>)
 @@ "macro" :> Alias({"macro-eurostat", "macro-rsa", "macro-prestations-solidarite",
        "macro-recettes-fiscales", "macro-chomage-insee", "macro-minima-sociaux",
        "macro-age-retraite", "macro-demandeurs-emploi", "macro-prime-activite",
        "macro-taux-remplacement",
        "macro-cotisants-retraites"})
 @@ "dette" :> Source({}, dette_Ingest)
 @@ "paie" :> Source({}, <<paie_Ingest>>)
 @@ "aides-urssaf" :> Source({}, <<aides_IngestUrssafTaille>>)
 @@ "aides-nominatives" :> aidesNominatives
 @@ "ademe" :> Source({"sirene"}, <<aides_IngestADEME>>)
 @@ "minimis" :> Source({"sirene"}, <<aides_IngestMinimis>>)
 @@ "tam" :> Source({"sirene"}, <<aides_IngestTAM>>)
 @@ "sirene" :> Source({}, <<aides_IngestSirene>>)
 @@ "entreprises" :> Source({}, <<entreprises_Ingest>>)
 @@ "investissement-entreprises" :> Source({}, entreprises_IngestInvestment)

----------------------------------------------------------------------------
\* health, old age, youth, poverty, education

CatalogueSocial ==
    "hatvp" :> Source({}, <<hatvp_Ingest>>)
 @@ "vieillesse" :> Source({}, <<vieillesse_IngestAPA>>)
 @@ "jeunesse" :> Source({}, <<jeunesse_IngestInserJeunes>>)
 @@ "richesse" :> Source({}, <<macro_IngestTopIncomesWealth>>)
 @@ "heritage" :> Source({}, <<macro_IngestInheritanceConcentration>>)
 @@ "ifi" :> Source({}, <<macro_IngestIFICOM>>)
 @@ "socle-pauvrete" :> Source({}, <<macro_IngestPoverty>>)
 @@ "socle-aide-alimentaire" :> Source({}, <<macro_IngestFoodAid>>)
 @@ "socle-pauvrete-taux-eu" :> Source({}, <<macro_IngestPovertyRateEU>>)
 @@ "socle-menages-drees" :> Source({}, <<macro_IngestHouseholdsDrees>>)
 @@ "socle-menages-effectif" :> Source({}, <<macro_IngestHouseholdCount>>)
 @@ "socle-pensions-eir" :> Source({}, <<macro_IngestPensionsEIR>>)
 @@ "socle-chomage-unedic" :> Source({}, <<macro_IngestUnemploymentUnedic>>)
 @@ "socle-filosofi-deciles" :> Source({}, <<macro_IngestFilosofiDeciles>>)
 @@ "socle" :> Alias({"socle-pauvrete", "socle-aide-alimentaire", "socle-pauvrete-taux-eu",
        "socle-menages-drees", "socle-menages-effectif", "socle-pensions-eir",
        "socle-chomage-unedic", "socle-filosofi-deciles"})
 @@ "immigration" :> Source({}, immigration_Ingest)
 @@ "education" :> Source({}, education_Ingest)
 @@ "education-personnel-categorie" :> Source({}, <<education_IngestStaffCategory>>)
 @@ "sante" :> Source({}, sante_Ingest)
 @@ "rpps" :> Source({}, <<sante_IngestRPPS>>)
 @@ "sae" :> Source({}, <<sante_IngestSAE>>)
 @@ "hopital-finances" :> Source({}, <<sante_IngestHopitalFinances>>)
 @@ "damir" :> Source({}, <<damir_IngestDamir>>)
 @@ "etablissements-penitentiaires" :> Source({}, <<macro_IngestPrisonFacilities>>)
 @@ "sru" :> Source({}, <<macro_IngestSRU>>)
 @@ "effectifs-etudiants" :> Source({}, <<macro_IngestStudentHeadcount>>)
 @@ "effort-recherche" :> Source({}, <<macro_IngestResearchEffort>>)
 @@ "museofile" :> Source({}, <<macro_IngestMuseums>>)
 @@ "education-depense-eleve" :> Source({}, <<education_IngestStudentSpending>>)
 @@ "education-effectifs-historique" :> Source({}, <<education_IngestHeadcountHistory>>)
 @@ "education-bac-reussite" :> Source({}, <<education_IngestBacPassRate>>)

----------------------------------------------------------------------------
\* water, ecology, agriculture

CatalogueEnvironnement ==
    "hydro" :> Source({}, <<hydro_IngestBasins>>)
 @@ "sous-bassins" :> Source({}, <<hydro_IngestSubBasins>>)
 @@ "cours-eau" :> Source({}, <<hydro_IngestWatercourses>>)
 @@ "eau-potable" :> Source({}, <<eau_IngestSISPEAEauPotable>>)
 @@ "eau-aides-loire-bretagne" :> Source({}, <<eau_IngestAidesLoireBretagne>>)
 @@ "eau-aides-artois-picardie" :> Source({}, <<eau_IngestAidesArtoisPicardie>>)
 @@ "eau-aides-rhin-meuse" :> Source({}, <<eau_IngestAidesRhinMeuse>>)
 @@ "eau-eptb-epage" :> Source({}, <<eau_IngestEPTBEPAGE>>)
 @@ "eau-budget-annexe" :> Source({}, <<eau_IngestBudgetAnnexeEau>>)
 @@ "assainissement" :> Source({}, <<eau_IngestAssainissement>>)
 @@ "ecologie" :> Source({}, <<ecologie_IngestDepensesEnvironnementales>>)
 @@ "agriculture" :> Source({}, <<agriculture_Ingest>>)
 @@ "revenu-agricole" :> Source({}, <<macro_IngestFarmIncome>>)

----------------------------------------------------------------------------
\* production, trade, companies

CatalogueEconomie ==
    "appareil-productif" :> Source({}, <<macro_IngestSectorEmploymentNACE,
        macro_IngestOffshoringInsee>>)
 @@ "commerce-partenaires" :> Source({}, <<macro_IngestTradePartners>>)
 @@ "ports" :> Source({}, <<macro_IngestPortTraffic, macro_IngestPortTrafficEurope>>)
 @@ "ports-infra" :> Source({}, <<macro_IngestPortHighways, macro_IngestPortRailLines,
        macro_IngestReportModalPort, macro_IngestReportModalContainers>>)
 @@ "decp" :> Source({}, <<decp_IngestDECP>>)

----------------------------------------------------------------------------
\* compared taxation, digital sovereignty, dossiers

CatalogueTransparence ==
    "controle-fiscal" :> Source({}, <<macro_IngestTaxAudit>>)
 @@ "fiscalite" :> Source({}, fiscalite_Ingest)
 @@ "fiscalite-listes" :> Source({}, <<fiscalite_IngestListes>>)
 @@ "fiscalite-ocde" :> Source({}, <<fiscalite_IngestOCDEImpotSocietes>>)
 @@ "fiscalite-ide" :> Source({}, <<fiscalite_IngestOCDEIDE>>)
 @@ "fiscalite-fats" :> Source({}, <<fiscalite_IngestFATS>>)
 @@ "fiscalite-twz" :> Source({}, <<fiscalite_IngestTWZ>>)
 @@ "fiscalite-filiales" :> Source({}, fiscalite_IngestFiliales)
 @@ "fiscalite-comptes" :> Source({}, <<fiscalite_IngestComptes>>)
 @@ "fiscalite-marches" :> Source({}, <<fiscalite_IngestMarches>>)
 @@ "fiscalite-faits" :> Source({}, <<fiscalite_IngestFaits>>)
 @@ "fiscalite-transparence" :> Source({}, fiscalite_IngestTransparence)
 @@ "numerique" :> Source({}, numerique_Ingest)
 @@ "numerique-anssi" :> Source({}, <<numerique_IngestQualifications>>)
 @@ "numerique-cnil" :> Source({}, <<numerique_IngestSanctionsCNIL>>)
 @@ "numerique-sill" :> Source({}, <<numerique_IngestSILL>>)
 @@ "numerique-marches" :> Source({}, <<numerique_IngestMarches>>)
 @@ "dossiers" :> Source({}, dossiers_Ingest)
 @@ "dossiers-faits" :> Source({}, <<dossiers_IngestFacts>>)
 @@ "dossiers-acteurs" :> Source({}, <<dossiers_IngestActors>>)

----------------------------------------------------------------------------
\* comparisons

CatalogueInternational ==
    "international" :> Source({}, international_Ingest)
 @@ "francophonie" :> Source({}, <<macro_IngestFrancophonie>>)
 @@ "accord-paris" :> Source({}, <<macro_IngestParisAgreement>>)
 @@ "ecart-prix-dom" :> Source({}, <<macro_IngestDomPriceGap>>)

----------------------------------------------------------------------------
\* shared infrastructure, maps

CatalogueSysteme ==
    "media" :> Source({"normalize", "carto"}, <<media_Ingest>>)
 @@ "checksums" :> Source({}, <<ingest_recalculerEmpreintes>>)
 @@ "matviews" :> Source({}, <<matview_RefreshAll>>)
 @@ "contours" :> Source({"communes-banatic"}, communes_IngestCOG \o geo_Ingest)
 @@ "circonscriptions" :> Source({}, <<geo_IngestCirconscriptions>>)
 @@ "contour-pays" :> Source({}, <<geo_IngestContourPays>>)
 @@ "cours-eau-monde" :> Source({}, <<geo_IngestCoursEauMonde>>)
 @@ "empire-colonial" :> Source({}, <<geo_IngestTerritoireColonial,
        macro_IngestCLIOInfraPopulation>>)
 @@ "ligne-demarcation" :> Source({}, <<geo_IngestLigneDemarcation>>)
 @@ "europe-1940" :> Source({}, <<geo_IngestEuropeGuerre1940>>)
 @@ "prefets" :> Source({}, <<prefets_Ingest>>)

catalogue ==
    CatalogueParlement @@ CatalogueCollectivites @@ CatalogueBudget @@ CatalogueSocial
 @@ CatalogueEnvironnement @@ CatalogueEconomie @@ CatalogueTransparence
 @@ CatalogueInternational @@ CatalogueSysteme

----------------------------------------------------------------------------
\* The default chain

socleParlementaire == {"download", "partis", "normalize", "carto", "senat", "europe", "themes"}

\* dependencies of the default chain only
dependenciesRunAll ==
    ("communes-rne" :> {"normalize"} @@ "associations" :> {"communes-cog"}
 @@ "hatvp" :> {"normalize", "communes-rne", "senat"} @@ "amendements" :> {"normalize"}
 @@ "exposes" :> {"normalize"} @@ "interventions" :> {"normalize"}
 @@ "jorf" :> {"normalize", "communes-rne", "senat"} @@ "promulgation" :> {"normalize", "jorf"}
 @@ "media" :> {"normalize", "partis", "carto"})

runAllSupplement(sources) ==
    {"presidentielle", "budget", "prefets", "agriculture", "entreprises", "campagne", "macro",
     "communes-cog", "communes-rne", "communes-municipales", "communes-ofgl", "communes-banatic",
     "communes-municipales2020", "communes-collectivites", "communes-ssmsi", "communes",
     "associations", "hatvp", "amendements", "exposes", "interventions", "jorf", "promulgation",
     "media"} \union sources["macro"].needs

\* the boundaries, drawn from the COG already loaded by communes-cog
GeoCourant == Source({"communes-cog", "communes-banatic"}, geo_Ingest)

registreComplet(sources) ==
    LET named == socleParlementaire \union runAllSupplement(sources)
        extra(s) == IF s \in DOMAIN dependenciesRunAll THEN dependenciesRunAll[s] ELSE {}
    IN  [s \in named |-> Source(sources[s].needs \union extra(s), sources[s].runs)]
        @@ "geo-courant" :> GeoCourant
        @@ "checksums" :> Source(named \union {"geo-courant"}, sources["checksums"].runs)
============================================================================
