------------------------ MODULE TerritoryConnectors -------------------------
(****************************************************************************)
(* The connectors of the local, geographic, environmental and health        *)
(* sources, one operator per Go function (see Scripts for the vocabulary    *)
(* and ParliamentConnectors for the naming).                                *)
(****************************************************************************)
EXTENDS Scripts

----------------------------------------------------------------------------
\* internal/agriculture: agriculture

agriculture_Ingest == Loads(<<Upsert("ref.produit_alimentaire"), Sync("core.bilan_alimentaire"),
    Sync("core.agriculture_indicateur")>>)

----------------------------------------------------------------------------
\* internal/associations: associations

associations_Ingest == InOneTransaction(<<Fetch, Read>>,
    <<Unlink("core.association"), Sync("core.association")>>)

----------------------------------------------------------------------------
\* internal/communes: communes

communes_groupings == <<Upsert("ref.competence"), Sync("core.epci")>>
communes_membersAndPowers == <<Unlink("core.epci_membre"), Sync("core.epci_membre"),
    Unlink("core.epci_competence"), Sync("core.epci_competence")>>
communes_IngestBANATIC == InOneTransaction(<<Fetch, Read>>, communes_groupings \o communes_membersAndPowers)
communes_loadCOG(vintage) == Loads(<<SyncOf("ref.commune_change", vintage), Upsert("ref.commune")>>)
communes_IngestCollectivites == InOneTransaction(<<>>,
    <<Fetch, Fetch, Unlink("core.collectivite_budget"), SyncOf("core.collectivite_budget", "regions")>>)
communes_IngestMunicipales == Loads(<<Unlink("core.municipal_list"), SyncOf("core.municipal_list", "2026")>>)
communes_IngestFiscaliteDirecteLocale == Loads(<<Sync("core.fiscalite_directe_locale")>>)
communes_IngestMunicipales2020 == InOneTransaction(<<Read, Fetch>>,
    <<Unlink("core.municipal_list"), SyncOf("core.municipal_list", "2020")>>)
communes_IngestOFGL == InOneTransaction(<<Read, Fetch>>,
    <<Unlink("core.commune_indicator"), SyncOf("core.commune_indicator", "ofgl")>>)
communes_IngestPopulationAgeDepartement == Loads(<<Sync("core.population_age_departement")>>)
communes_IngestPopulationHistorique == Loads(<<Unlink("core.population_historique_commune"),
    Sync("core.population_historique_commune")>>)
\* who was elected, known already or not, then the mandates
communes_reconcile == <<Upsert("core.person"), Upsert("core.person_identifier")>>
communes_localMandates == <<SyncOf("core.mandate", "local")>>
communes_IngestRNE ==
    Loads(<<SyncOf("core.mandate", "national duplicates")>> \o communes_reconcile \o communes_localMandates)
communes_mergeSSMSI == <<Upsert("ref.indicateur_delinquance"),
    Unlink("core.commune_delinquance"), Sync("core.commune_delinquance")>>
communes_IngestSSMSI == InOneTransaction(<<Fetch, Read>>, communes_mergeSSMSI)

----------------------------------------------------------------------------
\* internal/damir: health reimbursements

damir_IngestDamir == Loads(<<Sync("core.remboursement_national"), Sync("core.remboursement_region_prestation")>>)

----------------------------------------------------------------------------
\* internal/eau: water

eau_loadAndInsert(agency) ==
    <<Begin, Unlink("core.aide_agence_eau"), SyncOf("core.aide_agence_eau", agency), Commit>>
eau_IngestAidesLoireBretagne == Released(<<>>, <<Fetch>> \o eau_loadAndInsert("LOIRE_BRETAGNE"))
eau_IngestAidesArtoisPicardie == Released(<<>>, <<Fetch>> \o eau_loadAndInsert("ARTOIS_PICARDIE"))
eau_IngestAidesRhinMeuse == Released(<<>>, <<Fetch>> \o eau_loadAndInsert("RHIN_MEUSE"))
eau_IngestAssainissement == Loads(<<SyncOf("core.service_assainissement", "2023")>>)
eau_IngestBudgetAnnexeEau == Loads(<<Unlink("core.budget_annexe_eau"), Sync("core.budget_annexe_eau")>>)
eau_replaceEPTBEPAGE ==
    <<Sync("geo.contour_eptb_epage"), Sync("core.eptb_epage"), Sync("core.eptb_epage_membre")>>
eau_IngestEPTBEPAGE == Loads(eau_replaceEPTBEPAGE)
eau_IngestSISPEAEauPotable == Loads(<<SyncOf("core.service_eau_potable", "2023")>>)

----------------------------------------------------------------------------
\* internal/ecologie: environment

ecologie_IngestDepensesEnvironnementales == Loads(<<Sync("core.depense_environnementale")>>)

----------------------------------------------------------------------------
\* internal/education: education

education_IngestBacPassRate == Loads(<<Sync("core.education_bac_reussite")>>)
education_IngestStudentSpending == Loads(<<Sync("core.education_depense_eleve")>>)
education_IngestStaffHeadcount ==
    InOneTransaction(<<>>, <<Fetch, Fetch, Sync("core.education_personnel_etablissement")>>)
education_IngestStudentHeadcount == Loads(<<Sync("core.education_effectif_eleves")>>)
education_IngestHeadcountHistory == Loads(<<Sync("core.education_effectif_eleves_historique")>>)
education_IngestStaffCategory == Loads(<<SyncOf("core.education_personnel_categorie", "the year")>>)

----------------------------------------------------------------------------
\* internal/geo: maps

geo_replaceCirconscriptions == <<Sync("core.circonscription_indicateur"),
    Sync("ref.circonscription_variable"), Sync("ref.circonscription_legislative"),
    Upsert("geo.contour_circonscription")>>
geo_IngestCirconscriptions == Loads(geo_replaceCirconscriptions)
geo_IngestCoursEauMonde == Loads(<<Sync("geo.cours_eau_monde")>>)
geo_IngestTerritoireColonial == Loads(<<Sync("geo.territoire_colonial"), Sync("geo.indochine_partition_1954"),
    Sync("geo.empire_colonial_extension")>>)
geo_IngestEuropeGuerre1940 ==
    Closing(<<EnsureSource, StartRun, Fetch, Begin, Sync("geo.contour_europe_1940"), Commit,
    RefusedEndRun>>)
geo_loadVintage(vintage) == InOneTransaction(<<Fetch>>,
    <<SyncOf("geo.contour_cog", vintage), Fetch, Upsert("geo.contour_cog")>>)
geo_IngestLigneDemarcation == Loads(<<Sync("geo.ligne_demarcation")>>)
geo_IngestContourPays == Loads(<<Sync("geo.contour_pays")>>)

----------------------------------------------------------------------------
\* internal/hydro: catchment areas

hydro_IngestBasins == InOneTransaction(<<>>,
    <<Sync("geo.contour_bassin")>> \o Twice(<<Fetch, Upsert("geo.contour_bassin")>>))
hydro_IngestWatercourses == Loads(<<Sync("geo.cours_eau")>>)
hydro_IngestSubBasins == Loads(<<Sync("geo.contour_sous_bassin")>>)

----------------------------------------------------------------------------
\* internal/immigration: immigration

immigration_loadAsileYear == <<Fetch>>
immigration_IngestAsile == InOneTransaction(<<>>,
    Twice(immigration_loadAsileYear) \o <<Sync("core.demande_asile_ofpra")>>)
immigration_IngestCSP == Loads(<<Sync("core.population_statut_migratoire_csp")>>)
immigration_IngestEurostatMigration == Loads(<<Sync("core.eurostat_population_migratoire")>>)
immigration_IngestFlux == Loads(<<Sync("core.flux_migratoire")>>)
immigration_IngestHistorique == Loads(<<Sync("core.population_historique_nationalite")>>)
immigration_IngestOrigine == Loads(<<Sync("core.population_immigree_origine")>>)
immigration_IngestStatutMigratoire == Loads(<<Sync("core.population_statut_migratoire")>>)
immigration_IngestTitresSejour == Loads(<<Sync("core.titre_sejour_stock")>>)

----------------------------------------------------------------------------
\* internal/jeunesse: youth

jeunesse_IngestInserJeunes == Loads(<<Sync("core.insertion_apprentissage")>>)

----------------------------------------------------------------------------
\* internal/sante: health

sante_IngestCertificationHAS == Loads(<<Sync("core.certification_has_demarche"),
    Sync("core.certification_has_chapitre")>>)
sante_IngestFiness == Loads(<<Unlink("ref.finess_etablissement"), Sync("ref.finess_etablissement")>>)
sante_IngestHonoraires == Loads(<<Sync("core.medecin_honoraires")>>)
sante_IngestHopitalFinances == Loads(<<Sync("core.hopital_public_resultat"),
    Sync("core.hopital_public_deficit_categorie")>>)
\* hospital activity (PMSI): a download for each table, inside the transaction
sante_mcoPatients == <<Fetch, Sync("core.pmsi_mco_par_patient")>>
sante_mco == <<Fetch, Sync("core.pmsi_mco_national"), Fetch, Sync("core.pmsi_mco_par_etablissement")>>
    \o sante_mcoPatients
sante_smrPatients == <<Fetch, Sync("core.pmsi_smr_par_patient")>>
sante_smr == <<Fetch, Sync("core.pmsi_smr_regional"), Fetch, Sync("core.pmsi_smr_par_etablissement")>>
    \o sante_smrPatients
sante_hadPatients == <<Fetch, Sync("core.pmsi_had_par_patient")>>
sante_had == <<Fetch, Sync("core.pmsi_had_regional"), Fetch, Sync("core.pmsi_had_par_etablissement")>>
    \o sante_hadPatients
sante_IngestPMSIMCO == InOneTransaction(<<>>, sante_mco)
sante_IngestPMSISMRHAD == InOneTransaction(<<>>, sante_smr \o sante_had)
sante_IngestRPPS == Loads(<<Unlink("core.rpps_professionnel_activite"), Sync("core.rpps_professionnel_activite")>>)
sante_saeStaff == <<Unlink("core.sae_personnel_fonction"), Sync("core.sae_personnel_fonction")>>
sante_saeEmergencies == <<Unlink("core.sae_urgences_passages"), Sync("core.sae_urgences_passages")>>
sante_IngestSAE == Loads(sante_saeStaff \o sante_saeEmergencies)
sante_IngestSecteurConventionnel == Loads(<<Sync("core.medecin_secteur_effectif")>>)

----------------------------------------------------------------------------
\* internal/securitecivile: fire and rescue services

securitecivile_IngestSDIS == Loads(<<Sync("core.sdis"), Unlink("core.collectivite_budget"),
    SyncOf("core.collectivite_budget", "SDIS")>>)

----------------------------------------------------------------------------
\* internal/vieillesse: old age

vieillesse_IngestAPA == Loads(<<Sync("core.apa_domicile")>>)
============================================================================
