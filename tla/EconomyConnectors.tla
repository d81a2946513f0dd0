------------------------- MODULE EconomyConnectors --------------------------
(****************************************************************************)
(* The connectors of the economic, social and fiscal sources, one operator  *)
(* per Go function (see Scripts for the vocabulary and ParliamentConnectors *)
(* for the naming).                                                         *)
(****************************************************************************)
EXTENDS Scripts

----------------------------------------------------------------------------
\* internal/aides: aid to companies

aides_chargerAides(code) == <<Fetch, Begin, SyncOf("core.aide_nominative", code), Commit>>
aides_executerAides(code) == Released(<<Read>>, aides_chargerAides(code))
aides_IngestADEME == aides_executerAides("ademe")
aides_IngestMinimis == aides_executerAides("minimis")
aides_IngestSirene == Loads(<<Sync("ref.unite_legale")>>)
aides_IngestTAM == aides_executerAides("tam")
aides_IngestUrssafTaille == InOneTransaction(<<Fetch>>,
    <<SyncOf("core.exoneration_tranche", "urssaf"), SyncOf("core.emploi_prive_tranche", "urssaf")>>)

----------------------------------------------------------------------------
\* internal/budget: budget

budget_IngestProtectionSociale == Loads(<<Sync("core.protection_sociale")>>)
budget_IngestExecutionEtat == Loads(<<Sync("core.execution_etat")>>)
budget_IngestPLFDestination == Loads(<<Sync("core.budget_programme")>>)
budget_ingestExemptions == Loads(<<Sync("core.exoneration_cotisation")>>)
budget_ingestPayroll == Loads(<<Sync("core.masse_salariale")>>)
budget_IngestURSSAFEncaissements == Loads(<<Sync("core.encaissement_urssaf")>>)

----------------------------------------------------------------------------
\* internal/decp: public procurement

decp_IngestDECP == Loads(<<Sync("core.public_contract")>>)

----------------------------------------------------------------------------
\* internal/dette: public debt

dette_load(src) == <<Begin, SyncOf("ref.dette_serie", src), SyncOf("core.dette_observation", src), Commit>>
dette_run(src) == Released(<<>>, <<Fetch>> \o dette_load(src))
dette_IngestAFT == dette_run("AFT")
dette_IngestBanqueDeFrance == dette_run("BANQUE_DE_FRANCE")
dette_loadDF(document) == Loads(<<SyncOf("core.depense_fiscale", document),
    SyncOf("ref.depense_fiscale_beneficiaire", document)>>)
dette_IngestDepensesFiscales == <<dette_loadDF("voies et moyens"), dette_loadDF("budget vert")>>
dette_IngestEurostat == dette_run("EUROSTAT")
dette_IngestFMI == dette_run("FMI")
dette_IngestINSEE == dette_run("INSEE")
dette_IngestSuisse == <<dette_run("AFF"), dette_run("BNS")>>

----------------------------------------------------------------------------
\* internal/dossiers: facts of the dossiers

dossiers_run(body) == Released(<<>>, body)
dossiers_IngestActors == dossiers_run(<<Read, Fetch, Begin, Sync("ref.acteur_numerique"), Commit>>)
dossiers_IngestFacts ==
    dossiers_run(<<Read, Fetch, Read, Begin, Sync("ref.fait_dossier"), Sync("ref.dossier_terme"),
    Sync("ref.dossier_mission"), Commit>>)

----------------------------------------------------------------------------
\* internal/entreprises: companies

entreprises_Ingest == InOneTransaction(<<Fetch>>,
    <<Sync("core.entreprise_compte"), Sync("core.entreprise")>>
    \o Twice(<<Fetch, Upsert("core.entreprise"), Fetch, Upsert("core.entreprise_compte")>>))
entreprises_IngestFinancialFlowsSNF == Loads(<<Sync("core.flux_financier_snf")>>)
entreprises_IngestCompanyCategory == Loads(<<SyncOf("core.entreprise_categorie", "the year")>>)

----------------------------------------------------------------------------
\* internal/fiscalite: taxation

fiscalite_run(body) == Released(<<>>, body)
fiscalite_IngestFaits == fiscalite_run(<<Fetch, Fetch, Begin, Sync("ref.fait_multinationale"), Commit>>)
fiscalite_IngestFATS == fiscalite_run(<<Fetch, Fetch, Begin, SyncOf("core.fats_controle", "FR"), Commit>>)
fiscalite_IngestComptes == Released(<<Read>>, <<Fetch, Fetch, Begin, Sync("core.entreprise_comptes"), Commit>>)
fiscalite_IngestFiliales == <<WithoutRun(<<Read>>), fiscalite_run(<<Fetch, Fetch, Fetch>>),
    WithoutRun(<<Begin, Sync("core.filiale_groupe_etranger"), Commit>>), fiscalite_IngestComptes>>
fiscalite_IngestListes ==
    Released(<<Read>>, <<Fetch, Read, Begin, Sync("ref.juridiction_non_cooperative"), Commit>>)
fiscalite_IngestMarches == Released(<<Read>>, <<Fetch, Fetch, Begin, Sync("core.marche_public_cible"), Commit>>)
fiscalite_IngestOCDEImpotSocietes == fiscalite_run(<<Fetch, Fetch, Begin, Sync("core.cbcr_agregat"),
    Sync("core.fiscalite_pays"), Commit>>)
fiscalite_IngestOCDEIDE == fiscalite_run(<<Fetch, Begin, SyncOf("core.ide_revenu", "FR"), Commit>>)
fiscalite_countryReports == fiscalite_run(<<Fetch, Fetch, Begin, Sync("core.cbcr_public"), Commit>>)
fiscalite_groupResults == fiscalite_run(<<Fetch, Fetch, Begin, Sync("core.groupe_resultat_sec"), Commit>>)
fiscalite_groupStatuses == WithoutRun(<<Begin, Sync("ref.groupe_statut_fiscal"), Commit>>)
fiscalite_IngestTransparence == <<fiscalite_run(<<Fetch, Begin, Sync("ref.parametre_is"), Commit>>),
    fiscalite_countryReports, fiscalite_groupResults, fiscalite_groupStatuses>>
fiscalite_IngestTWZ ==
    fiscalite_run(<<Fetch, Fetch, Begin, Sync("core.transfert_benefices_estimation"), Commit>>)

----------------------------------------------------------------------------
\* internal/international: international comparisons

international_IngestCommerceExtraUE == Loads(<<SyncOf("core.indicateur_mondial", "eu_extra")>>)
international_IngestIDEA == Loads(<<Sync("core.participation_electorale")>>)
international_IngestPIBEpargneNette ==
    InOneTransaction(<<>>, <<Fetch, Fetch, SyncOf("core.indicateur_mondial", "wb")>>)
international_IngestSalaireMinimum == Loads(<<Sync("core.salaire_minimum")>>)
international_IngestSanteOCDE == Loads(<<SyncOf("core.indicateur_mondial", "esperance")>>)
international_IngestDepenseSanteOCDE == Loads(<<SyncOf("core.indicateur_mondial", "depense")>>)
international_IngestSIPRIMilex == Loads(<<SyncOf("core.indicateur_mondial", "sipri")>>)

----------------------------------------------------------------------------
\* internal/macro: national series

macro_IngestParisAgreement == Loads(<<Sync("core.ratification_accord_paris")>>)
macro_IngestRetirementAge == Loads(<<Sync("core.age_depart_retraite")>>)
macro_IngestFoodAid == Loads(<<Sync("core.aide_alimentaire")>>)
macro_IngestUnemploymentINSEE == Loads(<<Sync("core.chomage_taux_trimestriel")>>)
macro_IngestUnemploymentUnedic == Loads(<<Sync("core.chomage_tranche_unedic")>>)
macro_IngestCLIOInfraPopulation == Loads(<<Sync("core.population_indochine_historique")>>)
macro_IngestTradePartners == Loads(<<Sync("core.commerce_partenaire_secteur")>>)
macro_IngestTaxAudit == InOneTransaction(<<>>, <<Sync("core.controle_fiscal_resultats")>>)
macro_IngestPensionContributorsRatio == Loads(<<Sync("core.cotisants_retraites_ratio")>>)
macro_replaceOffshoring == <<Sync("core.delocalisation_annuelle"),
    Sync("core.delocalisation_departement"), Sync("core.delocalisation_csp")>>
macro_IngestOffshoringInsee == Loads(macro_replaceOffshoring)
macro_IngestJobSeekers == Loads(<<Sync("core.demandeur_emploi_categorie")>>)
macro_IngestSolidarityBenefits == Loads(<<Sync("core.prestation_solidarite")>>)
macro_IngestDomPriceGap == InOneTransaction(<<>>, <<Sync("core.ecart_prix_dom")>>)
macro_IngestStudentHeadcount == Loads(<<Sync("core.effectifs_etudiants_commune")>>)
macro_IngestResearchEffort == Loads(<<Sync("core.effort_recherche")>>)
macro_IngestSectorEmploymentNACE == Loads(<<Sync("core.emploi_secteur_nace")>>)
macro_IngestPrisonFacilities == Loads(<<Sync("core.etablissement_penitentiaire")>>)
macro_IngestFilosofiDeciles == Loads(<<SyncOf("core.filosofi_decile_national", "the year")>>)
macro_IngestTaxRevenue == Loads(<<Sync("core.recette_fiscale"), Sync("ref.poste_fiscal")>>)
macro_IngestFrancophonie == Loads(<<Sync("core.francophonie_entite")>>)
macro_IngestTopIncomesWealth == Loads(<<Sync("core.filosofi_haut_revenu"), Sync("core.revenu_part_groupe"),
    Sync("core.patrimoine_haut")>>)
macro_IngestInheritanceConcentration == Loads(<<Sync("core.menage_heritage"),
    Sync("core.concentration_patrimoine_niveau_vie"), Sync("core.gini_patrimoine_niveau_vie")>>)
macro_IngestIFICOM == Loads(<<Sync("core.ifi_commune")>>)
macro_Ingest == InOneTransaction(<<>>,
    Twice(<<Fetch, Upsert("ref.macro_serie"), SyncOf("core.macro_value", "eurostat")>>))
macro_IngestRSA == InOneTransaction(<<>>,
    <<Upsert("ref.macro_serie"), SyncOf("core.macro_value", "rsa")>> \o Twice(<<Fetch, Upsert("core.macro_value")>>))
macro_IngestHouseholdsDrees == Loads(<<Sync("core.menage_type_drees")>>)
macro_IngestHouseholdCount == Loads(<<Sync("core.menage_type_effectif")>>)
macro_loadMinimaHeadcount == <<Fetch, Begin, Sync("core.minima_sociaux_effectif"), Commit>>
macro_loadMinimaSpending == <<Fetch, Begin, Sync("core.minima_sociaux_depense"), Commit>>
macro_IngestSocialMinima == Released(<<>>, macro_loadMinimaHeadcount \o macro_loadMinimaSpending)
macro_IngestMuseums == Loads(<<Sync("core.musee_france")>>)
macro_IngestPoverty == Loads(<<Sync("core.pauvrete_seuil_annuel")>>)
macro_IngestPovertyRateEU == Loads(<<Sync("core.pauvrete_taux_eu")>>)
macro_IngestPensionsEIR == Loads(<<Sync("core.pension_tranche_eir")>>)
macro_IngestPortTraffic == Loads(<<Sync("core.trafic_portuaire")>>)
macro_IngestPortTrafficEurope == Loads(<<Sync("core.trafic_portuaire_europe")>>)
macro_IngestPortHighways == Loads(<<Sync("geo.autoroute_portuaire")>>)
macro_IngestPortRailLines == Loads(<<Sync("geo.voie_ferree_portuaire")>>)
macro_IngestReportModalPort == InOneTransaction(<<>>, <<Sync("core.report_modal_port")>>)
macro_IngestReportModalContainers == InOneTransaction(<<>>, <<Sync("core.report_modal_conteneurs")>>)
macro_IngestPrimeActivite == Loads(<<Sync("core.prime_activite_effectif")>>)
macro_IngestFarmIncome == Loads(<<Sync("core.revenu_agricole_reel")>>)
macro_IngestSRU == InOneTransaction(<<Read, Fetch>>, <<SyncOf("core.sru_commune", "the year")>>)
macro_IngestReplacementRate == Loads(<<Sync("core.taux_remplacement_retraite")>>)

----------------------------------------------------------------------------
\* internal/numerique: digital sovereignty

numerique_run(body) == Released(<<>>, body)
numerique_IngestSanctionsCNIL == numerique_run(<<Fetch, Begin, Sync("core.sanction_cnil"), Commit>>)
numerique_IngestMarches == numerique_run(<<Fetch, Fetch, Begin, Unlink("core.marche_numerique"),
    Sync("core.marche_numerique"), Commit>>)
numerique_IngestQualifications ==
    numerique_run(<<Fetch, Begin, SyncOf("core.qualification_secnumcloud", "the catalogue"), Commit>>)
numerique_IngestSILL == numerique_run(<<Fetch, Begin, Sync("core.sill_logiciel"), Commit>>)

----------------------------------------------------------------------------
\* internal/paie: payslip

paie_load ==
    <<Fetch, Begin, Sync("ref.bulletin_cas"), Upsert("ref.organisme_social"), Sync("ref.parametre_social"),
    Sync("ref.taux_cotisation"), Commit>>
paie_Ingest == Released(<<>>, paie_load)
============================================================================
